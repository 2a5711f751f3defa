--------------------------- MODULE SyncMerge_proof ---------------------------
(***************************************************************************)
(* Theorems about the merge (SyncMerge.tla), for any properties, values,   *)
(* numbers and conflict orders, and any limit on the length of an order.   *)
(***************************************************************************)
EXTENDS MCSyncMerge, WellFoundedInduction, TLAPS

Object == Payload \cup {None}

(* What is merged is the merge of two objects with their ancestor. *)
MergeInv ==
  /\ ancestor \in Object /\ server \in Object /\ client \in Object
  /\ pending \in BOOLEAN
  /\ ~pending => merged = defaultThreeWayMerge(ancestor, server, client)

(* Every reachable state satisfies MergeInv. *)
LEMMA MergeInvariant == MergeSpec => []MergeInv
<1>1. MergeInit => MergeInv
  BY DEF MergeInit, MergeInv, Object
<1>2. MergeInv /\ [Merge]_mergeVars => MergeInv'
  BY DEF Merge, mergeVars, MergeInv
<1> QED
  BY <1>1, <1>2, PTL DEF MergeSpec

-----------------------------------------------------------------------------
(* Properties one by one                                                   *)

(* Where no order decides, the result is merged property by property. *)
LEMMA FieldwiseResult ==
  ASSUME MergeInv, Fieldwise
  PROVE  /\ server \in Payload /\ client \in Payload /\ Base \in Payload
         /\ merged = mergeFields(Base, server, client)
<1>1. /\ server \in Payload /\ client \in Payload /\ ancestor \in Object
      /\ merged = defaultThreeWayMerge(ancestor, server, client)
  BY DEF MergeInv, Fieldwise, Object
<1>2. Base \in Payload
  BY <1>1 DEF Base, Object, Empty, Payload
<1> QED
  BY <1>1, <1>2 DEF Fieldwise, defaultThreeWayMerge, Base

(* domain/sync.ts, defaultThreeWayMerge: where no order decides, neither   *)
(* side's change is lost in the other's, whatever the objects are.         *)
THEOREM NoSideIsLost == MergeSpec => []BothSidesSurvive
<1>1. ASSUME MergeInv, Fieldwise
      PROVE  ServerChangesSurvive
  <2>1. merged = mergeFields(Base, server, client)
    BY <1>1, FieldwiseResult
  <2>2. ASSUME NEW f \in Fields, client.data[f] = Base.data[f]
        PROVE  merged.data[f] = server.data[f]
    BY <2>1, <2>2 DEF mergeFields, mergeProperty
  <2>3. ASSUME client.order = Base.order
        PROVE  merged.order = server.order
    BY <2>1, <2>3 DEF mergeFields, mergeProperty
  <2> QED
    BY <2>2, <2>3 DEF ServerChangesSurvive
<1>2. ASSUME MergeInv, Fieldwise
      PROVE  ClientValuesWin
  <2>1. merged = mergeFields(Base, server, client)
    BY <1>2, FieldwiseResult
  <2>2. ASSUME NEW f \in Fields, client.data[f] \notin {Absent, Base.data[f]}
        PROVE  merged.data[f] = client.data[f]
    BY <2>1, <2>2 DEF mergeFields, mergeProperty
  <2> QED
    BY <2>2 DEF ClientValuesWin
<1>3. MergeInv => BothSidesSurvive
  BY <1>1, <1>2 DEF BothSidesSurvive, ServerChangesSurvive, ClientValuesWin
<1> QED
  BY <1>3, MergeInvariant, PTL

(* The client sends every property that the ancestor has. *)
ClientRemovesNothing ==
  \A f \in Fields : client.data[f] = Absent => Base.data[f] = Absent

(***************************************************************************)
(* domain/sync.ts line 64: removals are all that the loop over the         *)
(* client's keys misses.  Where the client removed nothing, a property     *)
(* that only the client changed has the client's value in the result.      *)
(***************************************************************************)
THEOREM OnlyRemovalsComeBack ==
  MergeSpec => [](ClientRemovesNothing => ClientOnlyChangesReplace)
<1>1. ASSUME MergeInv, ClientRemovesNothing, Fieldwise, NEW f \in Fields,
             server.data[f] = Base.data[f]
      PROVE  merged.data[f] = client.data[f]
  <2>1. merged.data[f] = mergeProperty(Base.data[f], server.data[f], client.data[f])
    BY <1>1, FieldwiseResult DEF mergeFields
  <2>2. client.data[f] = Absent => Base.data[f] = Absent
    BY <1>1 DEF ClientRemovesNothing
  <2> QED
    BY <1>1, <2>1, <2>2 DEF mergeProperty
<1>2. MergeInv => (ClientRemovesNothing => ClientOnlyChangesReplace)
  BY <1>1 DEF ClientOnlyChangesReplace
<1> QED
  BY <1>2, MergeInvariant, PTL

-----------------------------------------------------------------------------
(* Conflict orders                                                         *)

(* The least-number principle, for sets. *)
LEMMA LeastNumber ==
  ASSUME NEW S \in SUBSET Nat, S # {}
  PROVE  \E n \in S : \A k \in S : ~(k < n)
<1> DEFINE R == OpToRel(<, Nat)
<1>1. \A x, y \in Nat : x < y => <<x, y>> \in R
  BY DEF OpToRel
<1>2. IsWellFoundedOn(R, Nat)
  BY NatLessThanWellFounded
<1> HIDE DEF R
<1>3. \E n \in S : \A k \in S : ~(<<k, n>> \in R)
  BY <1>2, WFMin
<1> QED
  BY <1>1, <1>3, Zenon

(* Both payloads hold numbers under every property an order lists. *)
Ranked(p, q, order) ==
  /\ p \in Payload /\ q \in Payload
  /\ order \in Orders /\ HonouredOrder(order)
  /\ AllNumbers(p, order) /\ AllNumbers(q, order)

(* Position k of the order is the first at which the payloads differ. *)
Decides(p, q, order, k) ==
  /\ k \in 1..Len(order)
  /\ p.data[order[k]] # q.data[order[k]]
  /\ \A j \in 1..(k - 1) : p.data[order[j]] = q.data[order[j]]

(* The greater payload at the position that decides outranks the other, *)
(* which does not outrank it at any position.                           *)
LEMMA GreaterOutranks ==
  ASSUME NEW p, NEW q, NEW order, NEW k,
         Ranked(p, q, order), Decides(p, q, order, k),
         p.data[order[k]] > q.data[order[k]]
  PROVE  Outranks(p, q, order) /\ ~Outranks(q, p, order)
<1>1. Len(order) \in Nat /\ DOMAIN order = 1..Len(order)
  BY OrdersAssumption DEF Ranked
<1>2. k \in Nat /\ k \in 1..Len(order)
  BY <1>1 DEF Decides
<1>3. \A j \in 1..Len(order) : /\ Comparable(p, q, order[j]) /\ Comparable(q, p, order[j])
                               /\ p.data[order[j]] \in Int /\ q.data[order[j]] \in Int
  BY <1>1, NumbersAssumption DEF Ranked, AllNumbers, Comparable, Numeric
<1>4. Outranks(p, q, order)
  <2>1. \A j \in 1..(k - 1) : j \in 1..Len(order)
    BY <1>1, <1>2
  <2> QED
    BY <1>2, <1>3, <2>1 DEF Outranks, Decides
<1>5. ASSUME NEW i \in 1..Len(order),
             \A j \in 1..(i - 1) : q.data[order[j]] = p.data[order[j]],
             q.data[order[i]] > p.data[order[i]]
      PROVE  FALSE
  <2>1. i \in Nat
    BY <1>1
  <2>2. CASE i < k
    <3>1. i \in 1..(k - 1)
      BY <1>2, <2>1, <2>2
    <3>2. p.data[order[i]] = q.data[order[i]]
      BY <3>1 DEF Decides
    <3> QED
      BY <1>3, <1>5, <3>2
  <2>3. CASE i = k
    BY <1>3, <1>5, <2>3
  <2>4. CASE k < i
    <3>1. k \in 1..(i - 1)
      BY <1>2, <2>1, <2>4
    <3> QED
      BY <1>5, <3>1 DEF Decides
  <2> QED
    BY <1>2, <2>1, <2>2, <2>3, <2>4
<1> QED
  BY <1>4, <1>5 DEF Outranks

(* So the merge is that payload, in whichever order the two arrive. *)
LEMMA GreaterIsMerged ==
  ASSUME NEW p, NEW q, NEW order, NEW k, NEW old,
         Ranked(p, q, order), Decides(p, q, order, k),
         p.order = order, q.order = order,
         p.data[order[k]] > q.data[order[k]]
  PROVE  defaultThreeWayMerge(old, q, p) = p /\ defaultThreeWayMerge(old, p, q) = p
<1>1. Outranks(p, q, order) /\ ~Outranks(q, p, order)
  BY GreaterOutranks
<1>2. p # None /\ q # None /\ HonouredOrder(order)
  BY NoneAssumption DEF Ranked
<1>3. preferredPayload(q, p) = p /\ preferredPayload(p, q) = p
  BY <1>1, <1>2 DEF preferredPayload
<1> QED
  BY <1>2, <1>3 DEF defaultThreeWayMerge

(* The first difference that the property asks for exists. *)
LEMMA FirstDifferenceDecides ==
  ASSUME NEW order \in Orders
  PROVE  LET k == FirstDifference(order)
         IN  /\ k \in 1..(Len(order) + 1)
             /\ k <= Len(order) => Decides(client, server, order, k)
<1> DEFINE differs == {k \in 1..Len(order) : server.data[order[k]] # client.data[order[k]]}
           IsFirst(k) == /\ \A j \in 1..(k - 1) : server.data[order[j]] = client.data[order[j]]
                         /\ k <= Len(order) => server.data[order[k]] # client.data[order[k]]
<1>1. Len(order) \in Nat
  BY OrdersAssumption
<1>2. \E k \in 1..(Len(order) + 1) : IsFirst(k)
  <2>1. CASE differs = {}
    <3>1. IsFirst(Len(order) + 1)
      BY <1>1, <2>1
    <3>2. Len(order) + 1 \in 1..(Len(order) + 1)
      BY <1>1
    <3> HIDE DEF IsFirst
    <3> QED
      BY <3>1, <3>2
  <2>2. CASE differs # {}
    <3>1. differs \in SUBSET Nat
      BY <1>1
    <3>2. PICK n \in differs : \A k \in differs : ~(k < n)
      BY <2>2, <3>1, LeastNumber
    <3>3. n \in 1..Len(order) /\ n \in Nat /\ n \in 1..(Len(order) + 1)
      BY <1>1
    <3>4. ASSUME NEW j \in 1..(n - 1)
          PROVE  server.data[order[j]] = client.data[order[j]]
      <4>1. j \in 1..Len(order) /\ j < n
        BY <1>1, <3>3
      <4> QED
        BY <3>2, <4>1
    <3>5. IsFirst(n)
      BY <3>4
    <3> HIDE DEF IsFirst
    <3> QED
      BY <3>3, <3>5
  <2> QED
    BY <2>1, <2>2
<1>3. FirstDifference(order) = CHOOSE k \in 1..(Len(order) + 1) : IsFirst(k)
  BY DEF FirstDifference
<1>4. FirstDifference(order) \in 1..(Len(order) + 1) /\ IsFirst(FirstDifference(order))
  <2> HIDE DEF IsFirst
  <2> QED
    BY <1>2, <1>3
<1> QED
  BY <1>1, <1>4 DEF Decides

(***************************************************************************)
(* domain/sync.ts, preferredPayload: payloads that name the same order of  *)
(* numeric properties merge to the same payload whichever arrives first.   *)
(***************************************************************************)
THEOREM ArrivalDoesNotMatter == MergeSpec => []ConflictOrderIgnoresArrival
<1>1. ASSUME MergeInv, ~pending, server # None, client # None,
             client.order = server.order, client.order # Absent,
             Len(client.order) <= MaxConflictOrder,
             AllNumbers(server, client.order), AllNumbers(client, client.order)
      PROVE  LET k == FirstDifference(client.order)
             IN  k <= Len(client.order) =>
                   /\ merged = IF client.data[client.order[k]] > server.data[client.order[k]]
                               THEN client ELSE server
                   /\ merged = defaultThreeWayMerge(ancestor, client, server)
  <2> DEFINE order == client.order
             k == FirstDifference(order)
  <2>1. /\ server \in Payload /\ client \in Payload
        /\ merged = defaultThreeWayMerge(ancestor, server, client)
    BY <1>1 DEF MergeInv, Object
  <2>2. order \in Orders /\ server.order = order
    BY <1>1, <2>1 DEF Payload
  <2>3. Len(order) \in Nat /\ DOMAIN order = 1..Len(order)
    BY <2>2, OrdersAssumption
  <2>4. k \in 1..(Len(order) + 1) /\ (k <= Len(order) => Decides(client, server, order, k))
    BY <2>2, FirstDifferenceDecides
  <2>5. AllNumbers(server, order) /\ AllNumbers(client, order) /\ Len(order) <= MaxConflictOrder
    BY <1>1
  <2> HIDE DEF order, k
  <2>6. SUFFICES ASSUME k <= Len(order)
                 PROVE  /\ merged = IF client.data[order[k]] > server.data[order[k]]
                                    THEN client ELSE server
                        /\ merged = defaultThreeWayMerge(ancestor, client, server)
    BY DEF order, k
  <2>7. /\ Decides(client, server, order, k)
        /\ k \in 1..Len(order) /\ k \in Nat
    BY <2>3, <2>4, <2>6
  <2>8. HonouredOrder(order)
    <3>1. order # Absent
      BY <1>1 DEF order
    <3>2. Len(order) \in 1..MaxConflictOrder
      BY <2>3, <2>5, <2>7, LimitAssumption
    <3> QED
      BY <3>1, <3>2 DEF HonouredOrder
  <2>9. Ranked(client, server, order) /\ Ranked(server, client, order)
    BY <2>1, <2>2, <2>5, <2>8 DEF Ranked
  <2>10. Decides(server, client, order, k)
    BY <2>7 DEF Decides
  <2>11. /\ client.data[order[k]] \in Int /\ server.data[order[k]] \in Int
         /\ client.data[order[k]] # server.data[order[k]]
    BY <2>3, <2>5, <2>7, NumbersAssumption DEF AllNumbers, Decides
  <2>12. client.order = order /\ server.order = order
    BY <2>2 DEF order
  <2>13. CASE client.data[order[k]] > server.data[order[k]]
    <3>1. /\ defaultThreeWayMerge(ancestor, server, client) = client
          /\ defaultThreeWayMerge(ancestor, client, server) = client
      BY <2>7, <2>9, <2>12, <2>13, GreaterIsMerged
    <3> QED
      BY <2>1, <2>13, <3>1
  <2>14. CASE server.data[order[k]] > client.data[order[k]]
    <3>1. ~(client.data[order[k]] > server.data[order[k]])
      BY <2>11, <2>14
    <3> QED
      BY <2>1, <2>9, <2>10, <2>12, <2>14, <3>1, GreaterIsMerged
  <2> QED
    BY <2>11, <2>13, <2>14
<1>2. MergeInv => ConflictOrderIgnoresArrival
  BY <1>1 DEF ConflictOrderIgnoresArrival
<1> QED
  BY <1>2, MergeInvariant, PTL

=============================================================================
