--------------------------- MODULE SyncLog_proof ---------------------------
(***************************************************************************)
(* Theorems about SyncLog.tla, and the lemmas about payloads, about a log  *)
(* that grows and about pages of it which the proofs of its users need     *)
(* (SyncServer_proof, SyncFeed_proof, SyncClient_proof).                   *)
(***************************************************************************)
EXTENDS SyncLog, FiniteSetsExt, FiniteSetTheorems, WellFoundedInduction, TLAPS

(* The payload algebra stays within payloads.                              *)
LEMMA MergeType ==
  ASSUME NEW a \in Payload \cup {None}, NEW s \in Payload \cup {None},
         NEW c \in Payload \cup {None}
  PROVE  defaultThreeWayMerge(a, s, c) \in Payload \cup {None}
<1>1. Empty \in Payload
  BY DEF Empty, Payload
<1>2. ASSUME NEW x \in Payload, NEW y \in Payload, NEW z \in Payload
      PROVE  mergeFields(x, y, z) \in Payload
  <2>1. \A f \in Fields : mergeProperty(x.data[f], y.data[f], z.data[f])
                            \in Values \cup {Absent}
    BY <1>2 DEF Payload, mergeProperty
  <2>2. mergeProperty(x.order, y.order, z.order) \in Orders \cup {Absent}
    BY <1>2 DEF Payload, mergeProperty
  <2> QED
    BY <2>1, <2>2 DEF mergeFields, Payload
<1>3. ASSUME NEW y \in Payload, NEW z \in Payload
      PROVE  preferredPayload(y, z) \in Payload \cup {None}
  BY <1>3 DEF preferredPayload
<1> QED
  BY <1>1, <1>2, <1>3, NoneAssumption DEF defaultThreeWayMerge

(* A base revision a device holds is a version of the log.                 *)
DraftOK ==
  \A m \in Mutations : draft[m] # None => draft[m].base \in {NoRevision} \cup DOMAIN log

(* What is stored for a mutation is a payload or a tombstone. *)
LEMMA ResolveType ==
  ASSUME log \in Seq(Version), NEW d \in Draft, NEW i \in {NoRevision} \cup DOMAIN log,
         d.base \in {NoRevision} \cup DOMAIN log
  PROVE  Resolve(d, i) \in Payload \cup {None}
<1>1. ASSUME NEW k \in {NoRevision} \cup DOMAIN log
      PROVE  PayloadAt(k) \in Payload \cup {None}
  <2>1. CASE k = NoRevision
    BY <2>1 DEF PayloadAt
  <2>2. CASE k \in DOMAIN log /\ k # NoRevision
    <3>1. log[k] \in Version
      BY <2>2
    <3> QED
      BY <2>2, <3>1 DEF PayloadAt, Version
  <2> QED
    BY <2>1, <2>2
<1>2. d.payload \in Payload \cup {None}
  BY DEF Draft
<1> QED
  BY <1>1, <1>2, MergeType DEF Resolve

(* A version appended to the log leaves the earlier ones where they are.   *)
LEMMA AppendExtends ==
  ASSUME log \in Seq(Version), NEW e \in Version, log' = Append(log, e)
  PROVE  /\ log' \in Seq(Version)
         /\ Len(log) \in Nat
         /\ Len(log') = Len(log) + 1
         /\ DOMAIN log = 1..Len(log)
         /\ DOMAIN log' = DOMAIN log \cup {Len(log) + 1}
         /\ \A i \in DOMAIN log : log'[i] = log[i]
         /\ log'[Len(log) + 1] = e
OBVIOUS

(* IsLastBefore with the log it looks at as a parameter.                   *)
LastBeforeIn(lg, owner, record, i, n) ==
  \/ /\ i = NoRevision
     /\ \A j \in DOMAIN lg : j < n => ~(lg[j].owner = owner /\ lg[j].record = record)
  \/ /\ i \in DOMAIN lg
     /\ i < n
     /\ lg[i].owner = owner /\ lg[i].record = record
     /\ \A j \in DOMAIN lg :
          i < j /\ j < n => ~(lg[j].owner = owner /\ lg[j].record = record)

(* IsLastBefore in constant-level terms. *)
LEMMA IsLastBeforeDef ==
  ASSUME NEW owner, NEW record, NEW i, NEW n
  PROVE  /\ IsLastBefore(owner, record, i, n)  <=> LastBeforeIn(log, owner, record, i, n)
         /\ IsLastBefore(owner, record, i, n)' <=> LastBeforeIn(log', owner, record, i, n)
BY DEF IsLastBefore, VersionOf, LastBeforeIn

(* The state of the log is well formed. *)
LogOK ==
  /\ log \in Seq(Version)
  /\ draft \in [Mutations -> Draft \cup {None}]
  /\ acked \in [Mutations -> Nat]
  /\ DraftOK

(* One log is the beginning of another. *)
Extends(old, new) ==
  /\ DOMAIN old \subseteq DOMAIN new
  /\ \A i \in DOMAIN old : new[i] = old[i]
  /\ \A i \in DOMAIN new \ DOMAIN old : i > Len(old)

(* The empty log. *)
LEMMA LogInitOK == LogInit => LogOK
BY DEF LogInit, LogOK, DraftOK, NoRevision

(* A device composes a mutation: the log stays as it is. *)
LEMMA LogComposeOK ==
  ASSUME LogOK, NEW m \in Mutations, LogCompose(m)
  PROVE  LogOK' /\ log' = log
<1>1. PICK record \in Records, payload \in Payload \cup {None},
           base \in {NoRevision} \cup DOMAIN log :
        draft' = [draft EXCEPT ![m] =
                    [record |-> record, base |-> base, payload |-> payload]]
  BY DEF LogCompose
<1> DEFINE d == [record |-> record, base |-> base, payload |-> payload]
<1>2. log' = log /\ acked' = acked
  BY DEF LogCompose
<1>3. base \in Nat
  BY DEF LogOK, NoRevision
<1>4. d \in Draft
  BY <1>3 DEF Draft
<1>5. draft' \in [Mutations -> Draft \cup {None}]
  BY <1>1, <1>4 DEF LogOK
<1>6. \A x \in Mutations : draft'[x] = IF x = m THEN d ELSE draft[x]
  BY <1>1 DEF LogOK
<1>7. d.base \in {NoRevision} \cup DOMAIN log
  OBVIOUS
<1> HIDE DEF d
<1>8. DraftOK'
  BY <1>2, <1>6, <1>7 DEF LogOK, DraftOK
<1> QED
  BY <1>2, <1>5, <1>8 DEF LogOK

(* The server accepts a mutation: one version more, the others stay.       *)
LEMMA LogAcceptOK ==
  ASSUME LogOK, NEW m \in Mutations, LogAccept(m)
  PROVE  /\ LogOK'
         /\ Len(log) \in Nat
         /\ DOMAIN log = 1..Len(log)
         /\ DOMAIN log' = DOMAIN log \cup {Len(log) + 1}
         /\ \A i \in DOMAIN log : log'[i] = log[i]
         /\ log'[Len(log) + 1].mutation = m
         /\ log'[Len(log) + 1].owner = MutationOwner[m]
         /\ log'[Len(log) + 1].record = draft[m].record
         /\ draft' = draft /\ acked' = acked /\ draft[m] # None
<1>1. PICK i \in {NoRevision} \cup DOMAIN log :
        log' = Append(log, [owner    |-> MutationOwner[m],
                            record   |-> draft[m].record,
                            mutation |-> m,
                            base     |-> i,
                            payload  |-> Resolve(draft[m], i)])
  BY DEF LogAccept
<1> DEFINE e == [owner    |-> MutationOwner[m],
                 record   |-> draft[m].record,
                 mutation |-> m,
                 base     |-> i,
                 payload  |-> Resolve(draft[m], i)]
<1>2. draft' = draft /\ acked' = acked /\ draft[m] # None
  BY DEF LogAccept
<1>3. log \in Seq(Version) /\ i \in Nat
  BY DEF LogOK, NoRevision
<1>4. draft[m] \in Draft /\ draft[m].base \in {NoRevision} \cup DOMAIN log
  BY <1>2 DEF LogOK, DraftOK
<1>5. Resolve(draft[m], i) \in Payload \cup {None}
  BY <1>3, <1>4, ResolveType
<1>6. e \in Version
  BY <1>3, <1>4, <1>5, OwnerAssumption DEF Version, Draft
<1>7. e.mutation = m /\ e.owner = MutationOwner[m] /\ e.record = draft[m].record
  OBVIOUS
<1> HIDE DEF e
<1>8. /\ log' \in Seq(Version)
      /\ Len(log) \in Nat
      /\ DOMAIN log = 1..Len(log)
      /\ DOMAIN log' = DOMAIN log \cup {Len(log) + 1}
      /\ \A k \in DOMAIN log : log'[k] = log[k]
      /\ log'[Len(log) + 1] = e
  BY <1>1, <1>3, <1>6, AppendExtends DEF e
<1>9. LogOK'
  BY <1>2, <1>8 DEF LogOK, DraftOK
<1> QED
  BY <1>2, <1>7, <1>8, <1>9

(* Every step of the log keeps it well formed, and what is in it. *)
LEMMA LogNextOK ==
  ASSUME LogOK, [LogNext]_logVars
  PROVE  LogOK' /\ Extends(log, log')
<1>1. log \in Seq(Version) /\ DOMAIN log = 1..Len(log) /\ Len(log) \in Nat
  BY DEF LogOK
<1>2. CASE log' = log /\ LogOK'
  BY <1>2 DEF Extends
<1>3. ASSUME NEW m \in Mutations, LogAccept(m) PROVE LogOK' /\ Extends(log, log')
  <2>1. \A i \in DOMAIN log' \ DOMAIN log : i > Len(log)
    BY <1>1, <1>3, LogAcceptOK
  <2> QED
    BY <1>3, <2>1, LogAcceptOK DEF Extends
<1>4. CASE LogAcknowledge
  <2>1. log' = log /\ draft' = draft /\ acked' \in [Mutations -> {NoRevision} \cup DOMAIN log]
    BY <1>4 DEF LogAcknowledge
  <2>2. acked' \in [Mutations -> Nat]
    BY <1>1, <2>1 DEF NoRevision
  <2>3. LogOK'
    BY <2>1, <2>2 DEF LogOK, DraftOK
  <2> QED
    BY <1>2, <2>1, <2>3
<1>5. CASE UNCHANGED logVars
  BY <1>2, <1>5 DEF logVars, LogOK, DraftOK
<1> QED
  BY <1>2, <1>3, <1>4, <1>5, LogComposeOK DEF LogNext

(***************************************************************************)
(* The log of the server is append-only: a version that is stored is never *)
(* changed, and new ones come behind it (appbase_records is a history).    *)
(***************************************************************************)
THEOREM LogIsAppendOnly == LogSpec => []LogOK /\ [][Extends(log, log')]_logVars
<1>1. LogInit => LogOK
  BY LogInitOK
<1>2. LogOK /\ [LogNext]_logVars => LogOK'
  BY LogNextOK
<1>3. LogOK /\ [LogNext]_logVars => [Extends(log, log')]_logVars
  BY LogNextOK
<1> QED
  BY <1>1, <1>2, <1>3, PTL DEF LogSpec

-----------------------------------------------------------------------------
(* The least-number principle, for sets. *)
LEMMA LeastExists ==
  ASSUME NEW S \in SUBSET Nat, S # {}
  PROVE  \E n \in S : \A k \in S : n <= k
<1>1. \E n \in S : \A k \in S : ~(k < n)
  <2> DEFINE R == OpToRel(<, Nat)
  <2>1. \A x, y \in Nat : x < y => <<x, y>> \in R
    BY DEF OpToRel
  <2>2. IsWellFoundedOn(R, Nat)
    BY NatLessThanWellFounded
  <2> HIDE DEF R
  <2>3. \E n \in S : \A k \in S : ~(<<k, n>> \in R)
    BY <2>2, WFMin
  <2> QED
    BY <2>1, <2>3, Zenon
<1> QED
  BY <1>1

(* A bounded set of positions has a last one, which Max returns. *)
LEMMA MaxIsLast ==
  ASSUME NEW n \in Nat, NEW S \in SUBSET (1..n), S # {}
  PROVE  Max(S) \in S /\ \A i \in S : i <= Max(S)
<1> DEFINE T == {n - i : i \in S}
<1>1. T \in SUBSET Nat /\ T # {}
  <2>1. \A i \in S : i \in Int /\ i <= n
    OBVIOUS
  <2>2. \A i \in S : n - i \in Nat
    BY <2>1
  <2> QED
    BY <2>2
<1>2. PICK k \in T : \A h \in T : k <= h
  BY <1>1, LeastExists
<1>3. PICK m \in S : k = n - m
  OBVIOUS
<1>4. \A i \in S : m >= i
  <2> SUFFICES ASSUME NEW i \in S PROVE m >= i
    OBVIOUS
  <2>1. k <= n - i
    BY <1>2
  <2> QED
    BY <1>3, <2>1
<1> QED
  BY <1>4 DEF Max

(* The first rows of a set of positions: those that have at most p rows up *)
(* to and including themselves (ORDER BY sequence LIMIT p).                *)
First(S, p) == {i \in S : Cardinality({j \in S : j <= i}) <= p}

(* They come before the others; there are some if there are any; and if    *)
(* they are fewer than the limit they are all.                             *)
LEMMA FirstRows ==
  ASSUME NEW n \in Nat, NEW S \in SUBSET (1..n), NEW p \in Nat
  PROVE  /\ First(S, p) \subseteq S
         /\ IsFiniteSet(First(S, p))
         /\ Cardinality(First(S, p)) \in Nat
         /\ \A i \in First(S, p), j \in S : j <= i => j \in First(S, p)
         /\ p > 0 /\ S # {} => First(S, p) # {}
         /\ Cardinality(First(S, p)) < p => First(S, p) = S
         /\ Cardinality(S) <= p => First(S, p) = S
<1> DEFINE Upto(i) == {j \in S : j <= i}
<1>0. S \in SUBSET Nat
  OBVIOUS
<1>1. IsFiniteSet(S) /\ Cardinality(S) \in Nat
  <2>1. IsFiniteSet(1..n)
    BY FS_Interval
  <2>2. IsFiniteSet(S)
    BY <2>1, FS_Subset
  <2> QED
    BY <2>2, FS_CardinalityType
<1>2. \A T \in SUBSET S : IsFiniteSet(T) /\ Cardinality(T) \in Nat /\ Cardinality(T) <= Cardinality(S)
  BY <1>1, FS_Subset, FS_CardinalityType
<1>3. First(S, p) \subseteq S
  BY DEF First
<1>4. ASSUME NEW i \in First(S, p), NEW j \in S, j <= i PROVE j \in First(S, p)
  <2>1. Upto(j) \in SUBSET Upto(i) /\ IsFiniteSet(Upto(i))
    <3>1. i \in Nat /\ j \in Nat /\ \A k \in S : k \in Nat
      BY <1>0, <1>3
    <3>2. \A k \in S : k <= j => k <= i
      BY <1>4, <3>1
    <3>3. Upto(j) \subseteq Upto(i)
      BY <3>2
    <3> QED
      BY <1>2, <3>3
  <2>2. Cardinality(Upto(j)) <= Cardinality(Upto(i))
    BY <2>1, FS_Subset
  <2>3. Cardinality(Upto(j)) \in Nat /\ Cardinality(Upto(i)) \in Nat
    BY <1>2
  <2>4. Cardinality(Upto(i)) <= p
    BY DEF First
  <2> QED
    BY <2>2, <2>3, <2>4 DEF First
<1>5. ASSUME p > 0, S # {} PROVE First(S, p) # {}
  <2>1. PICK i \in S : \A k \in S : i <= k
    BY <1>5, LeastExists
  <2>2. Upto(i) = {i}
    <3>1. \A k \in S : k <= i => k = i
      BY <1>0, <2>1
    <3>2. i <= i
      BY <1>0
    <3> QED
      BY <3>1, <3>2
  <2>3. Cardinality(Upto(i)) = 1
    BY <2>2, FS_Singleton
  <2> QED
    BY <1>5, <2>3 DEF First
<1>6. ASSUME Cardinality(First(S, p)) < p PROVE First(S, p) = S
  <2> DEFINE Rest == S \ First(S, p)
  <2>1. SUFFICES ASSUME Rest # {} PROVE FALSE
    BY <1>3
  <2>2. PICK x \in Rest : \A k \in Rest : x <= k
    <3>1. Rest \in SUBSET Nat
      BY <1>0
    <3> QED
      BY <2>1, <3>1, LeastExists
  <2>3. Upto(x) \subseteq First(S, p) \cup {x}
    <3> SUFFICES ASSUME NEW j \in S, j <= x, j \notin First(S, p) PROVE j = x
      OBVIOUS
    <3>1. x <= j
      BY <2>2
    <3> QED
      BY <3>1
  <2>4. /\ IsFiniteSet(First(S, p) \cup {x})
        /\ Cardinality(First(S, p) \cup {x}) = Cardinality(First(S, p)) + 1
    BY <1>2, <1>3, <2>2, FS_AddElement
  <2>5. Cardinality(Upto(x)) <= Cardinality(First(S, p)) + 1
    BY <2>3, <2>4, FS_Subset
  <2>6. Cardinality(Upto(x)) \in Nat /\ Cardinality(First(S, p)) \in Nat
    BY <1>2, <1>3
  <2>7. Cardinality(Upto(x)) <= p
    BY <1>6, <2>5, <2>6
  <2> QED
    BY <2>2, <2>7 DEF First
<1>7. ASSUME Cardinality(S) <= p PROVE First(S, p) = S
  <2>1. \A i \in S : Cardinality(Upto(i)) \in Nat /\ Cardinality(Upto(i)) <= Cardinality(S)
    BY <1>2
  <2>2. \A i \in S : Cardinality(Upto(i)) <= p
    BY <1>1, <1>7, <2>1
  <2> QED
    BY <2>2 DEF First
<1>8. IsFiniteSet(First(S, p)) /\ Cardinality(First(S, p)) \in Nat
  BY <1>2, <1>3
<1> QED
  BY <1>3, <1>4, <1>5, <1>6, <1>7, <1>8

(* The rows of an account after a checkpoint, and the page of them that    *)
(* reads one row more than it returns (pullChanges of SyncFeed.tla).       *)
RowsAfter(owner, cursor) == {i \in DOMAIN log : i > cursor /\ log[i].owner = owner}

PageOf(owner, cursor, size) ==
  LET rows == First(RowsAfter(owner, cursor), size + 1)
      page == First(rows, size)
  IN  [changes |-> page,
       cursor  |-> IF page = {} THEN cursor ELSE Max(page),
       hasMore |-> Cardinality(rows) > size]

(* The page is what the account's log holds between two checkpoints. *)
Covers(lg, page, owner, cursor) ==
  /\ page.changes \subseteq DOMAIN lg
  /\ page.cursor \in Nat /\ cursor <= page.cursor /\ page.cursor <= Len(lg)
  /\ \A i \in DOMAIN lg :
       i \in page.changes <=> lg[i].owner = owner /\ cursor < i /\ i <= page.cursor

(* A page is what the account's log holds between the checkpoint that was  *)
(* supplied and the one that is returned, which moves on if there is       *)
(* anything to return; and without a next page nothing is left.            *)
LEMMA PageCovers ==
  ASSUME log \in Seq(Version), NEW owner, NEW cursor \in Nat, cursor <= Len(log),
         NEW size \in Nat \ {0}, NEW page, page = PageOf(owner, cursor, size)
  PROVE  /\ Covers(log, page, owner, cursor)
         /\ page.hasMore \in BOOLEAN
         /\ RowsAfter(owner, cursor) # {} => cursor < page.cursor
         /\ ~page.hasMore => RowsAfter(owner, page.cursor) = {}
<1> DEFINE n    == Len(log)
           A    == RowsAfter(owner, cursor)
           rows == First(A, size + 1)
           P    == First(rows, size)
<1>1. n \in Nat /\ DOMAIN log = 1..n
  OBVIOUS
<1>2. A \in SUBSET (1..n) /\ \A i \in A : i \in Nat /\ cursor < i /\ i <= n
  BY <1>1 DEF RowsAfter
<1>3. size \in Nat /\ size + 1 \in Nat /\ size > 0
  OBVIOUS
<1>4. /\ page.changes = P
      /\ page.cursor = IF P = {} THEN cursor ELSE Max(P)
      /\ page.hasMore = (Cardinality(rows) > size)
  BY DEF PageOf
<1> HIDE DEF n, A
<1>5. /\ rows \subseteq A
      /\ Cardinality(rows) \in Nat
      /\ \A i \in rows, j \in A : j <= i => j \in rows
      /\ A # {} => rows # {}
      /\ Cardinality(rows) <= size => rows = A
  <2> HIDE DEF First
  <2>1. /\ rows \subseteq A
        /\ Cardinality(rows) \in Nat
        /\ \A i \in rows, j \in A : j <= i => j \in rows
        /\ size + 1 > 0 /\ A # {} => rows # {}
        /\ Cardinality(rows) < size + 1 => rows = A
    BY <1>1, <1>2, <1>3, FirstRows
  <2> QED
    BY <1>3, <2>1
<1>6. rows \in SUBSET (1..n)
  BY <1>2, <1>5
<1> HIDE DEF rows
<1>7. /\ P \subseteq rows
      /\ \A i \in P, j \in rows : j <= i => j \in P
      /\ rows # {} => P # {}
      /\ Cardinality(rows) <= size => P = rows
  BY <1>1, <1>3, <1>6, FirstRows
<1> HIDE DEF P
<1>8. P \in SUBSET (1..n) /\ P \subseteq A
  BY <1>5, <1>6, <1>7
<1>9. P # {} => /\ Max(P) \in P /\ Max(P) \in A
                /\ \A i \in P : i <= Max(P)
  BY <1>1, <1>8, MaxIsLast
<1>10. page.cursor \in Nat /\ cursor <= page.cursor /\ page.cursor <= n
  <2>1. CASE P = {}
    BY <1>4, <2>1 DEF n
  <2>2. CASE P # {}
    <3>1. page.cursor \in A
      BY <1>4, <1>9, <2>2
    <3>2. cursor < page.cursor /\ page.cursor <= n /\ page.cursor \in Nat
      BY <1>2, <3>1
    <3> QED
      BY <3>2
  <2> QED
    BY <2>1, <2>2
<1>11. ASSUME A # {} PROVE cursor < page.cursor
  BY <1>2, <1>4, <1>5, <1>7, <1>9, <1>11
<1>12. \A i \in A : i <= page.cursor => i \in P
  <2>1. CASE P = {}
    BY <1>5, <1>7, <2>1
  <2>2. CASE P # {}
    BY <1>4, <1>5, <1>7, <1>9, <2>2
  <2> QED
    BY <2>1, <2>2
<1>13. \A i \in P : i <= page.cursor
  BY <1>4, <1>9
<1>14. \A i \in DOMAIN log : i \in A <=> cursor < i /\ log[i].owner = owner
  BY DEF A, RowsAfter
<1>15. \A i \in DOMAIN log :
          i \in P <=> log[i].owner = owner /\ cursor < i /\ i <= page.cursor
  BY <1>8, <1>12, <1>13, <1>14
<1>16. ASSUME ~page.hasMore PROVE RowsAfter(owner, page.cursor) = {}
  <2>1. Cardinality(rows) <= size
    <3>1. ~(Cardinality(rows) > size)
      BY <1>4, <1>16, Zenon
    <3> QED
      BY <1>3, <1>5, <3>1
  <2>2. P = A
    BY <1>5, <1>7, <2>1
  <2>3. \A i \in DOMAIN log : ~(page.cursor < i /\ log[i].owner = owner)
    <3> SUFFICES ASSUME NEW i \in DOMAIN log, page.cursor < i, log[i].owner = owner
                 PROVE  FALSE
      OBVIOUS
    <3>1. i \in Nat
      BY <1>1
    <3>2. cursor < i
      BY <1>10, <3>1
    <3>3. i <= page.cursor
      BY <1>13, <1>14, <2>2, <3>2
    <3> QED
      BY <1>10, <3>1, <3>3
  <2> QED
    BY <2>3 DEF RowsAfter
<1>17. page.changes \subseteq DOMAIN log /\ page.hasMore \in BOOLEAN
  BY <1>1, <1>4, <1>8
<1> QED
  BY <1>4, <1>10, <1>11, <1>15, <1>16, <1>17 DEF A, n, Covers

(* A page takes a projection of a record from one checkpoint to the next.  *)
LEMMA PageAdvances ==
  ASSUME log \in Seq(Version), NEW owner, NEW cursor \in Nat, cursor <= Len(log),
         NEW page, Covers(log, page, owner, cursor), NEW r, NEW i,
         LastBeforeIn(log, owner, r, i, cursor + 1),
         NEW rows, rows = {k \in page.changes : log[k].record = r},
         NEW next, next = IF rows = {} THEN i ELSE Max(rows)
  PROVE  LastBeforeIn(log, owner, r, next, page.cursor + 1)
<1>1. DOMAIN log = 1..Len(log) /\ Len(log) \in Nat
  OBVIOUS
<1>2. /\ page.changes \subseteq DOMAIN log
      /\ page.cursor \in Nat /\ cursor <= page.cursor /\ page.cursor <= Len(log)
      /\ \A k \in DOMAIN log :
           k \in page.changes <=> log[k].owner = owner /\ cursor < k /\ k <= page.cursor
  BY DEF Covers
<1>3. \A k \in DOMAIN log : k \in Nat
  BY <1>1
<1>4. \A k \in DOMAIN log : k < cursor + 1 <=> k <= cursor
  BY <1>3
<1>5. \A k \in DOMAIN log : k < page.cursor + 1 <=> k <= page.cursor
  BY <1>2, <1>3
<1> DEFINE Is(k) == log[k].owner = owner /\ log[k].record = r
<1>6. \A k \in DOMAIN log :
        k \in rows <=> Is(k) /\ cursor < k /\ k <= page.cursor
  BY <1>2
<1>7. /\ i = NoRevision \/ (i \in DOMAIN log /\ i <= cursor /\ Is(i))
      /\ \A j \in DOMAIN log : i < j /\ j <= cursor => ~Is(j)
  BY <1>3, <1>4 DEF LastBeforeIn, NoRevision
<1>8. /\ next = NoRevision \/ (next \in DOMAIN log /\ next <= page.cursor /\ Is(next))
      /\ \A j \in DOMAIN log : next < j /\ j <= page.cursor => ~Is(j)
  <2>1. CASE rows = {}
    <3>1. next = i
      BY <2>1
    <3>2. \A j \in DOMAIN log : j <= page.cursor => j <= cursor \/ ~Is(j)
      BY <1>3, <1>6, <2>1
    <3>3. i \in DOMAIN log /\ i <= cursor => i <= page.cursor
      BY <1>2, <1>3
    <3> QED
      BY <1>7, <3>1, <3>2, <3>3
  <2>2. CASE rows # {}
    <3>1. rows \in SUBSET (1..Len(log))
      BY <1>1, <1>2
    <3>2. next \in rows /\ \A k \in rows : k <= next
      BY <1>1, <2>2, <3>1, MaxIsLast
    <3>3. next \in DOMAIN log /\ next <= page.cursor /\ Is(next) /\ cursor < next
      BY <1>1, <1>6, <3>1, <3>2
    <3>4. ASSUME NEW j \in DOMAIN log, next < j, j <= page.cursor PROVE ~Is(j)
      <4>1. cursor < j
        BY <1>3, <3>3, <3>4
      <4>2. j \notin rows
        <5>1. next \in Nat /\ j \in Nat /\ ~(j <= next)
          BY <1>3, <3>3, <3>4
        <5> QED
          BY <3>2, <5>1
      <4> QED
        BY <1>6, <3>4, <4>1, <4>2
    <3> QED
      BY <3>3, <3>4
  <2> QED
    BY <2>1, <2>2
<1> HIDE DEF Is
<1>9. next \in DOMAIN log =>
        LastBeforeIn(log, owner, r, next, page.cursor + 1)
  <2> SUFFICES ASSUME next \in DOMAIN log
               PROVE  LastBeforeIn(log, owner, r, next, page.cursor + 1)
    OBVIOUS
  <2>1. next # NoRevision
    BY <1>1 DEF NoRevision
  <2>2. next < page.cursor + 1 /\ Is(next)
    BY <1>5, <1>8, <2>1
  <2>3. \A j \in DOMAIN log : next < j /\ j < page.cursor + 1 => ~Is(j)
    BY <1>5, <1>8
  <2> QED
    BY <2>2, <2>3 DEF LastBeforeIn, Is
<1>10. next = NoRevision =>
         LastBeforeIn(log, owner, r, next, page.cursor + 1)
  <2> SUFFICES ASSUME next = NoRevision
               PROVE  LastBeforeIn(log, owner, r, next, page.cursor + 1)
    OBVIOUS
  <2>1. \A j \in DOMAIN log : next < j
    BY <1>1 DEF NoRevision
  <2>2. \A j \in DOMAIN log : j < page.cursor + 1 => ~Is(j)
    BY <1>5, <1>8, <2>1
  <2> QED
    BY <2>2 DEF LastBeforeIn, Is
<1> QED
  BY <1>8, <1>9, <1>10

(* A version that is appended behind position n is not before it. *)
LEMMA AppendBehind ==
  ASSUME log \in Seq(Version), NEW n \in Nat, n <= Len(log),
         DOMAIN log' = DOMAIN log \cup {Len(log) + 1},
         \A k \in DOMAIN log : log'[k] = log[k],
         NEW owner, NEW r, NEW i, LastBeforeIn(log, owner, r, i, n + 1)
  PROVE  LastBeforeIn(log', owner, r, i, n + 1)
<1>1. \A k \in DOMAIN log' : k < n + 1 => k \in DOMAIN log
  OBVIOUS
<1> QED
  BY <1>1, Zenon DEF LastBeforeIn

=============================================================================
