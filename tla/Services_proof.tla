---------------------------- MODULE Services_proof ----------------------------
(***************************************************************************)
(* Theorems about the services beside synchronization: subscriptions       *)
(* (BillingSync.tla), the catalog of plans (BillingCatalog.tla), the       *)
(* quotas of its plans (MembershipQuota.tla), the tabs of the browser      *)
(* client (AdminTabs.tla), the callbacks of the confidential client        *)
(* (AdminLogin.tla) and keys under rotation (KeyRotation.tla), for any     *)
(* number of customers, requests, editors, items, tabs, callbacks, workers *)
(* and records; at the end, all of them together as they are checked       *)
(* (MCServices.tla).                                                       *)
(***************************************************************************)
EXTENDS MCServices, FiniteSetTheorems, WellFoundedInduction, TLAPS

-----------------------------------------------------------------------------
(* Subscription snapshots (BillingSync.tla)                                *)

(* What EventsReflected says of one customer of one event. *)
Reflected(context, e, c) ==
  (Home[c] = context /\ known[c] # Unknown /\ (known[c] < e \/ stored[c] # NoSnapshot))
    => stored[c] # NoSnapshot /\ stored[c].version >= e

(* A stored state is younger than the account, and was given out. *)
StoredOK ==
  \A c \in Customers :
    /\ known[c] <= Len(changes)
    /\ stored[c] # NoSnapshot =>
         /\ known[c] # Unknown /\ known[c] <= stored[c].version
         /\ stored[c].version <= Len(changes)

(* A request has an event of the past, if any, and has the account before  *)
(* it asks the provider; what the provider answers includes the event.     *)
CallerOK(w) ==
  /\ w.event \in {0} \cup DOMAIN changes
  /\ w.phase \in {"check", "owner"} => w.event # 0
  /\ w.phase \in {"identity", "begin", "subscriber", "commit"} => w.customer \in Customers
  /\ w.phase \in {"begin", "subscriber", "commit"} => known[w.customer] # Unknown
  /\ w.phase = "commit" =>
       /\ w.snapshot # NoSnapshot
       /\ known[w.customer] <= w.snapshot.version
       /\ w.event <= w.snapshot.version
       /\ w.snapshot.version <= Len(changes)

(* While nobody has begun a later synchronization, nothing is stored that  *)
(* is newer than what the request is about to store.                       *)
NewestLast(r, w) ==
  \A c \in Customers :
    w.phase = "commit" /\ w.customer = c /\ latest[c] = r /\ stored[c] # NoSnapshot
      => stored[c].version <= w.snapshot.version

(* The customers of an event that a request has dealt with. *)
ProgressOK(w) ==
  \A e \in DOMAIN changes :
    w.event = e /\ w.phase \notin {"ready", "check"} =>
      \A c \in changes[e] \ w.todo :
        \/ w.phase # "owner" /\ c = w.customer
        \/ Reflected(Contexts[w.context], e, c)

CallersOK == \A r \in Callers :
  CallerOK(caller[r]) /\ NewestLast(r, caller[r]) /\ ProgressOK(caller[r])

BillingInv ==
  /\ BillingTypeOK
  /\ StoredOK
  /\ CallersOK
  /\ EventsReflected

CallerState ==
  [phase : {"ready", "check", "owner", "identity", "begin", "subscriber", "commit"},
   event : 0..MaxChanges, context : DOMAIN Contexts, todo : SUBSET Customers,
   customer : Customers \cup {Nobody}, snapshot : Snapshots]

Versioned == [version : 0..MaxChanges, observedAt : 0..MaxClock]

(* A request at rest. *)
LEMMA ReadyType ==
  /\ Ready \in CallerState
  /\ Ready.phase = "ready" /\ Ready.event = 0
BY BillingAssumption DEF Ready, Working, CallerState, Nobody, Snapshots

(* The types of the parts, taken apart once. *)
LEMMA BillingTypes ==
  ASSUME BillingTypeOK
  PROVE  /\ changes \in Seq(SUBSET Customers) /\ DOMAIN changes = 1..Len(changes)
         /\ Len(changes) \in 0..MaxChanges /\ Len(changes) \in Nat
         /\ clock \in 0..MaxClock
         /\ \A e \in DOMAIN changes : e \in Nat /\ e <= Len(changes) /\ changes[e] \subseteq Customers
         /\ \A c \in Customers : known[c] \in Int
         /\ \A c \in Customers : stored[c] # NoSnapshot =>
              stored[c] \in Versioned /\ stored[c].version \in Nat
         /\ \A r \in Callers : /\ caller[r] \in CallerState
                               /\ caller[r].event \in Nat
                               /\ caller[r].snapshot # NoSnapshot =>
                                    /\ caller[r].snapshot \in Versioned
                                    /\ caller[r].snapshot.version \in Nat
<1>1. /\ changes \in Seq(SUBSET Customers) /\ DOMAIN changes = 1..Len(changes)
      /\ Len(changes) \in Nat /\ Len(changes) <= MaxChanges
  BY DEF BillingTypeOK
<1>2. Len(changes) \in 0..MaxChanges
  BY <1>1, BillingAssumption
<1>3. \A e \in DOMAIN changes : e \in Nat /\ e <= Len(changes) /\ changes[e] \subseteq Customers
  BY <1>1
<1>4. \A c \in Customers : known[c] \in Int
  <2>1. \A c \in Customers : known[c] \in {Unknown} \cup (0..MaxChanges)
    BY DEF BillingTypeOK
  <2> QED
    BY <2>1 DEF Unknown
<1>5. \A s \in Snapshots : s # NoSnapshot => s \in Versioned /\ s.version \in Nat
  BY DEF Snapshots, Versioned
<1>6. \A r \in Callers : caller[r] \in CallerState
  BY DEF BillingTypeOK, CallerState
<1>7. \A r \in Callers : caller[r].event \in Nat /\ caller[r].snapshot \in Snapshots
  BY <1>6 DEF CallerState
<1>8. \A c \in Customers : stored[c] \in Snapshots
  BY DEF BillingTypeOK
<1>9. clock \in 0..MaxClock
  BY DEF BillingTypeOK
<1> QED
  BY <1>1, <1>2, <1>3, <1>4, <1>5, <1>6, <1>7, <1>8, <1>9

(* Nothing has happened. *)
LEMMA BillingInvInit == BillingInit => BillingInv
<1> SUFFICES ASSUME BillingInit PROVE BillingInv
  OBVIOUS
<1>1. BillingTypeOK
  BY BillingAssumption, ReadyType DEF BillingInit, BillingTypeOK, CallerState, Snapshots
<1>2. StoredOK
  BY DEF BillingInit, StoredOK, Unknown
<1>3. \A r \in Callers : caller[r].phase = "ready" /\ caller[r].event = 0
  BY ReadyType DEF BillingInit
<1>4. CallersOK
  BY <1>3 DEF CallersOK, CallerOK, NewestLast, ProgressOK
<1>5. EventsReflected
  BY DEF BillingInit, EventsReflected
<1> QED
  BY <1>1, <1>2, <1>4, <1>5 DEF BillingInv

(***************************************************************************)
(* What an event needs stays true: an account that comes into being is     *)
(* younger than the event, and a later state includes what an earlier one  *)
(* did.                                                                    *)
(***************************************************************************)
LEMMA ReflectedStays ==
  ASSUME BillingTypeOK, StoredOK, NEW context, NEW e \in Nat, e <= Len(changes),
         NEW c \in Customers, Reflected(context, e, c),
         \/ known'[c] = known[c]
         \/ known[c] = Unknown /\ known'[c] = Len(changes) /\ stored'[c] = stored[c],
         \/ stored'[c] = stored[c]
         \/ /\ stored'[c] \in Versioned /\ known'[c] = known[c] /\ known[c] # Unknown
            /\ known[c] <= stored'[c].version
            /\ stored[c] # NoSnapshot => stored[c].version <= stored'[c].version
  PROVE  Reflected(context, e, c)'
<1>1. /\ known[c] \in Int /\ Len(changes) \in Nat
      /\ stored[c] # NoSnapshot => stored[c].version \in Nat
  BY BillingTypes
<1>2. \A s \in Versioned : s # NoSnapshot /\ s.version \in Nat
  BY BillingAssumption DEF Versioned
<1>3. CASE known'[c] = known[c] /\ stored'[c] = stored[c]
  BY <1>3 DEF Reflected
<1>4. CASE known[c] = Unknown /\ known'[c] = Len(changes) /\ stored'[c] = stored[c]
  <2>1. stored[c] = NoSnapshot
    BY <1>4 DEF StoredOK
  <2>2. ~(known'[c] < e)
    BY <1>1, <1>4
  <2> QED
    BY <1>4, <2>1, <2>2 DEF Reflected
<1>5. CASE /\ stored'[c] \in Versioned /\ known'[c] = known[c] /\ known[c] # Unknown
           /\ known[c] <= stored'[c].version
           /\ stored[c] # NoSnapshot => stored[c].version <= stored'[c].version
  <2>0. stored'[c] # NoSnapshot /\ stored'[c].version \in Nat
    BY <1>2, <1>5
  <2>1. CASE Home[c] # context
    BY <2>1 DEF Reflected
  <2>2. CASE Home[c] = context /\ known[c] < e
    <3>1. stored[c] # NoSnapshot /\ stored[c].version >= e
      BY <1>5, <2>2 DEF Reflected
    <3> QED
      BY <1>1, <1>5, <2>0, <3>1 DEF Reflected
  <2>3. CASE ~(known[c] < e)
    <3>1. stored'[c].version >= e
      BY <1>1, <1>5, <2>0, <2>3
    <3> QED
      BY <2>0, <3>1 DEF Reflected
  <2> QED
    BY <2>1, <2>2, <2>3
<1> QED
  BY <1>3, <1>4, <1>5

(* A request takes a step of its own. *)
LEMMA CallerMoves ==
  ASSUME BillingInv, NEW r \in Callers, NEW next \in CallerState, Goes(r, next),
         UNCHANGED <<changes, clock, known, latest, stored, processed>>,
         CallerOK(next), NewestLast(r, next), ProgressOK(next)
  PROVE  BillingInv'
<1>1. \A x \in Callers : caller'[x] = IF x = r THEN next ELSE caller[x]
  BY DEF Goes, BillingInv, BillingTypeOK
<1>2. caller' \in [Callers -> CallerState]
  BY DEF Goes, BillingInv, BillingTypeOK, CallerState
<1>3. BillingTypeOK'
  BY <1>2 DEF BillingInv, BillingTypeOK, CallerState
<1>4. StoredOK' /\ EventsReflected'
  BY DEF BillingInv, StoredOK, EventsReflected
<1>5. ASSUME NEW w, CallerOK(w) PROVE CallerOK(w)'
  BY <1>5 DEF CallerOK
<1>6. ASSUME NEW x, NEW w, NewestLast(x, w) PROVE NewestLast(x, w)'
  BY <1>6 DEF NewestLast
<1>7. ASSUME NEW w, ProgressOK(w) PROVE ProgressOK(w)'
  BY <1>7 DEF ProgressOK, Reflected
<1>8. \A x \in Callers : /\ CallerOK(IF x = r THEN next ELSE caller[x])
                         /\ NewestLast(x, IF x = r THEN next ELSE caller[x])
                         /\ ProgressOK(IF x = r THEN next ELSE caller[x])
  BY DEF BillingInv, CallersOK
<1>9. CallersOK'
  <2> SUFFICES ASSUME NEW x \in Callers
               PROVE  (CallerOK(caller[x]) /\ NewestLast(x, caller[x]) /\ ProgressOK(caller[x]))'
    BY DEF CallersOK
  <2>1. PICK w : w = IF x = r THEN next ELSE caller[x]
    OBVIOUS
  <2>2. CallerOK(w) /\ NewestLast(x, w) /\ ProgressOK(w)
    BY <1>8, <2>1
  <2>3. CallerOK(w)' /\ NewestLast(x, w)' /\ ProgressOK(w)'
    BY <1>5, <1>6, <1>7, <2>2
  <2>4. caller'[x] = w
    BY <1>1, <2>1
  <2> QED
    BY <2>3, <2>4 DEF CallerOK, NewestLast, ProgressOK, Reflected
<1> QED
  BY <1>3, <1>4, <1>9 DEF BillingInv

(* A request may always end. *)
LEMMA CallerEnds ==
  ASSUME BillingInv, NEW r \in Callers, Goes(r, Ready),
         UNCHANGED <<changes, clock, known, latest, stored, processed>>
  PROVE  BillingInv'
<1>1. CallerOK(Ready) /\ NewestLast(r, Ready) /\ ProgressOK(Ready)
  BY ReadyType DEF CallerOK, NewestLast, ProgressOK
<1> QED
  BY <1>1, ReadyType, CallerMoves

(* What becomes of a request that is done with a context. *)
LEMMA NextContextOK ==
  ASSUME BillingInv, NEW r \in Callers, caller[r].phase \in {"check", "owner"}, NextContext(r)
  PROVE  \E next \in CallerState :
           Goes(r, next) /\ CallerOK(next) /\ next.phase \in {"check", "ready"}
<1>0. /\ caller[r] \in CallerState /\ CallerOK(caller[r])
      /\ caller[r].context \in 1..Len(Contexts) /\ Len(Contexts) \in Nat
  BY BillingAssumption DEF BillingInv, BillingTypeOK, CallersOK, CallerState
<1>1. CASE caller[r].context < Len(Contexts)
  <2> DEFINE next == [caller[r] EXCEPT !.context = @ + 1, !.phase = "check"]
  <2>0. caller[r].context + 1 \in DOMAIN Contexts
    BY <1>0, <1>1, BillingAssumption
  <2>1. /\ next \in CallerState /\ next.phase = "check" /\ next.event = caller[r].event
    BY <1>0, <2>0 DEF CallerState
  <2>2. Goes(r, next)
    BY <1>1 DEF NextContext
  <2> HIDE DEF next
  <2>3. CallerOK(next)
    BY <1>0, <2>1 DEF CallerOK
  <2> QED
    BY <2>1, <2>2, <2>3
<1>2. CASE ~(caller[r].context < Len(Contexts))
  <2>1. Goes(r, Ready) /\ CallerOK(Ready)
    BY <1>2, ReadyType DEF NextContext, CallerOK
  <2> QED
    BY <2>1, ReadyType
<1> QED
  BY <1>1, <1>2

(* Steps in which a request only changes itself. *)
LEMMA BillingAlone ==
  ASSUME BillingInv, NEW r \in Callers,
         \/ \E c \in Customers : Synchronize(r, c) \/ Owner(r, c)
         \/ \E e \in DOMAIN changes : Notify(r, e)
         \/ CheckEvent(r) \/ Subscriber(r) \/ Fail(r)
  PROVE  BillingInv'
<1>0. /\ caller[r] \in CallerState
      /\ CallerOK(caller[r]) /\ NewestLast(r, caller[r]) /\ ProgressOK(caller[r])
  BY DEF BillingInv, BillingTypeOK, CallersOK, CallerState
<1>1. ASSUME NEW c \in Customers, Synchronize(r, c) PROVE BillingInv'
  <2> DEFINE next == Working("identity", 0, 1, {}, c, NoSnapshot)
  <2>1. /\ next \in CallerState /\ next.phase = "identity" /\ next.event = 0
        /\ next.customer = c
    BY BillingAssumption DEF Working, CallerState, Snapshots
  <2>2. Goes(r, next) /\ UNCHANGED <<changes, clock, known, latest, stored, processed>>
    BY <1>1 DEF Synchronize
  <2>3. 0 \notin DOMAIN changes
    BY BillingTypes DEF BillingInv
  <2> HIDE DEF next
  <2>4. CallerOK(next) /\ NewestLast(r, next) /\ ProgressOK(next)
    BY <2>1, <2>3 DEF CallerOK, NewestLast, ProgressOK
  <2> QED
    BY <2>1, <2>2, <2>4, CallerMoves
<1>2. ASSUME NEW e \in DOMAIN changes, Notify(r, e) PROVE BillingInv'
  <2> DEFINE next == Working("check", e, 1, {}, Nobody, NoSnapshot)
  <2>0. e \in 0..MaxChanges /\ e # 0
    <3>1. /\ e \in 1..Len(changes) /\ Len(changes) \in 0..MaxChanges
      BY BillingTypes DEF BillingInv
    <3> QED
      BY <3>1, BillingAssumption
  <2>1. /\ next \in CallerState /\ next.phase = "check" /\ next.event = e
    BY <2>0, BillingAssumption DEF Working, CallerState, Snapshots
  <2>2. Goes(r, next) /\ UNCHANGED <<changes, clock, known, latest, stored, processed>>
    BY <1>2 DEF Notify
  <2> HIDE DEF next
  <2>3. CallerOK(next) /\ NewestLast(r, next) /\ ProgressOK(next)
    BY <2>0, <2>1 DEF CallerOK, NewestLast, ProgressOK
  <2> QED
    BY <2>1, <2>2, <2>3, CallerMoves
<1>3. CASE CheckEvent(r)
  <2>0. caller[r].phase = "check" /\ UNCHANGED <<changes, clock, known, latest, stored, processed>>
    BY <1>3 DEF CheckEvent
  <2>1. CASE NextContext(r)
    <3>1. PICK next \in CallerState :
            Goes(r, next) /\ CallerOK(next) /\ next.phase \in {"check", "ready"}
      BY <2>0, <2>1, NextContextOK
    <3>2. NewestLast(r, next) /\ ProgressOK(next)
      BY <3>1 DEF NewestLast, ProgressOK
    <3> QED
      BY <2>0, <3>1, <3>2, CallerMoves
  <2>2. CASE Goes(r, [caller[r] EXCEPT !.phase = "owner", !.todo = changes[caller[r].event]])
    <3> DEFINE e    == caller[r].event
               next == [caller[r] EXCEPT !.phase = "owner", !.todo = changes[e]]
    <3>1. e \in DOMAIN changes /\ e # 0 /\ changes[e] \subseteq Customers
      BY <1>0, <2>0, BillingTypes DEF CallerOK, BillingInv
    <3>2. /\ next \in CallerState /\ next.phase = "owner" /\ next.todo = changes[e]
          /\ next.event = e
      BY <1>0, <3>1 DEF CallerState
    <3> HIDE DEF next
    <3>3. CallerOK(next) /\ NewestLast(r, next) /\ ProgressOK(next)
      BY <3>1, <3>2 DEF CallerOK, NewestLast, ProgressOK
    <3> QED
      BY <2>0, <2>2, <3>2, <3>3, CallerMoves DEF next
  <2> QED
    BY <1>3, <2>1, <2>2 DEF CheckEvent
<1>4. ASSUME NEW c \in Customers, Owner(r, c) PROVE BillingInv'
  <2>0. /\ caller[r].phase = "owner" /\ c \in caller[r].todo
        /\ UNCHANGED <<changes, clock, known, latest, stored, processed>>
    BY <1>4 DEF Owner
  <2>1. CASE known[c] = Unknown \/ Home[c] # Context(r)
    <3> DEFINE next == [caller[r] EXCEPT !.todo = @ \ {c}]
    <3>1. /\ next \in CallerState /\ next.phase = "owner" /\ next.todo = caller[r].todo \ {c}
          /\ next.event = caller[r].event /\ next.context = caller[r].context
      BY <1>0, <2>0 DEF CallerState
    <3>2. Goes(r, next)
      BY <1>4, <2>1 DEF Owner
    <3> HIDE DEF next
    <3>3. CallerOK(next) /\ NewestLast(r, next)
      BY <1>0, <2>0, <3>1 DEF CallerOK, NewestLast
    <3>4. \A e : Reflected(Contexts[caller[r].context], e, c)
      BY <2>1 DEF Reflected, Context
    <3>5. ProgressOK(next)
      BY <1>0, <2>0, <3>1, <3>4 DEF ProgressOK
    <3> QED
      BY <2>0, <3>1, <3>2, <3>3, <3>5, CallerMoves
  <2>2. CASE ~(known[c] = Unknown \/ Home[c] # Context(r))
    <3> DEFINE next == [caller[r] EXCEPT !.todo = @ \ {c}, !.phase = "identity", !.customer = c]
    <3>1. /\ next \in CallerState /\ next.phase = "identity" /\ next.todo = caller[r].todo \ {c}
          /\ next.event = caller[r].event /\ next.context = caller[r].context
          /\ next.customer = c
      BY <1>0, <2>0 DEF CallerState
    <3>2. Goes(r, next)
      BY <1>4, <2>2 DEF Owner
    <3> HIDE DEF next
    <3>3. CallerOK(next) /\ NewestLast(r, next)
      BY <1>0, <2>0, <3>1 DEF CallerOK, NewestLast
    <3>4. ProgressOK(next)
      BY <1>0, <2>0, <3>1 DEF ProgressOK
    <3> QED
      BY <2>0, <3>1, <3>2, <3>3, <3>4, CallerMoves
  <2> QED
    BY <2>1, <2>2
<1>5. CASE Subscriber(r)
  <2> DEFINE seen == [version |-> Len(changes), observedAt |-> clock]
             next == [caller[r] EXCEPT !.phase = "commit", !.snapshot = seen]
  <2>0. /\ caller[r].phase = "subscriber" /\ Goes(r, next)
        /\ UNCHANGED <<changes, clock, known, latest, stored, processed>>
    BY <1>5 DEF Subscriber
  <2>1. seen \in Versioned /\ seen.version = Len(changes) /\ seen # NoSnapshot
    BY BillingTypes, BillingAssumption DEF BillingInv, Versioned
  <2> HIDE DEF seen
  <2>2. /\ next \in CallerState /\ next.phase = "commit" /\ next.snapshot = seen
        /\ next.event = caller[r].event /\ next.context = caller[r].context
        /\ next.todo = caller[r].todo /\ next.customer = caller[r].customer
    BY <1>0, <2>1 DEF CallerState, Snapshots, Versioned
  <2> HIDE DEF next
  <2>3. next.customer \in Customers /\ known[next.customer] # Unknown
    BY <1>0, <2>0, <2>2 DEF CallerOK
  <2>4. known[next.customer] <= Len(changes)
    BY <2>3 DEF BillingInv, StoredOK
  <2>5. next.event \in {0} \cup DOMAIN changes /\ next.event <= Len(changes)
    <3>1. \A e \in {0} \cup DOMAIN changes : e <= Len(changes)
      BY BillingTypes DEF BillingInv
    <3> QED
      BY <1>0, <2>2, <3>1 DEF CallerOK
  <2>6. CallerOK(next)
    <3>1. Len(changes) <= Len(changes)
      BY BillingTypes DEF BillingInv
    <3> QED
      BY <2>1, <2>2, <2>3, <2>4, <2>5, <3>1 DEF CallerOK
  <2>7. NewestLast(r, next)
    BY <2>1, <2>2 DEF NewestLast, BillingInv, StoredOK
  <2>8. ProgressOK(next)
    BY <1>0, <2>0, <2>2 DEF ProgressOK
  <2> QED
    BY <2>0, <2>2, <2>6, <2>7, <2>8, CallerMoves
<1>6. CASE Fail(r)
  BY <1>6, CallerEnds DEF Fail
<1> QED
  BY <1>1, <1>2, <1>3, <1>4, <1>5, <1>6

(* The last customer of an event is dealt with, and the event is marked.   *)
LEMMA BillingMarks == ASSUME BillingInv, NEW r \in Callers, Mark(r) PROVE BillingInv'
<1> DEFINE e == caller[r].event
<1>0. /\ caller[r].phase = "owner" /\ caller[r].todo = {}
      /\ processed' = processed \cup {<<Context(r), e>>}
      /\ NextContext(r) /\ UNCHANGED <<changes, clock, known, latest, stored>>
  BY DEF Mark
<1>1. /\ caller[r] \in CallerState /\ CallerOK(caller[r]) /\ ProgressOK(caller[r])
  BY DEF BillingInv, BillingTypeOK, CallersOK, CallerState
<1>2. e \in DOMAIN changes
  BY <1>0, <1>1 DEF CallerOK
<1>3. PICK next \in CallerState :
        Goes(r, next) /\ CallerOK(next) /\ next.phase \in {"check", "ready"}
  BY <1>0, NextContextOK
<1>4. \A x \in Callers : caller'[x] = IF x = r THEN next ELSE caller[x]
  BY <1>3 DEF Goes, BillingInv, BillingTypeOK
<1>5. caller' \in [Callers -> CallerState]
  BY <1>3 DEF Goes, BillingInv, BillingTypeOK, CallerState
<1>6. Context(r) \in {Contexts[k] : k \in DOMAIN Contexts}
  BY <1>1 DEF Context, CallerState
<1>7. BillingTypeOK'
  BY <1>0, <1>2, <1>5, <1>6 DEF BillingInv, BillingTypeOK, CallerState
<1>8. StoredOK'
  BY <1>0 DEF BillingInv, StoredOK
<1>9. CallersOK'
  <2> SUFFICES ASSUME NEW x \in Callers
               PROVE  (CallerOK(caller[x]) /\ NewestLast(x, caller[x]) /\ ProgressOK(caller[x]))'
    BY DEF CallersOK
  <2>1. CASE x = r
    BY <1>0, <1>3, <1>4, <2>1 DEF CallerOK, NewestLast, ProgressOK
  <2>2. CASE x # r
    BY <1>0, <1>4, <2>2 DEF BillingInv, CallersOK, CallerOK, NewestLast, ProgressOK, Reflected
  <2> QED
    BY <2>1, <2>2
<1>10. \A c \in changes[e] : Reflected(Context(r), e, c)
  BY <1>0, <1>1, <1>2 DEF ProgressOK, Context
<1>11. EventsReflected'
  <2>1. \A mark \in processed' : mark \in processed \/ (mark[1] = Context(r) /\ mark[2] = e)
    BY <1>0
  <2> QED
    BY <1>0, <1>10, <2>1 DEF BillingInv, EventsReflected, Reflected
<1> QED
  BY <1>7, <1>8, <1>9, <1>11 DEF BillingInv

(* Requests are not disturbed, and neither are marks, by a step that keeps *)
(* what was reflected and adds neither marks nor later synchronizations.   *)
LEMMA OthersStay ==
  ASSUME BillingInv, BillingTypeOK', StoredOK', processed' = processed,
         DOMAIN changes \subseteq DOMAIN changes', Len(changes) <= Len(changes'),
         Len(changes') \in Nat,
         \A e \in DOMAIN changes : changes'[e] = changes[e],
         \A c \in Customers : known[c] # Unknown => known'[c] = known[c],
         \A e \in DOMAIN changes, c \in Customers : \A context :
           Reflected(context, e, c) => Reflected(context, e, c)',
         NEW Calm \in SUBSET Callers,
         \A x \in Calm : caller'[x] = caller[x],
         \A x \in Calm, c \in Customers : latest'[c] = x => latest[c] = x /\ stored'[c] = stored[c],
         \A x \in Callers \ Calm :
           (CallerOK(caller[x]) /\ NewestLast(x, caller[x]) /\ ProgressOK(caller[x]))'
  PROVE  BillingInv'
<1>1. \A e \in DOMAIN changes : e \in Nat /\ changes[e] \subseteq Customers
  BY BillingTypes DEF BillingInv
<1>2. EventsReflected'
  <2> SUFFICES ASSUME NEW mark \in processed, NEW c \in changes'[mark[2]]
               PROVE  Reflected(mark[1], mark[2], c)'
    BY DEF EventsReflected, Reflected
  <2>1. mark[2] \in DOMAIN changes
    BY DEF BillingInv, BillingTypeOK
  <2>2. c \in changes[mark[2]] /\ c \in Customers
    BY <1>1, <2>1
  <2>3. Reflected(mark[1], mark[2], c)
    BY <2>2 DEF BillingInv, EventsReflected, Reflected
  <2> QED
    BY <2>1, <2>2, <2>3
<1>3. ASSUME NEW x \in Calm
      PROVE  (CallerOK(caller[x]) /\ NewestLast(x, caller[x]) /\ ProgressOK(caller[x]))'
  <2>1. PICK w \in CallerState : w = caller[x]
    BY DEF BillingInv, BillingTypeOK, CallerState
  <2>2. w = caller'[x]
    BY <2>1
  <2>3. CallerOK(w) /\ NewestLast(x, w) /\ ProgressOK(w)
    BY <2>1 DEF BillingInv, CallersOK
  <2>4. w.phase = "commit" => w.snapshot.version <= Len(changes')
    <3> SUFFICES ASSUME w.phase = "commit" PROVE w.snapshot.version <= Len(changes')
      OBVIOUS
    <3>1. w.snapshot.version \in Nat /\ w.snapshot.version <= Len(changes) /\ Len(changes) \in Nat
      BY <2>1, <2>3, BillingTypes DEF BillingInv, CallerOK
    <3> QED
      BY <3>1
  <2>5. CallerOK(w)'
    BY <2>3, <2>4 DEF CallerOK
  <2>6. NewestLast(x, w)'
    BY <2>3 DEF NewestLast
  <2>7. ProgressOK(w)'
    <3> SUFFICES ASSUME NEW e \in DOMAIN changes', w.event = e, w.phase \notin {"ready", "check"},
                        NEW c \in changes'[e], c \notin w.todo,
                        ~(w.phase # "owner" /\ c = w.customer)
                 PROVE  Reflected(Contexts[w.context], e, c)'
      BY DEF ProgressOK
    <3>1. e \in DOMAIN changes
      <4>1. 0 \notin DOMAIN changes'
        BY DEF BillingTypeOK
      <4> QED
        BY <2>3, <4>1 DEF CallerOK
    <3>2. c \in changes[e] /\ c \in Customers
      BY <1>1, <3>1
    <3>3. Reflected(Contexts[w.context], e, c)
      BY <2>3, <3>1, <3>2 DEF ProgressOK
    <3> QED
      BY <3>1, <3>2, <3>3
  <2> QED
    BY <2>2, <2>5, <2>6, <2>7 DEF CallerOK, NewestLast, ProgressOK, Reflected
<1>4. CallersOK'
  BY <1>3 DEF CallersOK
<1> QED
  BY <1>2, <1>4 DEF BillingInv

(* The provider's side moves on. *)
LEMMA BillingChanges ==
  ASSUME BillingInv, Advance \/ \E ids \in (SUBSET Customers) \ {{}} : Change(ids)
  PROVE  BillingInv'
<1>0. /\ changes \in Seq(SUBSET Customers) /\ Len(changes) \in Nat
      /\ DOMAIN changes = 1..Len(changes)
  BY BillingTypes DEF BillingInv
<1>1. UNCHANGED <<known, latest, stored, processed, caller>>
  BY DEF Advance, Change
<1>2. /\ DOMAIN changes \subseteq DOMAIN changes' /\ Len(changes) <= Len(changes')
      /\ Len(changes') \in Nat
      /\ \A e \in DOMAIN changes : changes'[e] = changes[e]
      /\ changes' \in Seq(SUBSET Customers) /\ Len(changes') <= MaxChanges
  <2>1. CASE Advance
    BY <1>0, <2>1 DEF Advance, BillingInv, BillingTypeOK
  <2>2. ASSUME NEW ids \in SUBSET Customers, Change(ids)
        PROVE  /\ DOMAIN changes \subseteq DOMAIN changes' /\ Len(changes) <= Len(changes')
               /\ Len(changes') \in Nat
               /\ \A e \in DOMAIN changes : changes'[e] = changes[e]
               /\ changes' \in Seq(SUBSET Customers) /\ Len(changes') <= MaxChanges
    <3>1. changes' = Append(changes, ids) /\ Len(changes) < MaxChanges
      BY <2>2 DEF Change
    <3>2. /\ Len(changes') = Len(changes) + 1 /\ changes' \in Seq(SUBSET Customers)
          /\ \A e \in 1..Len(changes) : changes'[e] = changes[e]
          /\ DOMAIN changes' = 1..(Len(changes) + 1)
      BY <1>0, <3>1
    <3> QED
      BY <1>0, <3>1, <3>2, BillingAssumption
  <2> QED
    BY <2>1, <2>2
<1>3. clock' \in 0..MaxClock
  BY BillingAssumption DEF BillingInv, BillingTypeOK, Advance, Change
<1>4. BillingTypeOK'
  <2>1. processed' \subseteq {Contexts[k] : k \in DOMAIN Contexts} \X DOMAIN changes'
    BY <1>1, <1>2 DEF BillingInv, BillingTypeOK
  <2> QED
    BY <1>1, <1>2, <1>3, <2>1 DEF BillingInv, BillingTypeOK
<1>5. StoredOK'
  <2>1. \A c \in Customers : known[c] \in Int
    BY BillingTypes DEF BillingInv
  <2>2. \A c \in Customers : stored[c] # NoSnapshot => stored[c].version \in Int
    BY BillingTypes DEF BillingInv
  <2>3. \A n \in Int : n <= Len(changes) => n <= Len(changes')
    BY <1>0, <1>2
  <2> QED
    BY <1>1, <2>1, <2>2, <2>3 DEF BillingInv, StoredOK
<1>6. \A e \in DOMAIN changes, c \in Customers : \A context :
        Reflected(context, e, c) => Reflected(context, e, c)'
  BY <1>1 DEF Reflected
<1> QED
  BY <1>1, <1>2, <1>4, <1>5, <1>6, OthersStay

(* An account comes into being, if there was none. *)
LEMMA IdentifiedOK ==
  ASSUME BillingInv, NEW c \in Customers, Identified(c), UNCHANGED <<changes, stored>>
  PROVE  /\ known' \in [Customers -> {Unknown} \cup (0..MaxChanges)]
         /\ known'[c] # Unknown
         /\ StoredOK'
         /\ \A x \in Customers : known[x] # Unknown => known'[x] = known[x]
         /\ \A e \in DOMAIN changes, x \in Customers : \A context :
              Reflected(context, e, x) => Reflected(context, e, x)'
<1>1. /\ known \in [Customers -> {Unknown} \cup (0..MaxChanges)]
      /\ Len(changes) \in 0..MaxChanges /\ Len(changes) \in Nat
      /\ \A e \in DOMAIN changes : e \in Nat /\ e <= Len(changes)
  BY BillingTypes DEF BillingInv, BillingTypeOK
<1>2. known' \in [Customers -> {Unknown} \cup (0..MaxChanges)]
  BY <1>1 DEF Identified
<1>3. Len(changes) # Unknown
  BY <1>1 DEF Unknown
<1>4. \A x \in Customers :
        \/ known'[x] = known[x] /\ (x = c => known[x] # Unknown)
        \/ x = c /\ known[x] = Unknown /\ known'[x] = Len(changes)
  BY <1>1 DEF Identified
<1>5. StoredOK'
  BY <1>1, <1>4 DEF BillingInv, StoredOK
<1>6. \A e \in DOMAIN changes, x \in Customers : \A context :
        Reflected(context, e, x) => Reflected(context, e, x)'
  BY <1>1, <1>4, ReflectedStays DEF BillingInv
<1> QED
  BY <1>2, <1>3, <1>4, <1>5, <1>6

(* GET account *)
LEMMA BillingAccount == ASSUME BillingInv, NEW c \in Customers, Account(c) PROVE BillingInv'
<1>1. Identified(c) /\ UNCHANGED <<changes, clock, latest, stored, processed, caller>>
  BY DEF Account
<1>2. /\ known' \in [Customers -> {Unknown} \cup (0..MaxChanges)]
      /\ StoredOK'
      /\ \A x \in Customers : known[x] # Unknown => known'[x] = known[x]
      /\ \A e \in DOMAIN changes, x \in Customers : \A context :
              Reflected(context, e, x) => Reflected(context, e, x)'
  BY <1>1, IdentifiedOK
<1>3. BillingTypeOK'
  BY <1>1, <1>2 DEF BillingInv, BillingTypeOK
<1>4. Len(changes) \in Nat /\ Len(changes) <= Len(changes)
  BY BillingTypes DEF BillingInv
<1> QED
  BY <1>1, <1>2, <1>3, <1>4, OthersStay

(* The request that goes on, in a step that changes more than itself.      *)
LEMMA CallerStep ==
  ASSUME BillingInv, NEW r \in Callers, NEW next \in CallerState, Goes(r, next)
  PROVE  /\ \A x \in Callers : caller'[x] = IF x = r THEN next ELSE caller[x]
         /\ caller' \in [Callers -> CallerState]
BY DEF Goes, BillingInv, BillingTypeOK, CallerState

(* The request makes sure that its customer has an account. *)
LEMMA BillingIdentifies == ASSUME BillingInv, NEW r \in Callers, Identify(r) PROVE BillingInv'
<1> DEFINE c == caller[r].customer
<1>0. /\ caller[r].phase = "identity" /\ Identified(c)
      /\ UNCHANGED <<changes, clock, latest, stored, processed>>
  BY DEF Identify
<1>1. /\ caller[r] \in CallerState /\ CallerOK(caller[r]) /\ ProgressOK(caller[r])
  BY DEF BillingInv, BillingTypeOK, CallersOK, CallerState
<1>2. c \in Customers
  BY <1>0, <1>1 DEF CallerOK
<1>3. PICK next \in CallerState :
        /\ Goes(r, next) /\ next.phase = "begin" /\ next.customer = c
        /\ next.event = caller[r].event /\ next.todo = caller[r].todo
        /\ next.context = caller[r].context
  <2> DEFINE w == [caller[r] EXCEPT !.phase = "begin"]
  <2>1. /\ w \in CallerState /\ w.phase = "begin" /\ w.customer = c
        /\ w.event = caller[r].event /\ w.todo = caller[r].todo
        /\ w.context = caller[r].context
    BY <1>1 DEF CallerState
  <2>2. Goes(r, w)
    BY DEF Identify
  <2> HIDE DEF w
  <2> QED
    BY <2>1, <2>2
<1>4. /\ known' \in [Customers -> {Unknown} \cup (0..MaxChanges)]
      /\ known'[c] # Unknown
      /\ StoredOK'
      /\ \A x \in Customers : known[x] # Unknown => known'[x] = known[x]
      /\ \A e \in DOMAIN changes, x \in Customers : \A context :
              Reflected(context, e, x) => Reflected(context, e, x)'
  BY <1>0, <1>2, IdentifiedOK
<1>5. /\ \A x \in Callers : caller'[x] = IF x = r THEN next ELSE caller[x]
      /\ caller' \in [Callers -> CallerState]
  BY <1>3, CallerStep
<1>6. BillingTypeOK'
  BY <1>0, <1>4, <1>5 DEF BillingInv, BillingTypeOK, CallerState
<1>7. Len(changes) \in Nat /\ Len(changes) <= Len(changes)
      /\ \A e \in DOMAIN changes : changes[e] \subseteq Customers
  BY BillingTypes DEF BillingInv
<1>8. CallerOK(next)' /\ NewestLast(r, next)'
  BY <1>0, <1>1, <1>2, <1>3, <1>4 DEF CallerOK, NewestLast
<1>9. ProgressOK(next)'
  BY <1>0, <1>1, <1>3, <1>4, <1>7 DEF ProgressOK
<1>10. (CallerOK(caller[r]) /\ NewestLast(r, caller[r]) /\ ProgressOK(caller[r]))'
  BY <1>5, <1>8, <1>9 DEF CallerOK, NewestLast, ProgressOK, Reflected
<1> DEFINE Calm == Callers \ {r}
<1>11. /\ Calm \in SUBSET Callers
       /\ \A x \in Calm : caller'[x] = caller[x]
       /\ \A x \in Calm, d \in Customers : latest'[d] = x => latest[d] = x /\ stored'[d] = stored[d]
       /\ \A x \in Callers \ Calm : x = r
  BY <1>0, <1>5
<1> HIDE DEF Calm
<1>12. \A x \in Callers \ Calm :
         (CallerOK(caller[x]) /\ NewestLast(x, caller[x]) /\ ProgressOK(caller[x]))'
  BY <1>10, <1>11
<1> QED
  BY <1>0, <1>4, <1>6, <1>7, <1>11, <1>12, OthersStay

(* A later synchronization of the customer begins. *)
LEMMA BillingBegins == ASSUME BillingInv, NEW r \in Callers, BeginSync(r) PROVE BillingInv'
<1> DEFINE c == caller[r].customer
<1>0. /\ caller[r].phase = "begin" /\ latest' = [latest EXCEPT ![c] = r]
      /\ UNCHANGED <<changes, clock, known, stored, processed>>
  BY DEF BeginSync
<1>1. /\ caller[r] \in CallerState /\ CallerOK(caller[r]) /\ ProgressOK(caller[r])
  BY DEF BillingInv, BillingTypeOK, CallersOK, CallerState
<1>2. c \in Customers
  BY <1>0, <1>1 DEF CallerOK
<1>3. PICK next \in CallerState :
        /\ Goes(r, next) /\ next.phase = "subscriber" /\ next.customer = c
        /\ next.event = caller[r].event /\ next.todo = caller[r].todo
        /\ next.context = caller[r].context
  <2> DEFINE w == [caller[r] EXCEPT !.phase = "subscriber"]
  <2>1. /\ w \in CallerState /\ w.phase = "subscriber" /\ w.customer = c
        /\ w.event = caller[r].event /\ w.todo = caller[r].todo
        /\ w.context = caller[r].context
    BY <1>1 DEF CallerState
  <2>2. Goes(r, w)
    BY DEF BeginSync
  <2> HIDE DEF w
  <2> QED
    BY <2>1, <2>2
<1>4. /\ \A x \in Callers : caller'[x] = IF x = r THEN next ELSE caller[x]
      /\ caller' \in [Callers -> CallerState]
  BY <1>3, CallerStep
<1>5. /\ latest' \in [Customers -> Callers \cup {Nobody}]
      /\ \A d \in Customers : latest'[d] = IF d = c THEN r ELSE latest[d]
  BY <1>0, <1>2 DEF BillingInv, BillingTypeOK
<1>6. BillingTypeOK'
  BY <1>0, <1>4, <1>5 DEF BillingInv, BillingTypeOK, CallerState
<1>7. StoredOK'
  BY <1>0 DEF BillingInv, StoredOK
<1>8. Len(changes) \in Nat /\ Len(changes) <= Len(changes)
  BY BillingTypes DEF BillingInv
<1>9. \A e \in DOMAIN changes, x \in Customers : \A context :
        Reflected(context, e, x) => Reflected(context, e, x)'
  BY <1>0 DEF Reflected
<1>10. CallerOK(next)' /\ NewestLast(r, next)'
  BY <1>0, <1>1, <1>2, <1>3 DEF CallerOK, NewestLast
<1>11. ProgressOK(next)'
  BY <1>0, <1>1, <1>3 DEF ProgressOK, Reflected
<1>12. (CallerOK(caller[r]) /\ NewestLast(r, caller[r]) /\ ProgressOK(caller[r]))'
  BY <1>4, <1>10, <1>11 DEF CallerOK, NewestLast, ProgressOK, Reflected
<1> DEFINE Calm == Callers \ {r}
<1>13. /\ Calm \in SUBSET Callers
       /\ \A x \in Calm : caller'[x] = caller[x]
       /\ \A x \in Calm, d \in Customers : latest'[d] = x => latest[d] = x /\ stored'[d] = stored[d]
       /\ \A x \in Callers \ Calm : x = r
  BY <1>0, <1>4, <1>5
<1> HIDE DEF Calm
<1>14. \A x \in Callers \ Calm :
         (CallerOK(caller[x]) /\ NewestLast(x, caller[x]) /\ ProgressOK(caller[x]))'
  BY <1>12, <1>13
<1> QED
  BY <1>0, <1>6, <1>7, <1>8, <1>9, <1>13, <1>14, OthersStay

(* What a request stores is newer than what is stored. *)
LEMMA CommitAdvances ==
  ASSUME BillingInv, NEW r \in Callers, caller[r].phase = "commit", Commits(r)
  PROVE  LET c == caller[r].customer
             s == caller[r].snapshot
         IN  /\ c \in Customers /\ latest[c] = r
             /\ s \in Versioned /\ s # NoSnapshot /\ s.version \in Nat
             /\ known[c] # Unknown /\ known[c] <= s.version /\ s.version <= Len(changes)
             /\ caller[r].event <= s.version
             /\ stored[c] # NoSnapshot => stored[c].version <= s.version
<1>1. CallerOK(caller[r]) /\ NewestLast(r, caller[r])
  BY DEF BillingInv, CallersOK
<1>2. caller[r].snapshot # NoSnapshot /\ caller[r].customer \in Customers
  BY <1>1 DEF CallerOK
<1>3. caller[r].snapshot \in Versioned /\ caller[r].snapshot.version \in Nat
  BY <1>2, BillingTypes DEF BillingInv
<1> QED
  BY <1>1, <1>2, <1>3 DEF CallerOK, NewestLast, Commits

(* The customer's state is stored, and the request goes on or ends. *)
LEMMA BillingCommits == ASSUME BillingInv, NEW r \in Callers, CommitSync(r) PROVE BillingInv'
<1> DEFINE c == caller[r].customer
           s == caller[r].snapshot
<1>0. /\ caller[r].phase = "commit"
      /\ UNCHANGED <<changes, clock, known, latest, processed>>
  BY DEF CommitSync
<1>1. /\ caller[r] \in CallerState /\ CallerOK(caller[r]) /\ ProgressOK(caller[r])
  BY DEF BillingInv, BillingTypeOK, CallersOK, CallerState
<1>2. CASE ~Commits(r)
  BY <1>0, <1>2, CallerEnds DEF CommitSync
<1>3. CASE Commits(r)
  <2>1. /\ c \in Customers /\ latest[c] = r
        /\ s \in Versioned /\ s # NoSnapshot /\ s.version \in Nat
        /\ known[c] # Unknown /\ known[c] <= s.version /\ s.version <= Len(changes)
        /\ caller[r].event <= s.version
        /\ stored[c] # NoSnapshot => stored[c].version <= s.version
    BY <1>0, <1>3, CommitAdvances
  <2>2. /\ stored' \in [Customers -> Snapshots]
        /\ \A d \in Customers : stored'[d] = IF d = c THEN s ELSE stored[d]
    BY <1>3, <2>1 DEF CommitSync, BillingInv, BillingTypeOK, Snapshots, Versioned
  <2>3. PICK next \in CallerState :
          /\ Goes(r, next)
          /\ \/ next = Ready
             \/ /\ next.phase = "owner" /\ caller[r].event # 0
                /\ next.event = caller[r].event /\ next.todo = caller[r].todo
                /\ next.context = caller[r].context
    <3>1. CASE caller[r].event = 0
      BY <1>3, <3>1, ReadyType DEF CommitSync
    <3>2. CASE caller[r].event # 0
      <4> DEFINE w == [caller[r] EXCEPT !.phase = "owner", !.customer = Nobody,
                                        !.snapshot = NoSnapshot]
      <4>1. /\ w \in CallerState /\ w.phase = "owner"
            /\ w.event = caller[r].event /\ w.todo = caller[r].todo
            /\ w.context = caller[r].context
        BY <1>1 DEF CallerState, Snapshots
      <4>2. Goes(r, w)
        BY <1>3, <3>2 DEF CommitSync
      <4> HIDE DEF w
      <4> QED
        BY <3>2, <4>1, <4>2
    <3> QED
      BY <3>1, <3>2
  <2>4. /\ \A x \in Callers : caller'[x] = IF x = r THEN next ELSE caller[x]
        /\ caller' \in [Callers -> CallerState]
    BY <2>3, CallerStep
  <2>5. BillingTypeOK'
    BY <1>0, <2>2, <2>4 DEF BillingInv, BillingTypeOK, CallerState
  <2>6. StoredOK'
    BY <1>0, <2>1, <2>2 DEF BillingInv, StoredOK
  <2>7. /\ Len(changes) \in Nat /\ Len(changes) <= Len(changes)
        /\ \A e \in DOMAIN changes : e \in Nat /\ e <= Len(changes) /\ changes[e] \subseteq Customers
    BY BillingTypes DEF BillingInv
  <2>8. \A d \in Customers :
          \/ stored'[d] = stored[d]
          \/ /\ stored'[d] \in Versioned /\ known[d] # Unknown
             /\ known[d] <= stored'[d].version
             /\ stored[d] # NoSnapshot => stored[d].version <= stored'[d].version
    BY <2>1, <2>2
  <2>9. \A e \in DOMAIN changes, d \in Customers : \A context :
          Reflected(context, e, d) => Reflected(context, e, d)'
    <3> SUFFICES ASSUME NEW e \in DOMAIN changes, NEW d \in Customers, NEW context,
                        Reflected(context, e, d)
                 PROVE  Reflected(context, e, d)'
      OBVIOUS
    <3> QED
      BY <1>0, <2>7, <2>8, ReflectedStays DEF BillingInv
  <2>10. CallerOK(next)' /\ NewestLast(r, next)'
    BY <1>0, <1>1, <2>3, ReadyType DEF CallerOK, NewestLast
  <2>11. ProgressOK(next)'
    <3> SUFFICES ASSUME NEW e \in DOMAIN changes, next.event = e,
                        next.phase \notin {"ready", "check"},
                        NEW d \in changes[e], d \notin next.todo
                 PROVE  Reflected(Contexts[next.context], e, d)'
      BY <1>0 DEF ProgressOK
    <3>1. /\ caller[r].event = e /\ d \notin caller[r].todo
          /\ next.context = caller[r].context
      BY <2>3, ReadyType
    <3>2. d = c \/ Reflected(Contexts[next.context], e, d)
      BY <1>0, <1>1, <3>1 DEF ProgressOK
    <3>3. CASE d = c
      <4>1. stored'[d] # NoSnapshot /\ stored'[d].version >= e
        <5>1. e \in Nat /\ e <= s.version
          BY <2>1, <2>7, <3>1
        <5> QED
          BY <2>1, <2>2, <3>3, <5>1
      <4> QED
        BY <4>1 DEF Reflected
    <3>4. CASE Reflected(Contexts[next.context], e, d)
      BY <2>7, <2>9, <3>4
    <3> QED
      BY <3>2, <3>3, <3>4
  <2>12. (CallerOK(caller[r]) /\ NewestLast(r, caller[r]) /\ ProgressOK(caller[r]))'
    BY <2>4, <2>10, <2>11 DEF CallerOK, NewestLast, ProgressOK, Reflected
  <2> DEFINE Calm == Callers \ {r}
  <2>13. /\ Calm \in SUBSET Callers
         /\ \A x \in Calm : caller'[x] = caller[x]
         /\ \A x \in Calm, d \in Customers :
              latest'[d] = x => latest[d] = x /\ stored'[d] = stored[d]
         /\ \A x \in Callers \ Calm : x = r
    BY <1>0, <2>1, <2>2, <2>4
  <2> HIDE DEF Calm
  <2>14. \A x \in Callers \ Calm :
           (CallerOK(caller[x]) /\ NewestLast(x, caller[x]) /\ ProgressOK(caller[x]))'
    BY <2>12, <2>13
  <2> QED
    BY <1>0, <2>5, <2>6, <2>7, <2>9, <2>13, <2>14, OthersStay
<1> QED
  BY <1>2, <1>3

(* The inductive step. *)
LEMMA BillingStep == BillingInv /\ [BillingNext]_billingVars => BillingInv'
<1> SUFFICES ASSUME BillingInv, [BillingNext]_billingVars PROVE BillingInv'
  OBVIOUS
<1>1. CASE Advance \/ \E ids \in (SUBSET Customers) \ {{}} : Change(ids)
  BY <1>1, BillingChanges
<1>2. ASSUME NEW c \in Customers, Account(c) PROVE BillingInv'
  BY <1>2, BillingAccount
<1>3. ASSUME NEW r \in Callers, Request(r) PROVE BillingInv'
  BY <1>3, BillingAlone, BillingMarks, BillingIdentifies, BillingBegins, BillingCommits
     DEF Request
<1>4. CASE UNCHANGED billingVars
  BY <1>4 DEF billingVars, BillingInv, BillingTypeOK, StoredOK, CallersOK, CallerOK,
              NewestLast, ProgressOK, Reflected, EventsReflected
<1> QED
  BY <1>1, <1>2, <1>3, <1>4 DEF BillingNext

(* Along every behaviour of overlapping, failing and repeated requests. *)
LEMMA BillingInvariant == BillingSpec => []BillingInv
BY BillingInvInit, BillingStep, PTL DEF BillingSpec

(***************************************************************************)
(* usecases/billing.ts, processEvent: an event is marked only when every   *)
(* customer it names, that had an account in the context's environment,    *)
(* has a stored state that includes the change; however many requests      *)
(* overlap, fail or repeat the event.                                      *)
(***************************************************************************)
THEOREM MarkedEventsAreReflected == BillingSpec => []EventsReflected
<1>1. BillingInv => EventsReflected
  BY DEF BillingInv
<1> QED
  BY <1>1, BillingInvariant, PTL

(***************************************************************************)
(* d1_billing_repository.ts, commitSync: a stored state is never replaced  *)
(* by one that the provider gave out before it, although its date alone    *)
(* could not tell them apart.                                              *)
(***************************************************************************)
THEOREM StoredStateAdvances == BillingSpec => SnapshotsAdvance
<1> DEFINE Advances ==
      \A c \in Customers : stored[c] # NoSnapshot => stored'[c].version >= stored[c].version
<1>1. BillingInv /\ [BillingNext]_billingVars => [Advances]_billingVars
  <2> SUFFICES ASSUME BillingInv, [BillingNext]_billingVars PROVE Advances
    OBVIOUS
  <2>0. \A c \in Customers : stored[c] # NoSnapshot => stored[c].version \in Nat
    BY BillingTypes DEF BillingInv
  <2>1. CASE stored' = stored
    BY <2>0, <2>1
  <2>2. ASSUME NEW r \in Callers, CommitSync(r), Commits(r) PROVE Advances
    <3> DEFINE c == caller[r].customer
               s == caller[r].snapshot
    <3>1. /\ c \in Customers /\ s.version \in Nat
          /\ stored[c] # NoSnapshot => stored[c].version <= s.version
      BY <2>2, CommitAdvances DEF CommitSync
    <3>2. \A d \in Customers : stored'[d] = IF d = c THEN s ELSE stored[d]
      BY <2>2 DEF CommitSync, BillingInv, BillingTypeOK
    <3> QED
      BY <2>0, <3>1, <3>2
  <2>3. \/ stored' = stored
        \/ \E r \in Callers : CommitSync(r) /\ Commits(r)
    BY DEF BillingNext, Request, Change, Advance, Account, Synchronize, Owner, Notify,
           CheckEvent, Mark, Identify, BeginSync, Subscriber, CommitSync, Fail, billingVars
  <2> QED
    BY <2>1, <2>2, <2>3
<1> QED
  BY <1>1, BillingInvariant, PTL DEF BillingSpec, SnapshotsAdvance

-----------------------------------------------------------------------------
(* The catalog of plans (BillingCatalog.tla)                               *)

(* What a replacement keeps of the catalog it was validated against. *)
Continues(catalog) ==
  Current # Undefined =>
    /\ catalog.free = Current.catalog.free
    /\ DOMAIN Current.catalog.entitled \subseteq DOMAIN catalog.entitled
    /\ Current.catalog.purchases # Undefined => catalog.purchases # Undefined
    /\ Declared \/ Plans(Current.catalog) \subseteq Plans(catalog)

(* A replacement under way was validated against the catalog of its        *)
(* revision, which is still the one it continues unless there is a newer.  *)
EditorOK(w) ==
  /\ w.revision \in Nat
  /\ w.phase = "replacing" =>
       /\ w.revision <= Revision /\ w.catalog \in Catalogs
       /\ w.revision = Revision => Continues(w.catalog)

RowOK == catalogRow = Undefined \/ catalogRow \in [revision : 1..MaxRevision, catalog : Catalogs]

(* Until a catalog is stored, grants name plans the host was built with. *)
FirstGrants ==
  catalogRow = Undefined => grants \subseteq IF Declared THEN {} ELSE Plans(Initial)

CatalogInv ==
  /\ RowOK
  /\ FirstGrants
  /\ DOMAIN editor = Editors
  /\ \A e \in Editors : EditorOK(editor[e])

(* Catalogs that may be stored are records of four fields, and replacing   *)
(* the policy changes nothing else.                                        *)
LEMMA CatalogFields ==
  /\ \A catalog \in Catalogs : DOMAIN catalog = {"free", "limits", "entitled", "purchases"}
  /\ \A catalog \in Catalogs : \A policy :
       /\ [catalog EXCEPT !.purchases = policy].free = catalog.free
       /\ [catalog EXCEPT !.purchases = policy].limits = catalog.limits
       /\ [catalog EXCEPT !.purchases = policy].entitled = catalog.entitled
       /\ [catalog EXCEPT !.purchases = policy].purchases = policy
  /\ \A catalog \in Catalogs : \E other \in Supplied : catalog.limits = other.limits
  /\ \A catalog \in Catalogs : \E other \in Supplied : catalog.purchases = other.purchases
<1>1. \A catalog \in Supplied : DOMAIN catalog = {"free", "limits", "entitled", "purchases"}
  BY CatalogAssumption
<1>2. Proposals \subseteq Supplied
  BY DEF Supplied
<1>3. ASSUME NEW catalog, DOMAIN catalog = {"free", "limits", "entitled", "purchases"}, NEW policy
      PROVE  LET made == [catalog EXCEPT !.purchases = policy]
             IN  /\ DOMAIN made = DOMAIN catalog
                 /\ made.free = catalog.free /\ made.limits = catalog.limits
                 /\ made.entitled = catalog.entitled /\ made.purchases = policy
  BY <1>3
<1>4. \A catalog \in Catalogs :
        \/ catalog \in Supplied
        \/ \E one \in Proposals, other \in Supplied :
             catalog = [one EXCEPT !.purchases = other.purchases]
  BY DEF Catalogs
<1>5. \A catalog \in Catalogs :
        /\ DOMAIN catalog = {"free", "limits", "entitled", "purchases"}
        /\ \E other \in Supplied : catalog.limits = other.limits
        /\ \E other \in Supplied : catalog.purchases = other.purchases
  BY <1>1, <1>2, <1>3, <1>4
<1> QED
  BY <1>3, <1>5

(* The catalog in force, by the row. *)
LEMMA CurrentRow ==
  ASSUME RowOK
  PROVE  /\ Revision \in Nat
         /\ Current # Undefined => Current.catalog \in Catalogs
         /\ catalogRow # Undefined => Current = catalogRow /\ Revision = catalogRow.revision
                                      /\ catalogRow.revision \in 1..MaxRevision
         /\ catalogRow = Undefined => Revision = 0
         /\ catalogRow = Undefined /\ Declared => Current = Undefined
         /\ catalogRow = Undefined /\ ~Declared => Current # Undefined /\ Current.catalog = Initial
<1>1. ~Declared => /\ [revision |-> 0, catalog |-> Initial] # Undefined
                   /\ Initial \in Catalogs
  <2>1. ~Declared => Initial \in Catalogs
    BY DEF Catalogs, Supplied
  <2>2. 0 \in 0..MaxRevision
    BY CatalogAssumption
  <2>3. ~Declared => [revision |-> 0, catalog |-> Initial] \in
                       [revision : 0..MaxRevision, catalog : Catalogs]
    BY <2>1, <2>2
  <2> QED
    BY <2>1, <2>3, CatalogAssumption
<1>2. CASE catalogRow = Undefined
  BY <1>1, <1>2 DEF Current, Revision
<1>3. CASE catalogRow # Undefined
  BY <1>3 DEF Current, Revision, RowOK
<1> QED
  BY <1>2, <1>3

(* A replacement that is under way may be stored, and continues what is in *)
(* force.                                                                  *)
LEMMA PolicyContinues ==
  ASSUME RowOK, NEW catalog \in Proposals, Valid(catalog)
  PROVE  WithPolicy(catalog) \in Catalogs /\ Continues(WithPolicy(catalog))
<1>0. catalog \in Catalogs
  BY DEF Catalogs, Supplied
<1>1. Current # Undefined => \E other \in Supplied : Current.catalog.purchases = other.purchases
  BY CatalogFields, CurrentRow
<1>2. CASE catalog.purchases = Undefined /\ Current # Undefined
  <2> DEFINE made == [catalog EXCEPT !.purchases = Current.catalog.purchases]
  <2>1. WithPolicy(catalog) = made
    BY <1>2 DEF WithPolicy
  <2>2. made \in Catalogs
    BY <1>1, <1>2 DEF Catalogs
  <2>3. /\ made.free = catalog.free /\ made.limits = catalog.limits
        /\ made.entitled = catalog.entitled /\ made.purchases = Current.catalog.purchases
    BY <1>0, CatalogFields
  <2> HIDE DEF made
  <2>4. Continues(made)
    BY <1>2, <2>3 DEF Continues, Valid, Plans
  <2> QED
    BY <2>1, <2>2, <2>4
<1>3. CASE ~(catalog.purchases = Undefined /\ Current # Undefined)
  BY <1>0, <1>3 DEF WithPolicy, Continues, Valid, Plans
<1> QED
  BY <1>2, <1>3

(* No catalog is stored, and nobody edits. *)
LEMMA CatalogInvInit == CatalogInit => CatalogInv
<1> SUFFICES ASSUME CatalogInit PROVE CatalogInv
  OBVIOUS
<1>1. Away.phase = "away" /\ Away.revision = 0
  BY DEF Away, Editing
<1>2. \A e \in Editors : EditorOK(editor[e])
  BY <1>1 DEF CatalogInit, EditorOK
<1> QED
  BY <1>2 DEF CatalogInit, CatalogInv, RowOK, FirstGrants

(* What is stored by a replacement that still finds its revision. *)
LEMMA ReplacementContinues ==
  ASSUME CatalogInv, NEW e \in Editors, ReplaceCatalog(e),
         Replaces(editor[e].revision, editor[e].catalog)
  PROVE  /\ editor[e].catalog \in Catalogs /\ Continues(editor[e].catalog)
         /\ catalogRow' = [revision |-> Revision + 1, catalog |-> editor[e].catalog]
         /\ catalogRow' \in [revision : 1..MaxRevision, catalog : Catalogs]
         /\ grants \subseteq Plans(editor[e].catalog)
<1>0. /\ RowOK /\ FirstGrants /\ EditorOK(editor[e])
      /\ editor[e].phase = "replacing" /\ Revision < MaxRevision
      /\ catalogRow' = [revision |-> IF catalogRow = Undefined THEN 1 ELSE catalogRow.revision + 1,
                        catalog |-> editor[e].catalog]
  BY DEF CatalogInv, ReplaceCatalog
<1>1. editor[e].revision = Revision
  BY <1>0, CurrentRow DEF Replaces
<1>2. editor[e].catalog \in Catalogs /\ Continues(editor[e].catalog)
  BY <1>0, <1>1 DEF EditorOK
<1>3. catalogRow' = [revision |-> Revision + 1, catalog |-> editor[e].catalog]
  BY <1>0, CurrentRow
<1>4. Revision + 1 \in 1..MaxRevision
  BY <1>0, CurrentRow, CatalogAssumption
<1>5. grants \subseteq Plans(editor[e].catalog)
  <2>1. CASE catalogRow = Undefined /\ Declared
    BY <1>0, <2>1 DEF FirstGrants
  <2>2. CASE catalogRow = Undefined /\ ~Declared
    BY <1>0, <1>2, <2>2, CurrentRow DEF FirstGrants, Continues
  <2>3. CASE catalogRow # Undefined
    <3>1. editor[e].revision # 0
      BY <1>1, <1>0, <2>3, CurrentRow
    <3> QED
      BY <3>1 DEF Replaces
  <2> QED
    BY <2>1, <2>2, <2>3
<1> QED
  BY <1>2, <1>3, <1>4, <1>5

(* The inductive step. *)
LEMMA CatalogStep == CatalogInv /\ [CatalogNext]_catalogVars => CatalogInv'
<1> SUFFICES ASSUME CatalogInv, [CatalogNext]_catalogVars PROVE CatalogInv'
  OBVIOUS
<1>0. /\ RowOK /\ FirstGrants /\ DOMAIN editor = Editors
      /\ Revision \in Nat /\ \A e \in Editors : EditorOK(editor[e])
  BY CurrentRow DEF CatalogInv
<1>1. EditorOK(Away) /\ EditorOK(Away)'
  BY DEF EditorOK, Away, Editing
<1>2. ASSUME NEW w, EditorOK(w), UNCHANGED catalogRow PROVE EditorOK(w)'
  BY <1>2 DEF EditorOK, Revision, Continues, Current
<1>3. ASSUME NEW e \in Editors, NEW w, EditorOK(w),
             editor' = [editor EXCEPT ![e] = w], UNCHANGED <<catalogRow, grants>>
      PROVE  CatalogInv'
  <2>1. \A x \in Editors : editor'[x] = IF x = e THEN w ELSE editor[x]
    BY <1>0, <1>3
  <2>2. ASSUME NEW x \in Editors PROVE EditorOK(editor[x])'
    <3>1. PICK v : v = editor'[x]
      OBVIOUS
    <3>2. EditorOK(v)
      BY <1>0, <1>3, <2>1, <3>1
    <3>3. EditorOK(v)'
      BY <1>2, <1>3, <3>2
    <3> QED
      BY <3>1, <3>3 DEF EditorOK
  <2> QED
    BY <1>0, <1>3, <2>2 DEF CatalogInv, RowOK, FirstGrants
<1>4. ASSUME NEW e \in Editors, LoadCatalog(e) PROVE CatalogInv'
  <2> DEFINE w == Editing("editing", Revision, Undefined)
  <2>1. EditorOK(w)
    BY <1>0 DEF EditorOK, Editing
  <2>2. editor' = [editor EXCEPT ![e] = w] /\ UNCHANGED <<catalogRow, grants>>
    BY <1>4 DEF LoadCatalog
  <2> HIDE DEF w
  <2> QED
    BY <1>3, <2>1, <2>2
<1>5. ASSUME NEW e \in Editors, NEW catalog \in Proposals, SendCatalog(e, catalog)
      PROVE  CatalogInv'
  <2>0. UNCHANGED <<catalogRow, grants>>
    BY <1>5 DEF SendCatalog
  <2>1. CASE Valid(catalog) /\ editor[e].revision = Revision
    <3> DEFINE w == Editing("replacing", Revision, WithPolicy(catalog))
    <3>1. editor' = [editor EXCEPT ![e] = w]
      BY <1>5, <2>1 DEF SendCatalog
    <3>2. w.revision = Revision /\ w.catalog = WithPolicy(catalog)
      BY DEF Editing
    <3> HIDE DEF w
    <3>3. EditorOK(w)
      BY <1>0, <2>1, <3>2, PolicyContinues DEF EditorOK
    <3> QED
      BY <1>3, <2>0, <3>1, <3>3
  <2>2. CASE ~(Valid(catalog) /\ editor[e].revision = Revision)
    <3>1. editor' = [editor EXCEPT ![e] = Away]
      BY <1>5, <2>2 DEF SendCatalog
    <3> QED
      BY <1>1, <1>3, <2>0, <3>1
  <2> QED
    BY <2>1, <2>2
<1>6. ASSUME NEW e \in Editors, ReplaceCatalog(e) PROVE CatalogInv'
  <2>0. editor' = [editor EXCEPT ![e] = Away] /\ UNCHANGED grants
    BY <1>6 DEF ReplaceCatalog
  <2>1. CASE ~Replaces(editor[e].revision, editor[e].catalog)
    BY <1>1, <1>3, <1>6, <2>0, <2>1 DEF ReplaceCatalog
  <2>2. CASE Replaces(editor[e].revision, editor[e].catalog)
    <3>1. /\ catalogRow' = [revision |-> Revision + 1, catalog |-> editor[e].catalog]
          /\ catalogRow' \in [revision : 1..MaxRevision, catalog : Catalogs]
      BY <1>6, <2>2, ReplacementContinues
    <3>2. RowOK' /\ catalogRow' # Undefined
      <4>1. 1..MaxRevision \subseteq 0..MaxRevision
        BY CatalogAssumption
      <4>2. catalogRow' \in [revision : 0..MaxRevision, catalog : Catalogs]
        BY <3>1, <4>1
      <4> QED
        BY <3>1, <4>2, CatalogAssumption DEF RowOK
    <3>3. Revision' = Revision + 1
      BY <3>1, <3>2 DEF Revision, Current
    <3>4. ASSUME NEW w, EditorOK(w) PROVE EditorOK(w)'
      <4>1. w.revision \in Nat
        BY <3>4 DEF EditorOK
      <4>2. ASSUME w.phase = "replacing"
            PROVE  w.revision <= Revision + 1 /\ w.revision # Revision + 1 /\ w.catalog \in Catalogs
        BY <1>0, <3>4, <4>1, <4>2 DEF EditorOK
      <4> QED
        BY <3>3, <4>1, <4>2 DEF EditorOK
    <3>5. ASSUME NEW x \in Editors PROVE EditorOK(editor[x])'
      <4>1. PICK v : v = editor'[x]
        OBVIOUS
      <4>2. v = IF x = e THEN Away ELSE editor[x]
        BY <1>0, <2>0, <4>1
      <4>3. EditorOK(v)'
        BY <1>0, <1>1, <3>4, <4>2
      <4> QED
        BY <4>1, <4>3 DEF EditorOK
    <3> QED
      BY <1>0, <2>0, <3>2, <3>5 DEF CatalogInv, FirstGrants
  <2> QED
    BY <2>1, <2>2
<1>7. ASSUME NEW plan \in AllPlans, PutGrant(plan) PROVE CatalogInv'
  <2>1. catalogRow = Undefined => plan \in Plans(Initial) /\ ~Declared
    BY <1>0, <1>7, CurrentRow DEF PutGrant
  <2>2. FirstGrants'
    BY <1>0, <1>7, <2>1 DEF PutGrant, FirstGrants
  <2>3. \A e \in Editors : EditorOK(editor[e])'
    BY <1>0, <1>2, <1>7 DEF PutGrant
  <2> QED
    BY <1>0, <1>7, <2>2, <2>3 DEF PutGrant, CatalogInv, RowOK
<1>8. CASE UNCHANGED catalogVars
  BY <1>0, <1>8 DEF catalogVars, CatalogInv, RowOK, FirstGrants, EditorOK, Revision, Continues, Current
<1> QED
  BY <1>4, <1>5, <1>6, <1>7, <1>8 DEF CatalogNext, Edit

(* Along every behaviour of editors and grants. *)
LEMMA CatalogInvariant == CatalogSpec => []CatalogInv
BY CatalogInvInit, CatalogStep, PTL DEF CatalogSpec

(***************************************************************************)
(* usecases/billing.ts, replaceCatalog: whoever edits at the same time, a  *)
(* stored catalog is the next revision of the one it was validated         *)
(* against, and keeps the plans that grants name.                          *)
(***************************************************************************)
THEOREM CatalogsContinue == CatalogSpec => CatalogHistory
<1> DEFINE Continued ==
      catalogRow' # catalogRow =>
       /\ catalogRow'.revision = Revision + 1
       /\ Current # Undefined =>
            /\ catalogRow'.catalog.free = Current.catalog.free
            /\ DOMAIN Current.catalog.entitled \subseteq DOMAIN catalogRow'.catalog.entitled
            /\ Current.catalog.purchases # Undefined => catalogRow'.catalog.purchases # Undefined
       /\ grants \subseteq Plans(catalogRow'.catalog)
<1>1. CatalogInv /\ [CatalogNext]_catalogVars => [Continued]_catalogVars
  <2> SUFFICES ASSUME CatalogInv, [CatalogNext]_catalogVars, catalogRow' # catalogRow
               PROVE  Continued
    OBVIOUS
  <2>1. PICK e \in Editors :
          ReplaceCatalog(e) /\ Replaces(editor[e].revision, editor[e].catalog)
    BY DEF CatalogNext, Edit, LoadCatalog, SendCatalog, ReplaceCatalog, PutGrant, catalogVars
  <2> QED
    BY <2>1, ReplacementContinues DEF Continues
<1> QED
  BY <1>1, CatalogInvariant, PTL DEF CatalogSpec, CatalogHistory

-----------------------------------------------------------------------------
(* The quotas of plans (MembershipQuota.tla)                               *)

(* No plan of the catalog has a limit above the ceiling. *)
Bounded(catalog, top) ==
  \A plan \in Plans(catalog) :
    catalog.limits[plan] # Undefined => catalog.limits[plan] \in Int /\ catalog.limits[plan] <= top

(* A request counts against a limit that some catalog offered. *)
RequestOK(w) ==
  /\ DOMAIN w = DOMAIN AtRest
  /\ w.month \in 0..MaxMonth
  /\ w.phase = "plan" => Current # Undefined
  /\ w.phase = "usage" => w.limit \in Int /\ w.limit <= ceiling

(* A replacement under way was validated. *)
LimitsValid(w) ==
  w.phase = "replacing" =>
    \A plan \in Plans(w.catalog) : w.catalog.limits[plan] \in Int \cup {Undefined}

Counted(period, top) == IsFiniteSet(Used(period)) /\ Cardinality(Used(period)) <= top

QuotaInv ==
  /\ CatalogInv
  /\ ceiling \in Nat /\ month \in 0..MaxMonth
  /\ Current # Undefined => Bounded(Current.catalog, ceiling)
  /\ \A e \in Editors : LimitsValid(editor[e])
  /\ DOMAIN request = Requests
  /\ \A q \in Requests : RequestOK(request[q])
  /\ \A period \in 0..MaxMonth : Counted(period, ceiling)

(* A finite set of integers has a greatest: no subset is a smallest one    *)
(* without.                                                                *)
LEMMA GreatestExists ==
  ASSUME NEW S \in SUBSET Int, IsFiniteSet(S), S # {}
  PROVE  \E n \in S : \A other \in S : other <= n
<1> DEFINE HasGreatest(T) == \E n \in T : \A other \in T : other <= n
           Bad == {T \in SUBSET S : T # {} /\ ~HasGreatest(T)}
<1>1. SUFFICES ASSUME Bad # {} PROVE FALSE
  OBVIOUS
<1>2. \A T \in SUBSET S : IsFiniteSet(T)
  BY FS_Subset
<1>3. Bad \subseteq FiniteSubsetsOf(S)
  BY <1>2 DEF FiniteSubsetsOf
<1>4. PICK T \in Bad : \A U \in Bad : ~(<<U, T>> \in StrictSubsetOrdering(S))
  <2> HIDE DEF Bad
  <2> QED
    BY <1>1, <1>3, FS_StrictSubsetOrderingWellFounded, WFMin
<1>5. PICK x \in T : x \in Int
  OBVIOUS
<1>6. CASE T = {x}
  BY <1>4, <1>5, <1>6
<1>7. CASE T # {x}
  <2> DEFINE U == T \ {x}
  <2>1. U \in SUBSET S /\ U # {} /\ U # T /\ U \subseteq T
    BY <1>5, <1>7
  <2>2. <<U, T>> \in StrictSubsetOrdering(S)
    BY <2>1 DEF StrictSubsetOrdering
  <2>3. HasGreatest(U)
    BY <1>4, <2>1, <2>2
  <2>4. PICK n \in U : \A other \in U : other <= n
    BY <2>3
  <2>5. \A other \in T : other \in Int /\ (other = x \/ other \in U)
    OBVIOUS
  <2>6. n \in Int /\ n \in T
    BY <2>1
  <2> HIDE DEF U
  <2>7. CASE x <= n
    BY <2>4, <2>5, <2>6, <2>7
  <2>8. CASE ~(x <= n)
    <3>1. \A other \in T : other <= x
      BY <1>5, <2>4, <2>5, <2>6, <2>8
    <3> QED
      BY <1>5, <3>1
  <2> QED
    BY <2>7, <2>8
<1> QED
  BY <1>6, <1>7

(* The highest limit of a catalog is one of its limits or the floor, and   *)
(* none is above it.                                                       *)
LEMMA HighestBounds ==
  ASSUME NEW catalog \in Catalogs, NEW floor \in Nat,
         \A plan \in Plans(catalog) : catalog.limits[plan] \in Int \cup {Undefined}
  PROVE  /\ Highest(catalog, floor) \in Nat
         /\ floor <= Highest(catalog, floor)
         /\ Bounded(catalog, Highest(catalog, floor))
<1> DEFINE all    == Range(catalog.limits)
           limits == (all \ {Undefined}) \cup {floor}
           top    == CHOOSE n \in limits : \A other \in limits : other <= n
<1>1. limits \in SUBSET Int /\ limits # {}
  BY DEF Range, Plans
<1>2. IsFiniteSet(all)
  <2> DEFINE f == [plan \in Plans(catalog) |-> catalog.limits[plan]]
  <2>1. f \in Surjection(Plans(catalog), all)
    BY DEF Surjection, Range, Plans
  <2>2. IsFiniteSet(Plans(catalog))
    BY CatalogFields, QuotaAssumption DEF Plans
  <2> HIDE DEF f, all
  <2> QED
    BY <2>1, <2>2, FS_Surjection
<1>3. IsFiniteSet(limits)
  <2>1. IsFiniteSet(all \ {Undefined})
    BY <1>2, FS_RemoveElement
  <2> QED
    BY <2>1, FS_AddElement
<1>4. top \in limits /\ \A other \in limits : other <= top
  <2>1. \E n \in limits : \A other \in limits : other <= n
    <3> HIDE DEF limits
    <3> QED
      BY <1>1, <1>3, GreatestExists
  <2> QED
    BY <2>1
<1>5. Highest(catalog, floor) = top
  BY DEF Highest
<1>6. top \in Int /\ floor <= top
  BY <1>1, <1>4
<1>7. ASSUME NEW plan \in Plans(catalog), catalog.limits[plan] # Undefined
      PROVE  catalog.limits[plan] \in Int /\ catalog.limits[plan] <= top
  <2>1. catalog.limits[plan] \in limits
    BY <1>7 DEF Range, Plans
  <2> QED
    BY <1>1, <1>4, <2>1
<1> HIDE DEF top
<1> QED
  BY <1>5, <1>6, <1>7 DEF Bounded

(* A higher ceiling bounds what a lower one did. *)
LEMMA CeilingRises ==
  ASSUME NEW low \in Int, NEW high \in Int, low <= high
  PROVE  /\ \A catalog : Bounded(catalog, low) => Bounded(catalog, high)
         /\ \A n \in Int : n <= low => n <= high
<1>1. \A n \in Int : n <= low => n <= high
  OBVIOUS
<1> QED
  BY <1>1 DEF Bounded

(* Nothing is used, and the ceiling is that of the host's catalog. *)
LEMMA QuotaInvInit == QuotaInit => QuotaInv
<1> SUFFICES ASSUME QuotaInit PROVE QuotaInv
  OBVIOUS
<1>1. CatalogInv /\ catalogRow = Undefined
  BY CatalogInvInit DEF QuotaInit, CatalogInit
<1>3. ceiling \in Nat /\ (Current # Undefined => Bounded(Current.catalog, ceiling))
  <2>1. CASE Declared
    BY <1>1, <2>1, CurrentRow DEF QuotaInit, CatalogInv
  <2>2. CASE ~Declared
    <3>1. Initial \in Catalogs
      BY <2>2 DEF Catalogs, Supplied
    <3>2. \A plan \in Plans(Initial) : Initial.limits[plan] \in Int \cup {Undefined}
      BY <2>2, QuotaAssumption
    <3>3. ceiling = Highest(Initial, 0)
      BY <2>2 DEF QuotaInit
    <3>4. Current.catalog = Initial
      BY <1>1, <2>2, CurrentRow DEF CatalogInv
    <3> QED
      BY <3>1, <3>2, <3>3, <3>4, HighestBounds
  <2> QED
    BY <2>1, <2>2
<1>4. month \in 0..MaxMonth /\ 0 \in 0..MaxMonth
  BY QuotaAssumption DEF QuotaInit
<1>5. \A e \in Editors : LimitsValid(editor[e])
  BY DEF QuotaInit, CatalogInit, Away, Editing, LimitsValid
<1>6. \A q \in Requests : RequestOK(request[q])
  BY <1>4 DEF QuotaInit, RequestOK, AtRest
<1>7. DOMAIN request = Requests
  BY DEF QuotaInit
<1>8. \A period \in 0..MaxMonth : Counted(period, ceiling)
  <2>1. \A period : Used(period) = {}
    BY DEF QuotaInit, Used
  <2>2. IsFiniteSet({}) /\ Cardinality({}) = 0
    BY FS_EmptySet
  <2> QED
    BY <1>3, <2>1, <2>2 DEF Counted
<1> QED
  BY <1>1, <1>3, <1>4, <1>5, <1>6, <1>7, <1>8 DEF QuotaInv

(* A step that leaves the catalog and the ceiling alone. *)
LEMMA QuotaAlone ==
  ASSUME QuotaInv, CatalogInv', UNCHANGED <<catalogRow, editor, ceiling>>,
         month' \in 0..MaxMonth, DOMAIN request' = Requests,
         \A q \in Requests : RequestOK(request'[q]),
         \A period \in 0..MaxMonth : Counted(period, ceiling)'
  PROVE  QuotaInv'
<1>1. Current' = Current
  BY DEF Current
<1>2. ASSUME NEW w, RequestOK(w) PROVE RequestOK(w)'
  BY <1>1, <1>2 DEF RequestOK
<1>3. \A q \in Requests : RequestOK(request[q])'
  BY <1>2 DEF RequestOK
<1>4. (Current # Undefined => Bounded(Current.catalog, ceiling))'
  BY <1>1 DEF QuotaInv, Bounded, Plans
<1> QED
  BY <1>3, <1>4 DEF QuotaInv, LimitsValid, Plans

(* A request that goes on and uses nothing. *)
LEMMA AnswerOK ==
  ASSUME QuotaInv, NEW q \in Requests, NEW w, RequestOK(w), Answers(q, w),
         \A period \in 0..MaxMonth : Counted(period, ceiling)'
  PROVE  QuotaInv'
<1>1. /\ request' = [request EXCEPT ![q] = w]
      /\ UNCHANGED <<catalogRow, grants, editor, month, ceiling>>
  BY DEF Answers, catalogVars
<1>2. DOMAIN request' = Requests /\ \A x \in Requests : RequestOK(request'[x])
  BY <1>1 DEF QuotaInv
<1>3. CatalogInv'
  <2>1. [CatalogNext]_catalogVars
    BY <1>1 DEF catalogVars
  <2> QED
    BY <2>1, CatalogStep DEF QuotaInv
<1> QED
  BY <1>1, <1>2, <1>3, QuotaAlone DEF QuotaInv

(* What is counted stays, while nothing is used and the ceiling stays. *)
LEMMA CountedStays ==
  ASSUME QuotaInv, UNCHANGED <<usage, ceiling>>
  PROVE  \A period \in 0..MaxMonth : Counted(period, ceiling)'
BY DEF QuotaInv, Counted, Used

(* A request may always end. *)
LEMMA RestOK == QuotaInv => RequestOK(AtRest)
BY QuotaAssumption DEF RequestOK, AtRest

(* A request finds its plan and the limit of the plan. *)
LEMMA QuotaLooks ==
  ASSUME QuotaInv, NEW q \in Requests,
         \/ \E claims \in BOOLEAN, item \in Items : Call(q, claims, item)
         \/ ActiveGrant(q) \/ PlanFor(q)
  PROVE  QuotaInv'
<1>0. RequestOK(request[q]) /\ RequestOK(AtRest) /\ month \in 0..MaxMonth
  BY RestOK DEF QuotaInv
<1>1. \A period \in 0..MaxMonth : Counted(period, ceiling)'
  <2>1. UNCHANGED <<usage, ceiling>>
    BY DEF Call, ActiveGrant, PlanFor, Answers
  <2> QED
    BY <2>1, CountedStays
<1>2. ASSUME NEW claims \in BOOLEAN, NEW item \in Items, Call(q, claims, item) PROVE QuotaInv'
  <2> DEFINE w == [AtRest EXCEPT !.phase = "grant", !.claims = claims, !.item = item,
                                 !.month = month]
  <2>1. DOMAIN w = DOMAIN AtRest /\ w.phase = "grant" /\ w.month = month
    BY DEF AtRest
  <2>2. Answers(q, w)
    BY <1>2 DEF Call
  <2> HIDE DEF w
  <2>3. RequestOK(w)
    BY <1>0, <2>1 DEF RequestOK
  <2> QED
    BY <1>1, <2>2, <2>3, AnswerOK
<1>3. CASE ActiveGrant(q)
  <2>1. CASE Answers(q, AtRest)
    BY <1>0, <1>1, <2>1, AnswerOK
  <2>2. ASSUME NEW plan, Current # Undefined,
               Answers(q, [request[q] EXCEPT !.phase = "plan", !.plan = plan])
        PROVE  QuotaInv'
    <3> DEFINE w == [request[q] EXCEPT !.phase = "plan", !.plan = plan]
    <3>1. DOMAIN w = DOMAIN AtRest /\ w.phase = "plan" /\ w.month = request[q].month
      BY <1>0 DEF RequestOK, AtRest
    <3> HIDE DEF w
    <3>2. RequestOK(w)
      BY <1>0, <2>2, <3>1 DEF RequestOK
    <3> QED
      BY <1>1, <2>2, <3>2, AnswerOK DEF w
  <2> QED
    BY <1>3, <2>1, <2>2 DEF ActiveGrant
<1>4. CASE PlanFor(q)
  <2> DEFINE plan == IF request[q].plan = Undefined THEN Current.catalog.free ELSE request[q].plan
             limit == Current.catalog.limits[plan]
  <2>0. Current # Undefined
    BY <1>0, <1>4 DEF PlanFor, RequestOK
  <2>1. CASE plan \notin Plans(Current.catalog) \/ limit = Undefined
    <3>1. Answers(q, AtRest)
      BY <1>4, <2>1 DEF PlanFor
    <3> QED
      BY <1>0, <1>1, <3>1, AnswerOK
  <2>2. CASE plan \in Plans(Current.catalog) /\ limit # Undefined
    <3> DEFINE w == [request[q] EXCEPT !.phase = "usage", !.limit = limit]
    <3>1. Answers(q, w)
      BY <1>4, <2>2 DEF PlanFor
    <3>2. limit \in Int /\ limit <= ceiling
      BY <2>0, <2>2 DEF QuotaInv, Bounded
    <3>3. DOMAIN w = DOMAIN AtRest /\ w.phase = "usage" /\ w.month = request[q].month
          /\ w.limit = limit
      BY <1>0 DEF RequestOK, AtRest
    <3> HIDE DEF w, limit
    <3>4. RequestOK(w)
      BY <1>0, <3>2, <3>3 DEF RequestOK
    <3> QED
      BY <1>1, <3>1, <3>4, AnswerOK
  <2> QED
    BY <2>1, <2>2
<1> QED
  BY <1>2, <1>3, <1>4

(* A claim is counted and inserted in one statement, a release removed. *)
LEMMA QuotaUses ==
  ASSUME QuotaInv, NEW q \in Requests, ClaimUsage(q) \/ ReleaseUsage(q)
  PROVE  QuotaInv'
<1> DEFINE entry == <<Period(q), request[q].item>>
<1>0. /\ request[q].phase = "usage" /\ RequestOK(request[q]) /\ RequestOK(AtRest)
      /\ Answers(q, AtRest) /\ ceiling' = ceiling /\ ceiling \in Nat
  BY RestOK DEF ClaimUsage, ReleaseUsage, Answers, QuotaInv
<1>1. request[q].limit \in Int /\ request[q].limit <= ceiling
  BY <1>0 DEF RequestOK
<1>2. ASSUME NEW period \in 0..MaxMonth PROVE Counted(period, ceiling)'
  <2>0. IsFiniteSet(Used(period)) /\ Cardinality(Used(period)) <= ceiling
    BY DEF QuotaInv, Counted
  <2>1. Cardinality(Used(period)) \in Nat
    BY <2>0, FS_CardinalityType
  <2>2. CASE ReleaseUsage(q) \/ ~Admits(q) \/ Period(q) # period
    <3>1. Used(period)' \subseteq Used(period)
      BY <2>2 DEF ReleaseUsage, ClaimUsage, Used
    <3>2. IsFiniteSet(Used(period)') /\ Cardinality(Used(period)') <= Cardinality(Used(period))
      BY <2>0, <3>1, FS_Subset
    <3>3. Cardinality(Used(period)') \in Nat
      BY <3>2, FS_CardinalityType
    <3> QED
      BY <1>0, <2>0, <2>1, <3>2, <3>3 DEF Counted
  <2>3. CASE ClaimUsage(q) /\ Admits(q) /\ Period(q) = period
    <3>1. CASE entry \in usage
      <4>1. Used(period)' = Used(period)
        BY <2>3, <3>1 DEF ClaimUsage, Used
      <4> QED
        BY <1>0, <2>0, <4>1 DEF Counted
    <3>2. CASE entry \notin usage
      <4>1. Cardinality(Used(period)) < request[q].limit
        BY <2>3, <3>2 DEF Admits
      <4>2. Used(period)' \subseteq Used(period) \cup {request[q].item}
        BY <2>3 DEF ClaimUsage, Used
      <4>3. /\ IsFiniteSet(Used(period) \cup {request[q].item})
            /\ Cardinality(Used(period) \cup {request[q].item}) \in Nat
            /\ Cardinality(Used(period) \cup {request[q].item}) <= Cardinality(Used(period)) + 1
        <5>1. /\ IsFiniteSet(Used(period) \cup {request[q].item})
              /\ \/ Cardinality(Used(period) \cup {request[q].item}) = Cardinality(Used(period))
                 \/ Cardinality(Used(period) \cup {request[q].item}) = Cardinality(Used(period)) + 1
          BY <2>0, FS_AddElement
        <5> QED
          BY <2>1, <5>1
      <4>4. /\ IsFiniteSet(Used(period)')
            /\ Cardinality(Used(period)') <= Cardinality(Used(period) \cup {request[q].item})
        BY <4>2, <4>3, FS_Subset
      <4>5. Cardinality(Used(period)') \in Nat
        BY <4>4, FS_CardinalityType
      <4>6. Cardinality(Used(period)') <= ceiling
        BY <1>0, <1>1, <2>1, <4>1, <4>3, <4>4, <4>5
      <4> QED
        BY <1>0, <4>4, <4>6 DEF Counted
    <3> QED
      BY <3>1, <3>2
  <2> QED
    BY <2>2, <2>3
<1> QED
  BY <1>0, <1>2, AnswerOK

(* An editor's step: the ceiling rises with the catalog. *)
LEMMA QuotaEdits == ASSUME QuotaInv, NEW e \in Editors, EditQuota(e) PROVE QuotaInv'
<1>0. /\ CatalogInv /\ RowOK /\ DOMAIN editor = Editors /\ ceiling \in Nat /\ Edit(e)
      /\ UNCHANGED <<month, usage, request>>
      /\ ceiling' = IF catalogRow' = Undefined THEN ceiling
                    ELSE Highest(catalogRow'.catalog, ceiling)
  BY DEF QuotaInv, CatalogInv, EditQuota, catalogOnly
<1>1. CatalogInv'
  BY <1>0, CatalogStep DEF CatalogNext
<1>2. RowOK'
  BY <1>1 DEF CatalogInv
<1>3. \/ catalogRow' = catalogRow
      \/ /\ catalogRow'.catalog = editor[e].catalog
         /\ editor[e].phase = "replacing"
         /\ catalogRow' # Undefined
  <2>1. CASE LoadCatalog(e) \/ \E catalog \in Proposals : SendCatalog(e, catalog)
    BY <2>1 DEF LoadCatalog, SendCatalog
  <2>2. CASE ReplaceCatalog(e)
    <3>1. CASE Replaces(editor[e].revision, editor[e].catalog)
      <4>1. /\ catalogRow' = [revision |-> Revision + 1, catalog |-> editor[e].catalog]
            /\ catalogRow' \in [revision : 1..MaxRevision, catalog : Catalogs]
        BY <1>0, <2>2, <3>1, ReplacementContinues
      <4>2. 1..MaxRevision \subseteq 0..MaxRevision
        BY CatalogAssumption
      <4>3. catalogRow' \in [revision : 0..MaxRevision, catalog : Catalogs]
        BY <4>1, <4>2
      <4> QED
        BY <2>2, <4>1, <4>3, CatalogAssumption DEF ReplaceCatalog
    <3>2. CASE ~Replaces(editor[e].revision, editor[e].catalog)
      BY <2>2, <3>2 DEF ReplaceCatalog
    <3> QED
      BY <3>1, <3>2
  <2> QED
    BY <1>0, <2>1, <2>2 DEF Edit
<1>4. catalogRow' # Undefined => catalogRow'.catalog \in Catalogs /\ Current' = catalogRow'
  BY <1>2 DEF RowOK, Current
<1>5. catalogRow' # Undefined =>
        \A plan \in Plans(catalogRow'.catalog) : catalogRow'.catalog.limits[plan] \in Int \cup {Undefined}
  <2>1. CASE catalogRow' = catalogRow
    <3>1. catalogRow # Undefined => Current = catalogRow /\ Bounded(Current.catalog, ceiling)
      BY <1>0, CurrentRow DEF QuotaInv
    <3> QED
      BY <2>1, <3>1 DEF Bounded
  <2>2. CASE catalogRow'.catalog = editor[e].catalog /\ editor[e].phase = "replacing"
    BY <2>2 DEF QuotaInv, LimitsValid
  <2> QED
    BY <1>3, <2>1, <2>2
<1>6. /\ ceiling' \in Nat /\ ceiling <= ceiling'
      /\ (Current # Undefined => Bounded(Current.catalog, ceiling))'
      /\ Current # Undefined => Current' # Undefined
  <2>1. CASE catalogRow' # Undefined
    <3>1. /\ Highest(catalogRow'.catalog, ceiling) \in Nat
          /\ ceiling <= Highest(catalogRow'.catalog, ceiling)
          /\ Bounded(catalogRow'.catalog, Highest(catalogRow'.catalog, ceiling))
      BY <1>0, <1>4, <1>5, <2>1, HighestBounds
    <3>2. ceiling' = Highest(catalogRow'.catalog, ceiling)
      BY <1>0, <2>1
    <3>3. (Current # Undefined => Bounded(Current.catalog, ceiling))'
      BY <1>4, <2>1, <3>1, <3>2 DEF Bounded, Plans
    <3> QED
      BY <1>4, <2>1, <3>1, <3>2, <3>3
  <2>2. CASE catalogRow' = Undefined
    <3>1. catalogRow' = catalogRow /\ ceiling' = ceiling
      BY <1>0, <1>3, <2>2
    <3>2. Current' = Current
      BY <3>1 DEF Current
    <3>3. (Current # Undefined => Bounded(Current.catalog, ceiling))'
      BY <3>1, <3>2 DEF QuotaInv, Bounded, Plans
    <3> QED
      BY <1>0, <3>1, <3>2, <3>3
  <2> QED
    BY <2>1, <2>2
<1>7. ASSUME NEW x \in Editors PROVE LimitsValid(editor[x])'
  <2>1. LimitsValid(Away) /\ LimitsValid(Editing("editing", Revision, Undefined))
    BY DEF LimitsValid, Away, Editing
  <2>2. ASSUME NEW catalog \in Proposals, Valid(catalog)
        PROVE  LimitsValid(Editing("replacing", Revision, WithPolicy(catalog)))
    <3>1. WithPolicy(catalog).limits = catalog.limits
      <4>1. catalog \in Catalogs
        BY DEF Catalogs, Supplied
      <4> QED
        BY <4>1, CatalogFields DEF WithPolicy
    <3>2. \A plan \in Plans(catalog) : catalog.limits[plan] \in Int \cup {Undefined}
      BY <2>2 DEF Valid
    <3> QED
      BY <3>1, <3>2 DEF LimitsValid, Editing, Plans
  <2>3. \E w : LimitsValid(w) /\ editor' = [editor EXCEPT ![e] = w]
    <3>1. CASE LoadCatalog(e)
      BY <2>1, <3>1 DEF LoadCatalog
    <3>2. ASSUME NEW catalog \in Proposals, SendCatalog(e, catalog)
          PROVE  \E w : LimitsValid(w) /\ editor' = [editor EXCEPT ![e] = w]
      <4>1. CASE editor[e].revision = Revision /\ Valid(catalog)
        BY <2>2, <3>2, <4>1 DEF SendCatalog
      <4>2. CASE ~(editor[e].revision = Revision /\ Valid(catalog))
        BY <2>1, <3>2, <4>2 DEF SendCatalog
      <4> QED
        BY <4>1, <4>2
    <3>3. CASE ReplaceCatalog(e)
      BY <2>1, <3>3 DEF ReplaceCatalog
    <3> QED
      BY <1>0, <3>1, <3>2, <3>3 DEF Edit
  <2>4. PICK w : LimitsValid(w) /\ editor' = [editor EXCEPT ![e] = w]
    BY <2>3
  <2>5. editor'[x] = IF x = e THEN w ELSE editor[x]
    BY <1>0, <2>4
  <2>6. LimitsValid(editor'[x])
    BY <2>4, <2>5 DEF QuotaInv
  <2> QED
    BY <2>6 DEF LimitsValid, Plans
<1>8. ASSUME NEW x \in Requests PROVE RequestOK(request[x])'
  <2>1. RequestOK(request[x])
    BY DEF QuotaInv
  <2>2. \A n \in Int : n <= ceiling => n <= ceiling'
    BY <1>0, <1>6
  <2> QED
    BY <1>0, <1>6, <2>1, <2>2 DEF RequestOK
<1>9. ASSUME NEW period \in 0..MaxMonth PROVE Counted(period, ceiling)'
  <2>1. IsFiniteSet(Used(period)) /\ Cardinality(Used(period)) <= ceiling
    BY DEF QuotaInv, Counted
  <2>2. Cardinality(Used(period)) \in Nat
    BY <2>1, FS_CardinalityType
  <2>3. Used(period)' = Used(period)
    BY <1>0 DEF Used
  <2>4. Cardinality(Used(period)) <= ceiling'
    BY <1>0, <1>6, <2>1, <2>2
  <2> QED
    BY <2>1, <2>3, <2>4 DEF Counted
<1> QED
  BY <1>0, <1>1, <1>6, <1>7, <1>8, <1>9 DEF QuotaInv

(* The inductive step. *)
LEMMA QuotaStep == QuotaInv /\ [QuotaNext]_quotaVars => QuotaInv'
<1> SUFFICES ASSUME QuotaInv, [QuotaNext]_quotaVars PROVE QuotaInv'
  OBVIOUS
<1>1. ASSUME NEW e \in Editors, EditQuota(e) PROVE QuotaInv'
  BY <1>1, QuotaEdits
<1>2. ASSUME NEW q \in Requests, Serve(q) PROVE QuotaInv'
  BY <1>2, QuotaLooks, QuotaUses DEF Serve
<1>3. CASE \/ \E plan \in AllPlans : Grant(plan)
           \/ \E keys \in SUBSET Entitlements : Entitle(keys)
           \/ GrantEnds \/ NextMonth \/ UNCHANGED quotaVars
  <2>1. /\ UNCHANGED <<catalogRow, editor, ceiling, usage, request>>
        /\ [CatalogNext]_catalogVars
    BY <1>3 DEF Grant, PutGrant, Entitle, GrantEnds, NextMonth, quotaVars, catalogVars, CatalogNext
  <2>2. CatalogInv'
    BY <2>1, CatalogStep DEF QuotaInv
  <2>3. month' \in 0..MaxMonth
    BY <1>3, QuotaAssumption
       DEF Grant, Entitle, GrantEnds, NextMonth, quotaVars, QuotaInv
  <2>4. \A period \in 0..MaxMonth : Counted(period, ceiling)'
    BY <2>1, CountedStays
  <2> QED
    BY <2>1, <2>2, <2>3, <2>4, QuotaAlone DEF QuotaInv
<1> QED
  BY <1>1, <1>2, <1>3 DEF QuotaNext

(* Along every behaviour of requests over a catalog that is edited. *)
LEMMA QuotaInvariant == QuotaSpec => []QuotaInv
BY QuotaInvInit, QuotaStep, PTL DEF QuotaSpec

(***************************************************************************)
(* adapters/d1_membership_repository.ts, claimUniqueUsage: no interleaving *)
(* of claims, releases, plan changes and catalog edits counts more items   *)
(* in a period than the highest limit that was ever offered.               *)
(***************************************************************************)
THEOREM QuotasHold == QuotaSpec => []LimitKept
<1>1. QuotaInv => LimitKept
  BY DEF QuotaInv, Counted, LimitKept
<1> QED
  BY <1>1, QuotaInvariant, PTL

(* Plans that the entitlements of a catalog stand for. *)
Names(catalog) == \A key \in DOMAIN catalog.entitled : catalog.entitled[key] \in NamedPlans

CatalogTyped ==
  /\ grants \subseteq AllPlans
  /\ \A e \in Editors :
       /\ editor[e].phase \in {"away", "editing", "replacing"}
       /\ editor[e].phase = "replacing" => Names(editor[e].catalog)
  /\ Current # Undefined => Names(Current.catalog)

RequestState ==
  [phase : {"rest", "grant", "plan", "usage"}, claims : BOOLEAN, item : Items \cup {Undefined},
   month : 0..MaxMonth, plan : NamedPlans \cup {Undefined}, limit : Int \cup {Undefined}]

(* A request that is under way is about an item. *)
UsageTyped ==
  /\ granted \in grants \cup {Undefined} /\ entitled \subseteq Entitlements
  /\ usage \subseteq (0..MaxMonth) \X Items
  /\ request \in [Requests -> RequestState]
  /\ \A q \in Requests : request[q].phase # "rest" => request[q].item \in Items

(* The plans of catalogs, by the fields. *)
LEMMA PlansNamed ==
  /\ \A catalog \in Proposals : Plans(catalog) \subseteq AllPlans
  /\ AllPlans \subseteq NamedPlans
  /\ ~Declared => Names(Initial)
BY DEF AllPlans, NamedPlans, Names, Range

(* No catalog, no grant. *)
LEMMA CatalogTypedInit == CatalogInit => CatalogTyped
<1> SUFFICES ASSUME CatalogInit PROVE CatalogTyped
  OBVIOUS
<1>1. \A e \in Editors : editor[e].phase = "away"
  BY DEF CatalogInit, Away, Editing
<1>2. Current # Undefined => Names(Current.catalog)
  BY PlansNamed DEF CatalogInit, Current
<1> QED
  BY <1>1, <1>2 DEF CatalogInit, CatalogTyped

(* A replacement is validated before it is stored: its entitlements stand  *)
(* for plans it has.                                                       *)
LEMMA ReplacementNames ==
  ASSUME NEW catalog \in Proposals, Valid(catalog)
  PROVE  Names(WithPolicy(catalog))
<1>1. WithPolicy(catalog).entitled = catalog.entitled
  <2>1. catalog \in Catalogs
    BY DEF Catalogs, Supplied
  <2> QED
    BY <2>1, CatalogFields DEF WithPolicy
<1>2. Names(catalog)
  BY PlansNamed DEF Valid, PaidPlans, Names
<1> QED
  BY <1>1, <1>2 DEF Names

(* The inductive step. *)
LEMMA CatalogTypedStep ==
  CatalogInv /\ CatalogTyped /\ [CatalogNext]_catalogVars => CatalogTyped'
<1> SUFFICES ASSUME CatalogInv, CatalogTyped, [CatalogNext]_catalogVars PROVE CatalogTyped'
  OBVIOUS
<1>0. RowOK /\ RowOK' /\ DOMAIN editor = Editors /\ grants \subseteq AllPlans
  BY CatalogStep DEF CatalogInv, CatalogTyped
<1> DEFINE Fits(w) == /\ w.phase \in {"away", "editing", "replacing"}
                      /\ w.phase = "replacing" => Names(w.catalog)
<1>1. \A e \in Editors : Fits(editor[e])
  BY DEF CatalogTyped
<1>2. Fits(Away)
  BY DEF Away, Editing
<1>3. ASSUME NEW e \in Editors, NEW w, Fits(w), editor' = [editor EXCEPT ![e] = w]
      PROVE  \A x \in Editors : Fits(editor'[x])
  <2>1. \A x \in Editors : editor'[x] = IF x = e THEN w ELSE editor[x]
    BY <1>0, <1>3
  <2> HIDE DEF Fits
  <2> QED
    BY <1>1, <1>3, <2>1
<1>4. ASSUME UNCHANGED catalogRow, grants' \subseteq AllPlans,
             \A x \in Editors : Fits(editor'[x])
      PROVE  CatalogTyped'
  <2>1. Current' = Current
    BY <1>4 DEF Current
  <2>2. \A x \in Editors : Fits(editor[x])'
    BY <1>4 DEF Names
  <2>3. (Current # Undefined => Names(Current.catalog))'
    BY <2>1 DEF CatalogTyped, Names
  <2> QED
    BY <1>4, <2>2, <2>3 DEF CatalogTyped
<1>5. ASSUME NEW e \in Editors, LoadCatalog(e) PROVE CatalogTyped'
  <2>1. Fits(Editing("editing", Revision, Undefined))
    BY DEF Editing
  <2> HIDE DEF Fits
  <2> QED
    BY <1>0, <1>3, <1>4, <1>5, <2>1 DEF LoadCatalog
<1>6. ASSUME NEW e \in Editors, NEW catalog \in Proposals, SendCatalog(e, catalog)
      PROVE  CatalogTyped'
  <2>1. CASE editor[e].revision = Revision /\ Valid(catalog)
    <3> DEFINE w == Editing("replacing", Revision, WithPolicy(catalog))
    <3>1. Fits(w)
      BY <2>1, ReplacementNames DEF Editing
    <3>2. editor' = [editor EXCEPT ![e] = w] /\ UNCHANGED <<catalogRow, grants>>
      BY <1>6, <2>1 DEF SendCatalog
    <3> HIDE DEF Fits, w
    <3> QED
      BY <1>0, <1>3, <1>4, <3>1, <3>2
  <2>2. CASE ~(editor[e].revision = Revision /\ Valid(catalog))
    <3>1. editor' = [editor EXCEPT ![e] = Away] /\ UNCHANGED <<catalogRow, grants>>
      BY <1>6, <2>2 DEF SendCatalog
    <3> HIDE DEF Fits
    <3> QED
      BY <1>0, <1>2, <1>3, <1>4, <3>1
  <2> QED
    BY <2>1, <2>2
<1>7. ASSUME NEW e \in Editors, ReplaceCatalog(e) PROVE CatalogTyped'
  <2>0. editor' = [editor EXCEPT ![e] = Away] /\ UNCHANGED grants
    BY <1>7 DEF ReplaceCatalog
  <2>1. \A x \in Editors : Fits(editor'[x])
    <3> HIDE DEF Fits
    <3> QED
      BY <1>2, <1>3, <2>0
  <2>2. CASE ~Replaces(editor[e].revision, editor[e].catalog)
    <3>1. UNCHANGED catalogRow
      BY <1>7, <2>2 DEF ReplaceCatalog
    <3> HIDE DEF Fits
    <3> QED
      BY <1>0, <1>4, <2>0, <2>1, <3>1
  <2>3. CASE Replaces(editor[e].revision, editor[e].catalog)
    <3>1. Names(editor[e].catalog)
      BY <1>1, <1>7 DEF ReplaceCatalog
    <3>2. /\ catalogRow' = [revision |-> Revision + 1, catalog |-> editor[e].catalog]
          /\ catalogRow' \in [revision : 1..MaxRevision, catalog : Catalogs]
      BY <1>7, <2>3, ReplacementContinues
    <3>3. catalogRow' # Undefined
      <4>1. 1..MaxRevision \subseteq 0..MaxRevision
        BY CatalogAssumption
      <4> QED
        BY <3>2, <4>1, CatalogAssumption
    <3>4. Current' = catalogRow' /\ catalogRow'.catalog = editor[e].catalog
      BY <3>2, <3>3 DEF Current
    <3>5. (Current # Undefined => Names(Current.catalog))'
      BY <3>1, <3>4 DEF Names
    <3>6. \A x \in Editors : Fits(editor[x])'
      BY <2>1 DEF Names
    <3> QED
      BY <1>0, <2>0, <3>5, <3>6 DEF CatalogTyped
  <2> QED
    BY <2>2, <2>3
<1>8. ASSUME NEW plan \in AllPlans, PutGrant(plan) PROVE CatalogTyped'
  <2> HIDE DEF Fits
  <2> QED
    BY <1>0, <1>1, <1>4, <1>8 DEF PutGrant
<1>9. CASE UNCHANGED catalogVars
  <2> HIDE DEF Fits
  <2> QED
    BY <1>0, <1>1, <1>4, <1>9 DEF catalogVars
<1> QED
  BY <1>5, <1>6, <1>7, <1>8, <1>9 DEF CatalogNext, Edit

(* Nothing is used, and nothing asked for. *)
LEMMA UsageTypedInit == QuotaInit => UsageTyped
<1> SUFFICES ASSUME QuotaInit PROVE UsageTyped
  OBVIOUS
<1>1. AtRest \in RequestState /\ AtRest.phase = "rest"
  BY QuotaAssumption DEF AtRest, RequestState
<1> QED
  BY <1>1 DEF QuotaInit, CatalogInit, UsageTyped

(* A request turns to a typed state. *)
LEMMA UsageAnswers ==
  ASSUME UsageTyped, NEW q \in Requests, NEW w \in RequestState,
         w.phase # "rest" => w.item \in Items,
         Answers(q, w), usage' \subseteq (0..MaxMonth) \X Items
  PROVE  UsageTyped'
<1>1. request' = [request EXCEPT ![q] = w] /\ UNCHANGED <<grants, granted, entitled>>
  BY DEF Answers, catalogVars
<1>2. \A x \in Requests : request'[x] = IF x = q THEN w ELSE request[x]
  BY <1>1 DEF UsageTyped
<1>3. request' \in [Requests -> RequestState]
  BY <1>1 DEF UsageTyped
<1> QED
  BY <1>1, <1>2, <1>3 DEF UsageTyped

(* A request finds its plan, the limit of the plan, and uses it. *)
LEMMA UsageServes ==
  ASSUME QuotaInv, CatalogTyped, UsageTyped, NEW q \in Requests, Serve(q) PROVE UsageTyped'
<1>0. /\ RowOK /\ request[q] \in RequestState /\ usage \subseteq (0..MaxMonth) \X Items
      /\ request[q].phase # "rest" => request[q].item \in Items
      /\ granted \in NamedPlans \cup {Undefined} /\ month \in 0..MaxMonth
      /\ RequestOK(request[q])
  BY PlansNamed DEF CatalogTyped, UsageTyped, QuotaInv, CatalogInv
<1>1. AtRest \in RequestState /\ AtRest.phase = "rest"
  BY QuotaAssumption DEF AtRest, RequestState
<1>2. CASE Answers(q, AtRest) /\ usage' \subseteq (0..MaxMonth) \X Items
  BY <1>1, <1>2, UsageAnswers
<1>3. ASSUME NEW claims \in BOOLEAN, NEW item \in Items, Call(q, claims, item) PROVE UsageTyped'
  <2> DEFINE w == [AtRest EXCEPT !.phase = "grant", !.claims = claims, !.item = item,
                                 !.month = month]
  <2>1. w \in RequestState /\ w.item = item
    BY <1>0 DEF AtRest, RequestState
  <2>2. Answers(q, w) /\ UNCHANGED usage
    BY <1>3 DEF Call
  <2> HIDE DEF w
  <2> QED
    BY <1>0, <2>1, <2>2, UsageAnswers
<1>4. ASSUME NEW plan \in NamedPlans \cup {Undefined}, request[q].phase # "rest",
             Answers(q, [request[q] EXCEPT !.phase = "plan", !.plan = plan]), UNCHANGED usage
      PROVE  UsageTyped'
  <2> DEFINE w == [request[q] EXCEPT !.phase = "plan", !.plan = plan]
  <2>1. w \in RequestState /\ w.item = request[q].item
    BY <1>0 DEF RequestState
  <2> HIDE DEF w
  <2> QED
    BY <1>0, <1>4, <2>1, UsageAnswers DEF w
<1>5. CASE ActiveGrant(q)
  <2>1. CASE Current # Undefined
    <3>1. PICK plan \in IF Entitling(Current.catalog) = {} THEN {granted}
                        ELSE Entitling(Current.catalog) :
            Answers(q, [request[q] EXCEPT !.phase = "plan", !.plan = plan])
      BY <1>5, <2>1 DEF ActiveGrant
    <3>2. Entitling(Current.catalog) \subseteq NamedPlans
      BY <2>1 DEF Entitling, CatalogTyped, Names
    <3>3. plan \in NamedPlans \cup {Undefined}
      BY <1>0, <3>1, <3>2
    <3> QED
      BY <1>4, <1>5, <3>1, <3>3 DEF ActiveGrant
  <2>2. CASE Current = Undefined
    BY <1>0, <1>2, <1>5, <2>2 DEF ActiveGrant
  <2> QED
    BY <2>1, <2>2
<1>6. CASE PlanFor(q)
  <2> DEFINE plan == IF request[q].plan = Undefined THEN Current.catalog.free ELSE request[q].plan
             limit == Current.catalog.limits[plan]
  <2>1. CASE plan \notin Plans(Current.catalog) \/ limit = Undefined
    BY <1>0, <1>2, <1>6, <2>1 DEF PlanFor
  <2>2. CASE plan \in Plans(Current.catalog) /\ limit # Undefined
    <3> DEFINE w == [request[q] EXCEPT !.phase = "usage", !.limit = limit]
    <3>1. Answers(q, w) /\ UNCHANGED usage /\ request[q].phase = "plan"
      BY <1>6, <2>2 DEF PlanFor
    <3>2. limit \in Int
      BY <1>0, <2>2, <3>1 DEF QuotaInv, Bounded, RequestOK
    <3> HIDE DEF limit
    <3>3. w \in RequestState /\ w.item = request[q].item
      BY <1>0, <3>2 DEF RequestState
    <3> HIDE DEF w
    <3> QED
      BY <1>0, <3>1, <3>3, UsageAnswers
  <2> QED
    BY <2>1, <2>2
<1>7. CASE ClaimUsage(q)
  <2>1. <<Period(q), request[q].item>> \in (0..MaxMonth) \X Items
    BY <1>0, <1>7, QuotaAssumption DEF ClaimUsage, Period, RequestState
  <2> QED
    BY <1>0, <1>2, <1>7, <2>1 DEF ClaimUsage
<1>8. CASE ReleaseUsage(q)
  BY <1>0, <1>2, <1>8 DEF ReleaseUsage
<1> QED
  BY <1>3, <1>5, <1>6, <1>7, <1>8 DEF Serve

(* The inductive step. *)
LEMMA UsageTypedStep ==
  QuotaInv /\ CatalogTyped /\ UsageTyped /\ [QuotaNext]_quotaVars => UsageTyped'
<1> SUFFICES ASSUME QuotaInv, CatalogTyped, UsageTyped, [QuotaNext]_quotaVars
             PROVE  UsageTyped'
  OBVIOUS
<1>1. ASSUME NEW q \in Requests, Serve(q) PROVE UsageTyped'
  BY <1>1, UsageServes
<1>2. CASE ~\E q \in Requests : Serve(q)
  <2>1. UNCHANGED <<usage, request>> /\ grants \subseteq grants'
    BY <1>2 DEF QuotaNext, EditQuota, Edit, LoadCatalog, SendCatalog, ReplaceCatalog, catalogOnly,
                Grant, PutGrant, GrantEnds, Entitle, NextMonth, quotaVars, catalogVars
  <2>2. granted' \in grants' \cup {Undefined} /\ entitled' \subseteq Entitlements
    BY <1>2, <2>1
       DEF QuotaNext, EditQuota, catalogOnly, Grant, PutGrant, GrantEnds, Entitle, NextMonth,
           quotaVars, catalogVars, UsageTyped
  <2> QED
    BY <2>1, <2>2 DEF UsageTyped
<1> QED
  BY <1>1, <1>2

(* A step of quotas leaves the catalog alone or is one of the catalog. *)
LEMMA QuotaStepsOnCatalog == [QuotaNext]_quotaVars => [CatalogNext]_catalogVars
<1> SUFFICES ASSUME [QuotaNext]_quotaVars PROVE [CatalogNext]_catalogVars
  OBVIOUS
<1>1. ASSUME NEW q \in Requests, Serve(q) PROVE UNCHANGED catalogVars
  BY <1>1 DEF Serve, Call, ActiveGrant, PlanFor, ClaimUsage, ReleaseUsage, Answers
<1>2. CASE GrantEnds \/ NextMonth \/ UNCHANGED quotaVars \/ \E keys \in SUBSET Entitlements : Entitle(keys)
  BY <1>2 DEF GrantEnds, NextMonth, Entitle, quotaVars
<1> QED
  BY <1>1, <1>2 DEF QuotaNext, EditQuota, Grant, CatalogNext

-----------------------------------------------------------------------------
(* Tabs (AdminTabs.tla)                                                    *)

Signing(t)  == tab[t].phase = "signIn"
Renewing(t) == tab[t].phase \in {"renew", "answer"}
Unsent(t)   == tab[t].phase \in {"signIn", "renew"}

(* A tab renews under the lock. *)
RenewsLocked == \A t \in Tabs : Renewing(t) => lock = t

(* A credential in use was issued, and its login was not signed out. *)
Genuine(c) == c.token <= issued /\ c.login <= issued /\ c.login \notin ended

HeldCurrent ==
  \A t \in Tabs : Signing(t) \/ Renewing(t) => tab[t].held # NoLogin /\ Genuine(tab[t].held)

StoredCurrent == credential # NoLogin => Genuine(credential) /\ sent[credential.token] = 0

(* The tokens and logins to come were not used. *)
FutureUnused == \A n \in 1..MaxTokens : n > issued => sent[n] = 0 /\ n \notin ended

(* A token that is still to be sent is in one place only. *)
UnsentOnce ==
  \A t \in Tabs : Unsent(t) =>
    /\ sent[tab[t].held.token] = 0
    /\ credential # NoLogin => credential.token # tab[t].held.token
    /\ \A u \in Tabs : Unsent(u) /\ u # t => tab[u].held.token # tab[t].held.token

(* A login that waits to be stored is in one place only. *)
NewLoginOnce ==
  \A t \in Tabs : Signing(t) =>
    /\ credential # NoLogin => credential.login # tab[t].held.login
    /\ \A u \in Tabs : (Signing(u) \/ Renewing(u)) /\ u # t
                         => tab[u].held.login # tab[t].held.login

TabsInv ==
  /\ TabsTypeOK
  /\ RenewsLocked
  /\ HeldCurrent
  /\ StoredCurrent
  /\ FutureUnused
  /\ UnsentOnce
  /\ NewLoginOnce
  /\ RefreshTokenUsedOnce

(* A browser without logins. *)
LEMMA TabsInvInit == TabsInit => TabsInv
BY TabsAssumption
   DEF TabsInit, TabsInv, TabsTypeOK, RenewsLocked, HeldCurrent, StoredCurrent,
       FutureUnused, UnsentOnce, NewLoginOnce, RefreshTokenUsedOnce, Genuine,
       Signing, Renewing, Unsent, Blank, Credentials

(* A stored credential is one. *)
LEMMA CredentialType ==
  ASSUME NEW n \in 1..MaxTokens, NEW m \in 1..MaxTokens
  PROVE  /\ Credential(n, m) \in Credentials \ {NoLogin}
         /\ Credential(n, m).token = n /\ Credential(n, m).login = m
<1>1. Credential(n, m) \in [token : 1..MaxTokens, login : 1..MaxTokens, fresh : BOOLEAN]
  BY DEF Credential
<1> QED
  BY <1>1, TabsAssumption DEF Credential, Credentials

(* A tab that neither takes nor holds a credential disturbs nothing. *)
LEMMA TabIdles ==
  ASSUME TabsInv, NEW t \in Tabs, NEW next,
         next \in [phase : {"blank", "signOut"}, attempt : BOOLEAN, held : Credentials],
         tab' = [tab EXCEPT ![t] = next],
         lock' = lock \/ (lock = t /\ lock' = NoLogin),
         UNCHANGED <<credential, issued, sent, ended>>
  PROVE  TabsInv'
<1>1. \A u \in Tabs : tab'[u] = IF u = t THEN next ELSE tab[u]
  BY DEF TabsInv, TabsTypeOK
<1>2. \A u \in Tabs : /\ Signing(u)' => Signing(u) /\ tab'[u] = tab[u] /\ u # t
                      /\ Renewing(u)' => Renewing(u) /\ tab'[u] = tab[u] /\ u # t
                      /\ Unsent(u)' => Unsent(u) /\ tab'[u] = tab[u] /\ u # t
  BY <1>1 DEF Signing, Renewing, Unsent
<1>3. TabsTypeOK'
  BY DEF TabsInv, TabsTypeOK
<1>4. RenewsLocked'
  BY <1>2 DEF TabsInv, RenewsLocked
<1>5. HeldCurrent'
  BY <1>2 DEF TabsInv, HeldCurrent, Genuine
<1>6. StoredCurrent' /\ FutureUnused' /\ RefreshTokenUsedOnce'
  BY DEF TabsInv, StoredCurrent, FutureUnused, RefreshTokenUsedOnce, Genuine
<1>7. UnsentOnce' /\ NewLoginOnce'
  BY <1>2 DEF TabsInv, UnsentOnce, NewLoginOnce
<1> QED
  BY <1>3, <1>4, <1>5, <1>6, <1>7 DEF TabsInv

(* What a tab that changes comes to hold, in the terms of the invariant.   *)
LEMMA TabTurns ==
  ASSUME TabsInv, NEW t \in Tabs, NEW next,
         next \in [phase : {"blank", "signIn", "signOut", "renew", "answer"},
                   attempt : BOOLEAN, held : Credentials],
         tab' = [tab EXCEPT ![t] = next]
  PROVE  /\ \A u \in Tabs : tab'[u] = IF u = t THEN next ELSE tab[u]
         /\ tab' \in [Tabs -> [phase : {"blank", "signIn", "signOut", "renew", "answer"},
                               attempt : BOOLEAN, held : Credentials]]
         /\ \A u \in Tabs : u # t => /\ Signing(u)' <=> Signing(u)
                                     /\ Renewing(u)' <=> Renewing(u)
                                     /\ Unsent(u)' <=> Unsent(u)
         /\ Signing(t)' <=> next.phase = "signIn"
         /\ Renewing(t)' <=> next.phase \in {"renew", "answer"}
         /\ Unsent(t)' <=> next.phase \in {"signIn", "renew"}
<1>1. \A u \in Tabs : tab'[u] = IF u = t THEN next ELSE tab[u]
  BY DEF TabsInv, TabsTypeOK
<1>2. tab' \in [Tabs -> [phase : {"blank", "signIn", "signOut", "renew", "answer"},
                         attempt : BOOLEAN, held : Credentials]]
  BY DEF TabsInv, TabsTypeOK
<1> QED
  BY <1>1, <1>2 DEF Signing, Renewing, Unsent

(* The access token ages. *)
LEMMA TabsWither == ASSUME TabsInv, Wither PROVE TabsInv'
<1> DEFINE c == [credential EXCEPT !.fresh = FALSE]
<1>1. credential \in [token : 1..MaxTokens, login : 1..MaxTokens, fresh : BOOLEAN]
  BY DEF Wither, TabsInv, TabsTypeOK, Credentials
<1>2. /\ c \in [token : 1..MaxTokens, login : 1..MaxTokens, fresh : BOOLEAN]
      /\ c.token = credential.token /\ c.login = credential.login
  BY <1>1
<1>3. credential' = c /\ UNCHANGED <<lock, tab, issued, sent, ended>> /\ credential # NoLogin
  BY DEF Wither
<1> HIDE DEF c
<1>4. c \in Credentials
  BY <1>2 DEF Credentials
<1>5. TabsTypeOK'
  BY <1>3, <1>4 DEF TabsInv, TabsTypeOK
<1>6. StoredCurrent'
  BY <1>2, <1>3 DEF TabsInv, StoredCurrent, Genuine
<1>7. UnsentOnce' /\ NewLoginOnce'
  BY <1>2, <1>3 DEF TabsInv, UnsentOnce, NewLoginOnce, Unsent, Signing, Renewing
<1>8. (RenewsLocked /\ HeldCurrent /\ FutureUnused /\ RefreshTokenUsedOnce)'
  BY <1>3 DEF TabsInv, RenewsLocked, HeldCurrent, FutureUnused, RefreshTokenUsedOnce,
              Genuine, Signing, Renewing
<1> QED
  BY <1>5, <1>6, <1>7, <1>8 DEF TabsInv

(* A code is exchanged: a token and a login that nobody had.               *)
LEMMA TabsCallback == ASSUME TabsInv, NEW t \in Tabs, Callback(t) PROVE TabsInv'
<1> DEFINE n    == issued + 1
           next == [phase |-> "signIn", attempt |-> FALSE, held |-> Credential(n, n)]
<1>1. n \in 1..MaxTokens /\ issued \in Nat /\ n > issued
  BY TabsAssumption DEF Callback, TabsInv, TabsTypeOK
<1>2. issued' = n /\ UNCHANGED <<credential, lock, sent, ended>>
  BY DEF Callback
<1> HIDE DEF n
<1>3. /\ next.held \in Credentials /\ next.held # NoLogin
      /\ next.held.token = n /\ next.held.login = n
      /\ next.phase = "signIn"
  BY <1>1, CredentialType
<1>4. next \in [phase : {"blank", "signIn", "signOut", "renew", "answer"},
                attempt : BOOLEAN, held : Credentials]
  BY <1>3
<1>5. tab' = [tab EXCEPT ![t] = next]
  BY DEF Callback, n
<1> HIDE DEF next
<1>6. /\ \A u \in Tabs : tab'[u] = IF u = t THEN next ELSE tab[u]
      /\ \A u \in Tabs : u # t => /\ Signing(u)' <=> Signing(u)
                                  /\ Renewing(u)' <=> Renewing(u)
                                  /\ Unsent(u)' <=> Unsent(u)
      /\ ~Renewing(t)'
  BY <1>3, <1>4, <1>5, TabTurns
<1>7. TabsTypeOK'
  BY <1>1, <1>2, <1>4, <1>5, TabTurns DEF TabsInv, TabsTypeOK
<1>8. sent[n] = 0 /\ n \notin ended /\ \A m \in 1..MaxTokens : m > n => m > issued
  BY <1>1 DEF TabsInv, FutureUnused
<1>9. \A c \in Credentials \ {NoLogin} : Genuine(c) => c.token # n /\ c.login # n /\ Genuine(c)'
  <2>1. \A c \in Credentials \ {NoLogin} : c.token \in Nat /\ c.login \in Nat
    BY DEF Credentials
  <2> QED
    BY <1>1, <1>2, <2>1 DEF Genuine
<1>10. \A u \in Tabs : tab[u].held \in Credentials
  BY DEF TabsInv, TabsTypeOK
<1>11. credential # NoLogin => credential.token # n /\ credential.login # n /\ Genuine(credential)'
  BY <1>2, <1>9 DEF TabsInv, StoredCurrent, TabsTypeOK, Genuine
<1>12. \A u \in Tabs : Signing(u) \/ Renewing(u) =>
          /\ tab[u].held # NoLogin
          /\ tab[u].held.token # n /\ tab[u].held.login # n
          /\ tab[u].held.token <= n /\ tab[u].held.login <= n
          /\ tab[u].held.login \notin ended
  BY <1>2, <1>9, <1>10 DEF TabsInv, HeldCurrent, Genuine
<1>13. \A u \in Tabs : Unsent(u) => Signing(u) \/ Renewing(u)
  BY DEF Unsent, Signing, Renewing
<1>14. RenewsLocked' /\ FutureUnused' /\ RefreshTokenUsedOnce'
  BY <1>2, <1>6, <1>8 DEF TabsInv, RenewsLocked, FutureUnused, RefreshTokenUsedOnce
<1>15. StoredCurrent'
  BY <1>2, <1>11 DEF TabsInv, StoredCurrent, Genuine
<1>16. HeldCurrent'
  BY <1>1, <1>2, <1>3, <1>6, <1>8, <1>12 DEF HeldCurrent, Genuine
<1>17. UnsentOnce'
  BY <1>2, <1>3, <1>6, <1>8, <1>11, <1>12, <1>13 DEF TabsInv, UnsentOnce
<1>18. NewLoginOnce'
  BY <1>2, <1>3, <1>6, <1>11, <1>12 DEF TabsInv, NewLoginOnce
<1> QED
  BY <1>7, <1>14, <1>15, <1>16, <1>17, <1>18 DEF TabsInv

(* What a login brought is stored, in the place of what was there.         *)
LEMMA TabsSignIn == ASSUME TabsInv, NEW t \in Tabs, SignIn(t) PROVE TabsInv'
<1>1. /\ Signing(t) /\ Unsent(t) /\ credential' = tab[t].held
      /\ tab' = [tab EXCEPT ![t] = Blank]
      /\ UNCHANGED <<lock, issued, sent, ended>>
  BY DEF SignIn, Signing, Unsent
<1>2. /\ \A u \in Tabs : tab'[u] = IF u = t THEN Blank ELSE tab[u]
      /\ \A u \in Tabs : /\ Signing(u)' <=> Signing(u) /\ u # t
                         /\ Renewing(u)' <=> Renewing(u) /\ u # t
                         /\ Unsent(u)' <=> Unsent(u) /\ u # t
  BY <1>1 DEF TabsInv, TabsTypeOK, Blank, Signing, Renewing, Unsent
<1>3. TabsTypeOK'
  BY <1>1 DEF TabsInv, TabsTypeOK, Blank, Credentials
<1>4. RenewsLocked' /\ FutureUnused' /\ RefreshTokenUsedOnce'
  BY <1>1, <1>2 DEF TabsInv, RenewsLocked, FutureUnused, RefreshTokenUsedOnce
<1>5. StoredCurrent'
  BY <1>1 DEF TabsInv, StoredCurrent, HeldCurrent, UnsentOnce, Genuine
<1>6. HeldCurrent'
  BY <1>1, <1>2 DEF TabsInv, HeldCurrent, Genuine
<1>7. UnsentOnce' /\ NewLoginOnce'
  BY <1>1, <1>2 DEF TabsInv, UnsentOnce, NewLoginOnce
<1> QED
  BY <1>3, <1>4, <1>5, <1>6, <1>7 DEF TabsInv

(* A sign-out meets no renewal, so it ends the stored login only.          *)
LEMMA TabsSignOut == ASSUME TabsInv, NEW t \in Tabs, SignOut(t) PROVE TabsInv'
<1>1. /\ tab[t].phase = "signOut" /\ credential' = NoLogin
      /\ ended' = ended \cup Present
      /\ tab' = [tab EXCEPT ![t] = Blank]
      /\ UNCHANGED <<lock, issued, sent>>
  BY DEF SignOut
<1>2. /\ \A u \in Tabs : tab'[u] = IF u = t THEN Blank ELSE tab[u]
      /\ \A u \in Tabs : /\ Signing(u)' <=> Signing(u)
                         /\ Renewing(u)' <=> Renewing(u)
                         /\ Unsent(u)' <=> Unsent(u)
                         /\ Signing(u) \/ Renewing(u) \/ Unsent(u) => u # t
  BY <1>1 DEF TabsInv, TabsTypeOK, Blank, Signing, Renewing, Unsent
<1>3. \A u \in Tabs : ~Renewing(u)
  BY TabsAssumption DEF TabsInv, RenewsLocked, SignOut
<1>4. \A n \in ended' : n \in ended \/ (credential # NoLogin /\ n = credential.login)
  BY <1>1, <1>3 DEF Present, Renewing
<1>5. credential # NoLogin => credential.login \in 1..MaxTokens /\ credential.login <= issued
  BY DEF TabsInv, TabsTypeOK, Credentials, StoredCurrent, Genuine
<1>6. TabsTypeOK'
  <2>1. ended' \subseteq 1..MaxTokens
    BY <1>4, <1>5 DEF TabsInv, TabsTypeOK
  <2> QED
    BY <1>1, <2>1 DEF TabsInv, TabsTypeOK, Blank, Credentials
<1>7. RenewsLocked' /\ RefreshTokenUsedOnce' /\ StoredCurrent'
  BY <1>1, <1>2, <1>3 DEF TabsInv, RenewsLocked, RefreshTokenUsedOnce, StoredCurrent
<1>8. FutureUnused'
  <2>1. \A n \in 1..MaxTokens : n > issued /\ credential # NoLogin => n # credential.login
    BY <1>5 DEF TabsInv, TabsTypeOK
  <2> QED
    BY <1>1, <1>4, <2>1 DEF TabsInv, FutureUnused
<1>9. HeldCurrent'
  BY <1>1, <1>2, <1>3, <1>4 DEF TabsInv, HeldCurrent, NewLoginOnce, Genuine
<1>10. UnsentOnce' /\ NewLoginOnce'
  BY <1>1, <1>2 DEF TabsInv, UnsentOnce, NewLoginOnce
<1> QED
  BY <1>6, <1>7, <1>8, <1>9, <1>10 DEF TabsInv

(* The credential leaves the storage for the tab that has the lock.        *)
LEMMA TabsRenew == ASSUME TabsInv, NEW t \in Tabs, Renew(t) PROVE TabsInv'
<1> DEFINE next == [tab[t] EXCEPT !.phase = "renew", !.held = credential]
<1>1. /\ tab[t].phase = "blank" /\ lock = NoLogin /\ credential # NoLogin
      /\ lock' = t /\ credential' = NoLogin
      /\ tab' = [tab EXCEPT ![t] = next]
      /\ UNCHANGED <<issued, sent, ended>>
  BY DEF Renew
<1>2. /\ next \in [phase : {"blank", "signIn", "signOut", "renew", "answer"},
                   attempt : BOOLEAN, held : Credentials]
      /\ next.phase = "renew" /\ next.held = credential
  BY DEF TabsInv, TabsTypeOK
<1> HIDE DEF next
<1>3. /\ \A u \in Tabs : tab'[u] = IF u = t THEN next ELSE tab[u]
      /\ \A u \in Tabs : u # t => /\ Signing(u)' <=> Signing(u)
                                  /\ Renewing(u)' <=> Renewing(u)
                                  /\ Unsent(u)' <=> Unsent(u)
      /\ Renewing(t)' /\ Unsent(t)' /\ ~Signing(t)'
  BY <1>1, <1>2, TabTurns
<1>4. \A u \in Tabs : ~Renewing(u)
  BY <1>1, TabsAssumption DEF TabsInv, RenewsLocked
<1>5. TabsTypeOK'
  BY <1>1, <1>2, TabTurns DEF TabsInv, TabsTypeOK, Credentials
<1>6. RenewsLocked' /\ FutureUnused' /\ RefreshTokenUsedOnce' /\ StoredCurrent'
  BY <1>1, <1>3, <1>4
  DEF TabsInv, RenewsLocked, FutureUnused, RefreshTokenUsedOnce, StoredCurrent
<1>7. HeldCurrent'
  BY <1>1, <1>2, <1>3 DEF TabsInv, HeldCurrent, StoredCurrent, Genuine
<1>8. UnsentOnce'
  BY <1>1, <1>2, <1>3 DEF TabsInv, UnsentOnce, StoredCurrent
<1>9. NewLoginOnce'
  BY <1>1, <1>2, <1>3 DEF TabsInv, NewLoginOnce
<1> QED
  BY <1>5, <1>6, <1>7, <1>8, <1>9 DEF TabsInv

(* The token is sent: it was in this tab only, and was not sent before.    *)
LEMMA TabsSend == ASSUME TabsInv, NEW t \in Tabs, SendRefresh(t) PROVE TabsInv'
<1> DEFINE next == [tab[t] EXCEPT !.phase = "answer"]
           n    == tab[t].held.token
<1>1. /\ Renewing(t) /\ Unsent(t) /\ sent' = [sent EXCEPT ![n] = @ + 1]
      /\ tab' = [tab EXCEPT ![t] = next]
      /\ UNCHANGED <<credential, lock, issued, ended>>
  BY DEF SendRefresh, Renewing, Unsent
<1>2. /\ next \in [phase : {"blank", "signIn", "signOut", "renew", "answer"},
                   attempt : BOOLEAN, held : Credentials]
      /\ next.phase = "answer" /\ next.held = tab[t].held
  BY DEF TabsInv, TabsTypeOK
<1>3. n \in 1..MaxTokens /\ sent[n] = 0 /\ n <= issued
  BY <1>1 DEF TabsInv, TabsTypeOK, Credentials, HeldCurrent, UnsentOnce, Genuine
<1> HIDE DEF next
<1>4. /\ \A u \in Tabs : tab'[u] = IF u = t THEN next ELSE tab[u]
      /\ \A u \in Tabs : u # t => /\ Signing(u)' <=> Signing(u)
                                  /\ Renewing(u)' <=> Renewing(u)
                                  /\ Unsent(u)' <=> Unsent(u)
      /\ Renewing(t)' /\ ~Unsent(t)' /\ ~Signing(t)'
  BY <1>1, <1>2, TabTurns
<1>5. sent' \in [1..MaxTokens -> Nat] /\ sent'[n] = 1
  BY <1>1, <1>3 DEF TabsInv, TabsTypeOK
<1>6. \A m \in 1..MaxTokens : m # n => sent'[m] = sent[m]
  BY <1>1 DEF TabsInv, TabsTypeOK
<1>7. TabsTypeOK'
  BY <1>1, <1>2, <1>5, TabTurns DEF TabsInv, TabsTypeOK
<1>8. RenewsLocked'
  BY <1>1, <1>4 DEF TabsInv, RenewsLocked
<1>9. FutureUnused'
  <2>1. \A m \in 1..MaxTokens : m > issued => m # n
    BY <1>3 DEF TabsInv, TabsTypeOK
  <2> QED
    BY <1>1, <1>6, <2>1 DEF TabsInv, FutureUnused
<1>10. RefreshTokenUsedOnce'
  BY <1>5, <1>6 DEF TabsInv, RefreshTokenUsedOnce
<1>11. HeldCurrent'
  BY <1>1, <1>2, <1>4 DEF TabsInv, HeldCurrent, Genuine
<1>12. StoredCurrent'
  <2>1. credential # NoLogin => credential.token \in 1..MaxTokens /\ credential.token # n
    BY <1>1 DEF TabsInv, TabsTypeOK, Credentials, UnsentOnce
  <2> QED
    BY <1>1, <1>6, <2>1 DEF TabsInv, StoredCurrent, Genuine
<1>13. UnsentOnce'
  <2>1. \A u \in Tabs : u # t /\ Unsent(u) =>
           /\ tab[u].held.token \in 1..MaxTokens
           /\ tab[u].held.token # n
    <3>1. \A u \in Tabs : Unsent(u) => tab[u].held # NoLogin
      BY DEF TabsInv, HeldCurrent, Unsent, Signing, Renewing
    <3>2. \A u \in Tabs : Unsent(u) => tab[u].held.token \in 1..MaxTokens
      BY <3>1 DEF TabsInv, TabsTypeOK, Credentials
    <3> QED
      BY <1>1, <3>2 DEF TabsInv, UnsentOnce
  <2> QED
    BY <1>1, <1>4, <1>6, <2>1 DEF TabsInv, UnsentOnce
<1>14. NewLoginOnce'
  BY <1>1, <1>2, <1>4 DEF TabsInv, NewLoginOnce
<1> QED
  BY <1>7, <1>8, <1>9, <1>10, <1>11, <1>12, <1>13, <1>14 DEF TabsInv

(* The answer stores a token nobody had, for the login that was renewed.   *)
LEMMA TabsRenewed == ASSUME TabsInv, NEW t \in Tabs, Renewed(t) PROVE TabsInv'
<1> DEFINE n    == issued + 1
           l    == tab[t].held.login
           next == [tab[t] EXCEPT !.phase = "blank", !.held = NoLogin]
<1>1. /\ Renewing(t) /\ lock = t /\ lock' = NoLogin /\ issued' = n
      /\ credential' = Credential(n, l)
      /\ tab' = [tab EXCEPT ![t] = next]
      /\ UNCHANGED <<sent, ended>>
  BY DEF Renewed, Renewing, TabsInv, RenewsLocked
<1>2. n \in 1..MaxTokens /\ issued \in Nat /\ n > issued
  BY TabsAssumption DEF Renewed, TabsInv, TabsTypeOK
<1>3. l \in 1..MaxTokens /\ l <= issued /\ l \notin ended
  BY <1>1 DEF TabsInv, TabsTypeOK, Credentials, HeldCurrent, Genuine
<1>4. next \in [phase : {"blank", "signIn", "signOut", "renew", "answer"},
                attempt : BOOLEAN, held : Credentials]
      /\ next.phase = "blank"
  BY DEF TabsInv, TabsTypeOK, Credentials
<1> HIDE DEF next, n
<1>5. /\ \A u \in Tabs : tab'[u] = IF u = t THEN next ELSE tab[u]
      /\ \A u \in Tabs : u # t => /\ Signing(u)' <=> Signing(u)
                                  /\ Renewing(u)' <=> Renewing(u)
                                  /\ Unsent(u)' <=> Unsent(u)
      /\ ~Renewing(t)' /\ ~Unsent(t)' /\ ~Signing(t)'
  BY <1>1, <1>4, TabTurns
<1>6. \A u \in Tabs : Renewing(u) => u = t
  BY <1>1 DEF TabsInv, RenewsLocked
<1>7. /\ credential' \in Credentials /\ credential' # NoLogin
      /\ credential'.token = n /\ credential'.login = l
  BY <1>1, <1>2, <1>3, CredentialType
<1>8. TabsTypeOK'
  BY <1>1, <1>2, <1>4, <1>7, TabTurns DEF TabsInv, TabsTypeOK
<1>9. sent[n] = 0 /\ \A m \in 1..MaxTokens : m > n => m > issued
  BY <1>2 DEF TabsInv, FutureUnused
<1>10. RenewsLocked' /\ FutureUnused' /\ RefreshTokenUsedOnce'
  BY <1>1, <1>5, <1>6, <1>9 DEF TabsInv, RenewsLocked, FutureUnused, RefreshTokenUsedOnce
<1>11. StoredCurrent'
  BY <1>1, <1>2, <1>3, <1>7, <1>9 DEF StoredCurrent, Genuine
<1>12. \A u \in Tabs : Signing(u) \/ Renewing(u) =>
          /\ tab[u].held # NoLogin /\ tab[u].held.login \notin ended
          /\ tab[u].held.token \in 1..MaxTokens /\ tab[u].held.login \in 1..MaxTokens
          /\ tab[u].held.token <= issued /\ tab[u].held.login <= issued
  BY DEF TabsInv, TabsTypeOK, Credentials, HeldCurrent, Genuine
<1>13. \A u \in Tabs : Signing(u) \/ Renewing(u) =>
          /\ tab[u].held.token < n /\ tab[u].held.token # n
          /\ tab[u].held.login <= n /\ tab[u].held.token <= n
  BY <1>2, <1>12
<1>14. HeldCurrent'
  BY <1>1, <1>5, <1>12, <1>13 DEF HeldCurrent, Genuine
<1>15. UnsentOnce'
  <2>1. \A u \in Tabs : Unsent(u) => Signing(u) \/ Renewing(u)
    BY DEF Unsent, Signing, Renewing
  <2> QED
    BY <1>1, <1>5, <1>7, <1>13, <2>1 DEF TabsInv, UnsentOnce
<1>16. NewLoginOnce'
  BY <1>1, <1>5, <1>7 DEF TabsInv, NewLoginOnce
<1> QED
  BY <1>8, <1>10, <1>11, <1>14, <1>15, <1>16 DEF TabsInv

(* The other steps only make a tab let go. *)
LEMMA TabsRest ==
  ASSUME TabsInv, NEW t \in Tabs,
         Authorize(t) \/ CallbackFails(t) \/ AskToSignOut(t) \/ RenewFails(t) \/ CloseTab(t)
  PROVE  TabsInv'
<1>0. tab[t] \in [phase : {"blank", "signIn", "signOut", "renew", "answer"},
                  attempt : BOOLEAN, held : Credentials]
  BY DEF TabsInv, TabsTypeOK
<1>1. PICK next \in [phase : {"blank", "signOut"}, attempt : BOOLEAN, held : Credentials] :
        tab' = [tab EXCEPT ![t] = next]
  <2>1. CASE Authorize(t)
    <3>1. /\ [tab[t] EXCEPT !.attempt = TRUE]
               \in [phase : {"blank", "signOut"}, attempt : BOOLEAN, held : Credentials]
          /\ tab' = [tab EXCEPT ![t] = [tab[t] EXCEPT !.attempt = TRUE]]
      BY <1>0, <2>1 DEF Authorize
    <3> QED
      BY <3>1
  <2>2. CASE CallbackFails(t)
    <3>1. /\ [tab[t] EXCEPT !.attempt = FALSE]
               \in [phase : {"blank", "signOut"}, attempt : BOOLEAN, held : Credentials]
          /\ tab' = [tab EXCEPT ![t] = [tab[t] EXCEPT !.attempt = FALSE]]
      BY <1>0, <2>2 DEF CallbackFails
    <3> QED
      BY <3>1
  <2>3. CASE AskToSignOut(t)
    BY <2>3 DEF AskToSignOut, Blank, Credentials
  <2>4. CASE RenewFails(t)
    <3>1. /\ [tab[t] EXCEPT !.phase = "blank", !.held = NoLogin]
               \in [phase : {"blank", "signOut"}, attempt : BOOLEAN, held : Credentials]
          /\ tab' = [tab EXCEPT ![t] = [tab[t] EXCEPT !.phase = "blank", !.held = NoLogin]]
      BY <1>0, <2>4 DEF RenewFails, Credentials
    <3> QED
      BY <3>1
  <2>5. CASE CloseTab(t)
    BY <2>5 DEF CloseTab, Blank, Credentials
  <2> QED
    BY <2>1, <2>2, <2>3, <2>4, <2>5
<1>2. /\ lock' = lock \/ (lock = t /\ lock' = NoLogin)
      /\ UNCHANGED <<credential, issued, sent, ended>>
  BY DEF Authorize, CallbackFails, AskToSignOut, RenewFails, CloseTab, TabsInv, RenewsLocked, Renewing
<1> QED
  BY <1>1, <1>2, TabIdles

(* Every step preserves the invariant. *)
LEMMA TabsStep == TabsInv /\ [TabsNext]_tabVars => TabsInv'
<1> SUFFICES ASSUME TabsInv, [TabsNext]_tabVars PROVE TabsInv'
  OBVIOUS
<1>1. CASE UNCHANGED tabVars
  BY <1>1 DEF tabVars, TabsInv, TabsTypeOK, RenewsLocked, HeldCurrent, StoredCurrent,
              FutureUnused, UnsentOnce, NewLoginOnce, RefreshTokenUsedOnce, Genuine,
              Signing, Renewing, Unsent
<1> QED
  BY <1>1, TabsWither, TabsCallback, TabsSignIn, TabsSignOut, TabsRenew, TabsSend,
     TabsRenewed, TabsRest DEF TabsNext

(* However tabs interleave, crash or lose answers, a refresh token is sent *)
(* to the provider at most once.                                           *)
THEOREM NoTokenIsReplayed == TabsSpec => []RefreshTokenUsedOnce
<1>1. TabsInv => RefreshTokenUsedOnce
  BY DEF TabsInv
<1> QED
  BY <1>1, TabsInvInit, TabsStep, PTL DEF TabsSpec

(* No tab stores a credential of a login that was signed out. *)
THEOREM SignOutIsFinal == TabsSpec => []SignedOutStaysOut
<1>1. TabsInv => SignedOutStaysOut
  BY DEF TabsInv, StoredCurrent, Genuine, SignedOutStaysOut
<1> QED
  BY <1>1, TabsInvInit, TabsStep, PTL DEF TabsSpec

-----------------------------------------------------------------------------
(* Administration sessions (AdminLogin.tla)                                *)

CallbackPhases == {"none", "consume", "exchange", "replace", "put"}

CallbackState == [phase : CallbackPhases, browser : Browsers \cup {Nothing},
                  attempt : Attempts \cup {Nothing}, previous : Attempts \cup {Nothing}]

(* A callback at work has the cookies of a browser with an attempt. *)
CallbackOK ==
  /\ callback \in [Callbacks -> CallbackState]
  /\ \A k \in Callbacks :
       \/ callback[k] = NoCallback
       \/ callback[k].browser \in Browsers /\ callback[k].attempt \in begun

(* What was never begun has no row, and no browser has its cookie. *)
BegunOK ==
  /\ begun \subseteq Attempts
  /\ \A b \in Browsers : cookies[b].attempt # Nothing => cookies[b].attempt \in begun
  /\ \A a \in Attempts : a \notin begun => attemptRow[a] = Nothing

(* The row of an attempt is gone once a callback may exchange its code,    *)
(* and one callback at a time may.                                         *)
ExchangeAlone ==
  \A k \in Callbacks : callback[k].phase = "exchange" =>
    /\ attemptRow[callback[k].attempt] = Nothing
    /\ exchanges[callback[k].attempt] = {}
    /\ \A l \in Callbacks :
         callback[l].phase = "exchange" /\ callback[l].attempt = callback[k].attempt => l = k

(* A code that was exchanged has no row either. *)
ExchangedOK ==
  /\ DOMAIN exchanges = Attempts
  /\ \A a \in Attempts : exchanges[a] # {} => a \in begun /\ attemptRow[a] = Nothing

LoginInv ==
  /\ LoginTypeOK
  /\ CallbackOK
  /\ BegunOK
  /\ ExchangeAlone
  /\ ExchangedOK
  /\ AttemptUsedOnce

(* Nobody has tried to log in. *)
LEMMA LoginInvInit == LoginInit => LoginInv
<1> SUFFICES ASSUME LoginInit PROVE LoginInv
  OBVIOUS
<1>1. LoginTypeOK
  BY LoginAssumption DEF LoginInit, LoginTypeOK, Expiries
<1>2. CallbackOK
  BY DEF LoginInit, CallbackOK, CallbackState, CallbackPhases, NoCallback
<1>3. ExchangeAlone
  BY DEF LoginInit, ExchangeAlone, NoCallback
<1>4. BegunOK /\ ExchangedOK /\ AttemptUsedOnce
  BY DEF LoginInit, BegunOK, ExchangedOK, AttemptUsedOnce
<1> QED
  BY <1>1, <1>2, <1>3, <1>4 DEF LoginInv

(* Pruning removes rows, and changes none. *)
LEMMA PrunedRows ==
  ASSUME NEW row \in [Attempts -> Expiries]
  PROVE  /\ Pruned(row) \in [Attempts -> Expiries]
         /\ \A a \in Attempts : Pruned(row)[a] = row[a] \/ Pruned(row)[a] = Nothing
BY DEF Pruned, Expiries

(* The parts of the invariant that are about times and cookies. *)
LEMMA LoginTypes == LoginInv /\ [LoginNext]_loginVars =>
                      /\ now' \in 0..EndOfTime
                      /\ attemptRow' \in [Attempts -> Expiries]
                      /\ sessionRow' \in [Attempts -> Expiries]
                      /\ cookies' \in [Browsers -> [attempt : Attempts \cup {Nothing},
                                                    session : Attempts \cup {Nothing}]]
<1> SUFFICES ASSUME LoginInv, [LoginNext]_loginVars
             PROVE  /\ now' \in 0..EndOfTime
                    /\ attemptRow' \in [Attempts -> Expiries]
                    /\ sessionRow' \in [Attempts -> Expiries]
                    /\ cookies' \in [Browsers -> [attempt : Attempts \cup {Nothing},
                                                  session : Attempts \cup {Nothing}]]
  OBVIOUS
<1> DEFINE Types == /\ now' \in 0..EndOfTime
                    /\ attemptRow' \in [Attempts -> Expiries]
                    /\ sessionRow' \in [Attempts -> Expiries]
                    /\ cookies' \in [Browsers -> [attempt : Attempts \cup {Nothing},
                                                  session : Attempts \cup {Nothing}]]
<1>0. /\ now \in 0..EndOfTime
      /\ attemptRow \in [Attempts -> Expiries] /\ sessionRow \in [Attempts -> Expiries]
      /\ cookies \in [Browsers -> [attempt : Attempts \cup {Nothing},
                                   session : Attempts \cup {Nothing}]]
      /\ begun \subseteq Attempts
      /\ callback \in [Callbacks -> CallbackState]
  BY DEF LoginInv, LoginTypeOK, BegunOK, CallbackOK
<1>1. Pruned(attemptRow) \in [Attempts -> Expiries] /\ Pruned(sessionRow) \in [Attempts -> Expiries]
  BY <1>0, PrunedRows
<1>2. /\ Nothing \in Expiries
      /\ now + AttemptLife \in Expiries
      /\ \A d \in 1..SessionLife : now + d \in Expiries
  BY <1>0, LoginAssumption DEF Expiries
<1>3. \A k \in Callbacks : callback[k].attempt \in Attempts \cup {Nothing}
                           /\ callback[k].previous \in Attempts \cup {Nothing}
  BY <1>0 DEF CallbackState
<1>4. ASSUME NEW k \in Callbacks, NEW session \in Attempts \cup {Nothing}, Answered(k, session)
      PROVE  cookies' \in [Browsers -> [attempt : Attempts \cup {Nothing},
                                        session : Attempts \cup {Nothing}]]
  BY <1>0, <1>4 DEF Answered
<1>5. ASSUME NEW k \in Callbacks, callback[k].phase # "none", Refused(k)
      PROVE  cookies' \in [Browsers -> [attempt : Attempts \cup {Nothing},
                                        session : Attempts \cup {Nothing}]]
  <2>1. cookies[callback[k].browser].session \in Attempts \cup {Nothing}
    BY <1>0, <1>5 DEF LoginInv, CallbackOK, NoCallback
  <2> QED
    BY <1>4, <1>5, <2>1 DEF Refused
<1>6. ASSUME NEW id, DeleteSession(id) PROVE sessionRow' \in [Attempts -> Expiries]
  BY <1>0, <1>2, <1>6 DEF DeleteSession
<1>7. CASE UNCHANGED loginVars
  BY <1>0, <1>7 DEF loginVars
<1>8. CASE Elapse
  BY <1>0, <1>8, LoginAssumption DEF Elapse
<1>9. ASSUME NEW b \in Browsers, Logout(b) \/ Authenticate(b) PROVE Types
  BY <1>0, <1>1, <1>6, <1>9 DEF Logout, Authenticate
<1>10. ASSUME NEW b \in Browsers, NEW a \in Attempts, Login(b, a) PROVE Types
  BY <1>0, <1>1, <1>2, <1>10 DEF Login
<1>11. ASSUME NEW k \in Callbacks, NEW b \in Browsers, Arrive(k, b) PROVE Types
  BY <1>0, <1>11 DEF Arrive
<1>12. ASSUME NEW k \in Callbacks, ConsumeAttempt(k) PROVE Types
  <2>1. callback[k].phase # "none" /\ (UNCHANGED cookies \/ Refused(k))
    BY <1>12 DEF ConsumeAttempt
  <2>2. attemptRow' = [Pruned(attemptRow) EXCEPT ![callback[k].attempt] = Nothing]
        /\ sessionRow' = Pruned(sessionRow) /\ now' = now
    BY <1>12 DEF ConsumeAttempt
  <2> QED
    BY <1>0, <1>1, <1>2, <1>5, <2>1, <2>2
<1>13. ASSUME NEW k \in Callbacks, ExchangeCode(k) PROVE Types
  BY <1>0, <1>13 DEF ExchangeCode
<1>14. ASSUME NEW k \in Callbacks, RefuseLogin(k) PROVE Types
  BY <1>0, <1>5, <1>14 DEF RefuseLogin
<1>15. ASSUME NEW k \in Callbacks, ReplaceSession(k) PROVE Types
  BY <1>0, <1>6, <1>15 DEF ReplaceSession
<1>16. ASSUME NEW k \in Callbacks, NEW d \in 1..SessionLife, PutSession(k, d) PROVE Types
  BY <1>0, <1>1, <1>2, <1>3, <1>4, <1>16 DEF PutSession
<1> QED
  BY <1>7, <1>8, <1>9, <1>10, <1>11, <1>12, <1>13, <1>14, <1>15, <1>16 DEF LoginNext

(* A callback that goes on to anything but the exchange, and rows that may *)
(* only disappear, leave the invariant alone.                              *)
LEMMA LoginQuiet ==
  ASSUME LoginInv, [LoginNext]_loginVars, UNCHANGED <<begun, exchanges>>,
         CallbackOK',
         \A b \in Browsers : cookies'[b].attempt = cookies[b].attempt
                             \/ cookies'[b].attempt = Nothing,
         \A a \in Attempts : attemptRow'[a] = attemptRow[a] \/ attemptRow'[a] = Nothing,
         \A k \in Callbacks : callback'[k].phase = "exchange" => callback'[k] = callback[k]
  PROVE  LoginInv'
<1>1. LoginTypeOK'
  <2>1. \A k \in Callbacks : callback'[k] = NoCallback \/ callback'[k].attempt \in begun'
    BY DEF CallbackOK
  <2> QED
    BY <2>1, LoginTypes DEF LoginTypeOK
<1>2. BegunOK'
  BY DEF LoginInv, BegunOK
<1>3. ExchangeAlone'
  <2>1. \A k \in Callbacks : callback'[k].phase = "exchange" =>
          callback[k].attempt \in Attempts /\ callback'[k] = callback[k]
    BY DEF LoginInv, CallbackOK, BegunOK, NoCallback
  <2> QED
    BY <2>1 DEF LoginInv, ExchangeAlone
<1>4. ExchangedOK' /\ AttemptUsedOnce'
  BY DEF LoginInv, ExchangedOK, AttemptUsedOnce
<1> QED
  BY <1>1, <1>2, <1>3, <1>4 DEF LoginInv

(* One callback changes. *)
LEMMA CallbackTurns ==
  ASSUME LoginInv, NEW k \in Callbacks, NEW next \in CallbackState,
         next = NoCallback \/ (next.browser \in Browsers /\ next.attempt \in begun),
         callback' = [callback EXCEPT ![k] = next], begun' = begun
  PROVE  /\ CallbackOK'
         /\ \A l \in Callbacks : callback'[l] = IF l = k THEN next ELSE callback[l]
BY DEF LoginInv, CallbackOK

(* A callback that is answered. *)
LEMMA CallbackAnswered ==
  ASSUME LoginInv, [LoginNext]_loginVars, NEW k \in Callbacks, NEW session,
         Answered(k, session), UNCHANGED <<begun, exchanges>>,
         \A a \in Attempts : attemptRow'[a] = attemptRow[a] \/ attemptRow'[a] = Nothing
  PROVE  LoginInv'
<1>1. NoCallback \in CallbackState /\ NoCallback.phase = "none"
  BY DEF NoCallback, CallbackState, CallbackPhases
<1>2. callback' = [callback EXCEPT ![k] = NoCallback]
  BY DEF Answered
<1>3. /\ CallbackOK'
      /\ \A l \in Callbacks : callback'[l] = IF l = k THEN NoCallback ELSE callback[l]
  BY <1>1, <1>2, CallbackTurns
<1>4. \A b \in Browsers : cookies'[b].attempt = cookies[b].attempt
                          \/ cookies'[b].attempt = Nothing
  BY DEF Answered, LoginInv, LoginTypeOK
<1> QED
  BY <1>1, <1>3, <1>4, LoginQuiet

(* A callback that proceeds, other than to the exchange. *)
LEMMA CallbackProceeds ==
  ASSUME LoginInv, [LoginNext]_loginVars, NEW k \in Callbacks,
         callback[k].phase # "none", NEW phase \in CallbackPhases, Proceed(k, phase),
         begun' = begun
  PROVE  /\ CallbackOK'
         /\ \A l \in Callbacks : l # k => callback'[l] = callback[l]
         /\ callback'[k].phase = phase
         /\ callback'[k].attempt = callback[k].attempt
<1> DEFINE next == [callback[k] EXCEPT !.phase = phase]
<1>1. /\ next \in CallbackState /\ next.phase = phase
      /\ next.browser = callback[k].browser /\ next.attempt = callback[k].attempt
  BY DEF LoginInv, CallbackOK, CallbackState
<1>2. callback[k].browser \in Browsers /\ callback[k].attempt \in begun
  BY DEF LoginInv, CallbackOK, NoCallback
<1>3. callback' = [callback EXCEPT ![k] = next]
  BY DEF Proceed
<1> HIDE DEF next
<1>4. next.browser \in Browsers /\ next.attempt \in begun
  BY <1>1, <1>2
<1>5. /\ CallbackOK'
      /\ \A l \in Callbacks : callback'[l] = IF l = k THEN next ELSE callback[l]
  BY <1>1, <1>3, <1>4, CallbackTurns
<1> QED
  BY <1>1, <1>5

(* A login begins: nothing is known of its attempt yet. *)
LEMMA LoginBegins ==
  ASSUME LoginInv, [LoginNext]_loginVars, NEW b \in Browsers, NEW a \in Attempts, Login(b, a)
  PROVE  LoginInv'
<1>0. /\ a \notin begun /\ begun' = begun \cup {a}
      /\ attemptRow' = [Pruned(attemptRow) EXCEPT ![a] = now + AttemptLife]
      /\ cookies' = [cookies EXCEPT ![b].attempt = a]
      /\ UNCHANGED <<callback, exchanges>>
  BY DEF Login
<1>1. CallbackOK'
  BY <1>0 DEF LoginInv, CallbackOK
<1>2. LoginTypeOK'
  BY <1>1, LoginTypes DEF LoginTypeOK, CallbackOK
<1>3. \A x \in Attempts : x # a => attemptRow'[x] = attemptRow[x] \/ attemptRow'[x] = Nothing
  <2>1. attemptRow \in [Attempts -> Expiries]
    BY DEF LoginInv, LoginTypeOK
  <2> QED
    BY <1>0, <2>1, PrunedRows
<1>4. BegunOK'
  BY <1>0, <1>3 DEF LoginInv, LoginTypeOK, BegunOK
<1>5. \A k \in Callbacks : callback[k].phase = "exchange" =>
        callback[k].attempt \in Attempts /\ callback[k].attempt # a
  BY <1>0 DEF LoginInv, CallbackOK, BegunOK, NoCallback
<1>6. ExchangeAlone'
  BY <1>0, <1>3, <1>5 DEF LoginInv, ExchangeAlone
<1>7. ExchangedOK' /\ AttemptUsedOnce'
  BY <1>0, <1>3 DEF LoginInv, ExchangedOK, AttemptUsedOnce
<1> QED
  BY <1>1, <1>2, <1>4, <1>6, <1>7 DEF LoginInv

(* A callback consumes the attempt: who finds the row live is alone.       *)
LEMMA LoginConsumes ==
  ASSUME LoginInv, [LoginNext]_loginVars, NEW k \in Callbacks, ConsumeAttempt(k)
  PROVE  LoginInv'
<1> DEFINE a == callback[k].attempt
<1>0. /\ callback[k].phase = "consume"
      /\ attemptRow' = [Pruned(attemptRow) EXCEPT ![a] = Nothing]
      /\ UNCHANGED <<begun, exchanges>>
  BY DEF ConsumeAttempt
<1>1. a \in begun /\ a \in Attempts
  BY <1>0 DEF LoginInv, CallbackOK, BegunOK, NoCallback
<1>2. attemptRow \in [Attempts -> Expiries]
  BY DEF LoginInv, LoginTypeOK
<1>3. /\ \A x \in Attempts : attemptRow'[x] = attemptRow[x] \/ attemptRow'[x] = Nothing
      /\ attemptRow'[a] = Nothing
  BY <1>0, <1>1, <1>2, PrunedRows
<1>4. CASE ~Live(attemptRow, a)
  BY <1>0, <1>3, <1>4, CallbackAnswered DEF ConsumeAttempt, Refused
<1>5. CASE Live(attemptRow, a)
  <2>1. attemptRow[a] # Nothing
    BY <1>5 DEF Live
  <2>2. Proceed(k, "exchange") /\ UNCHANGED cookies
    BY <1>5 DEF ConsumeAttempt
  <2>3. /\ CallbackOK'
        /\ \A l \in Callbacks : l # k => callback'[l] = callback[l]
        /\ callback'[k].phase = "exchange" /\ callback'[k].attempt = a
    BY <1>0, <2>2, CallbackProceeds DEF CallbackPhases
  <2>4. LoginTypeOK'
    BY <2>3, LoginTypes DEF LoginTypeOK, CallbackOK
  <2>5. BegunOK'
    BY <1>0, <1>3, <2>2 DEF LoginInv, BegunOK
  <2>6. \A l \in Callbacks : callback[l].phase = "exchange" =>
          callback[l].attempt \in Attempts /\ callback[l].attempt # a
    BY <2>1 DEF LoginInv, CallbackOK, BegunOK, NoCallback, ExchangeAlone
  <2>7. ExchangeAlone'
    BY <1>0, <1>1, <1>3, <2>1, <2>3, <2>6 DEF LoginInv, ExchangeAlone, ExchangedOK
  <2>8. ExchangedOK' /\ AttemptUsedOnce'
    BY <1>0, <1>3 DEF LoginInv, ExchangedOK, AttemptUsedOnce
  <2> QED
    BY <2>3, <2>4, <2>5, <2>7, <2>8 DEF LoginInv
<1> QED
  BY <1>4, <1>5

(* The code is exchanged; this was the only callback that could. *)
LEMMA LoginExchanges ==
  ASSUME LoginInv, [LoginNext]_loginVars, NEW k \in Callbacks, ExchangeCode(k)
  PROVE  LoginInv'
<1> DEFINE a == callback[k].attempt
<1>0. /\ callback[k].phase = "exchange"
      /\ exchanges' = [exchanges EXCEPT ![a] = @ \cup {<<k, now>>}]
      /\ Proceed(k, "replace")
      /\ UNCHANGED <<now, attemptRow, sessionRow, cookies, begun>>
  BY DEF ExchangeCode
<1>1. a \in begun /\ a \in Attempts /\ attemptRow[a] = Nothing /\ exchanges[a] = {}
  BY <1>0 DEF LoginInv, CallbackOK, BegunOK, NoCallback, ExchangeAlone
<1>2. /\ CallbackOK'
      /\ \A l \in Callbacks : l # k => callback'[l] = callback[l]
      /\ callback'[k].phase = "replace" /\ callback'[k].attempt = a
  BY <1>0, CallbackProceeds DEF CallbackPhases
<1>3. LoginTypeOK'
  BY <1>2, LoginTypes DEF LoginTypeOK, CallbackOK
<1>4. /\ DOMAIN exchanges' = Attempts
      /\ exchanges'[a] = {<<k, now>>}
      /\ \A x \in Attempts : x # a => exchanges'[x] = exchanges[x]
  BY <1>0, <1>1 DEF LoginInv, ExchangedOK
<1>5. BegunOK'
  BY <1>0 DEF LoginInv, BegunOK
<1>6. ExchangeAlone'
  <2>1. \A l \in Callbacks : callback'[l].phase = "exchange" =>
          /\ l # k /\ callback'[l] = callback[l]
          /\ callback[l].attempt \in Attempts /\ callback[l].attempt # a
    BY <1>0, <1>2 DEF LoginInv, CallbackOK, BegunOK, NoCallback, ExchangeAlone
  <2> QED
    BY <1>0, <1>4, <2>1 DEF LoginInv, ExchangeAlone
<1>7. ExchangedOK'
  BY <1>0, <1>1, <1>4 DEF LoginInv, ExchangedOK
<1>8. AttemptUsedOnce'
  BY <1>4 DEF LoginInv, AttemptUsedOnce
<1> QED
  BY <1>2, <1>3, <1>5, <1>6, <1>7, <1>8 DEF LoginInv

(* Every step preserves the invariant. *)
LEMMA LoginStep == LoginInv /\ [LoginNext]_loginVars => LoginInv'
<1> SUFFICES ASSUME LoginInv, [LoginNext]_loginVars PROVE LoginInv'
  OBVIOUS
<1>0. /\ attemptRow \in [Attempts -> Expiries]
      /\ \A a \in Attempts : Pruned(attemptRow)[a] = attemptRow[a]
                             \/ Pruned(attemptRow)[a] = Nothing
  BY PrunedRows DEF LoginInv, LoginTypeOK
<1>1. ASSUME UNCHANGED <<callback, begun, exchanges>>,
             attemptRow' = attemptRow \/ attemptRow' = Pruned(attemptRow),
             \A b \in Browsers : cookies'[b].attempt = cookies[b].attempt
      PROVE  LoginInv'
  <2>1. CallbackOK'
    BY <1>1 DEF LoginInv, CallbackOK
  <2> QED
    BY <1>0, <1>1, <2>1, LoginQuiet
<1>2. CASE UNCHANGED loginVars
  BY <1>1, <1>2 DEF loginVars
<1>3. CASE Elapse
  BY <1>1, <1>3 DEF Elapse
<1>4. ASSUME NEW b \in Browsers, Logout(b) \/ Authenticate(b) PROVE LoginInv'
  <2>1. \A c \in Browsers : cookies'[c].attempt = cookies[c].attempt
    BY <1>4 DEF Logout, Authenticate, LoginInv, LoginTypeOK
  <2> QED
    BY <1>1, <1>4, <2>1 DEF Logout, Authenticate
<1>5. ASSUME NEW k \in Callbacks, NEW b \in Browsers, Arrive(k, b) PROVE LoginInv'
  <2> DEFINE next == [phase |-> "consume", browser |-> b, attempt |-> cookies[b].attempt,
                      previous |-> cookies[b].session]
  <2>1. cookies[b].attempt \in begun /\ cookies[b].session \in Attempts \cup {Nothing}
    BY <1>5 DEF Arrive, LoginInv, LoginTypeOK, BegunOK
  <2>2. next \in CallbackState /\ next.browser \in Browsers /\ next.attempt \in begun
        /\ next.phase = "consume"
    BY <2>1 DEF LoginInv, BegunOK, CallbackState, CallbackPhases
  <2>3. callback' = [callback EXCEPT ![k] = next]
    BY <1>5 DEF Arrive
  <2> HIDE DEF next
  <2>4. UNCHANGED <<attemptRow, cookies, begun, exchanges>>
    BY <1>5 DEF Arrive
  <2>5. /\ CallbackOK'
        /\ \A l \in Callbacks : callback'[l] = IF l = k THEN next ELSE callback[l]
    BY <2>2, <2>3, <2>4, CallbackTurns
  <2> QED
    BY <2>2, <2>4, <2>5, LoginQuiet
<1>6. ASSUME NEW k \in Callbacks, RefuseLogin(k) PROVE LoginInv'
  BY <1>6, CallbackAnswered DEF RefuseLogin, Refused
<1>7. ASSUME NEW k \in Callbacks, ReplaceSession(k) PROVE LoginInv'
  <2>1. /\ CallbackOK'
        /\ \A l \in Callbacks : l # k => callback'[l] = callback[l]
        /\ callback'[k].phase = "put"
    BY <1>7, CallbackProceeds DEF ReplaceSession, CallbackPhases
  <2> QED
    BY <1>7, <2>1, LoginQuiet DEF ReplaceSession
<1>8. ASSUME NEW k \in Callbacks, NEW d \in 1..SessionLife, PutSession(k, d) PROVE LoginInv'
  BY <1>0, <1>8, CallbackAnswered DEF PutSession
<1> QED
  BY <1>2, <1>3, <1>4, <1>5, <1>6, <1>7, <1>8, LoginBegins, LoginConsumes, LoginExchanges
  DEF LoginNext

(* However callbacks of a login overlap or are repeated, its code is       *)
(* exchanged once.                                                         *)
THEOREM NoCallbackIsReplayed == LoginSpec => []AttemptUsedOnce
<1>1. LoginInv => AttemptUsedOnce
  BY DEF LoginInv
<1> QED
  BY <1>1, LoginInvInit, LoginStep, PTL DEF LoginSpec

-----------------------------------------------------------------------------
(* Keys under rotation (KeyRotation.tla)                                   *)

Busy(w) == worker[w].phase # "idle"

(* The versions in circulation. *)
RingOK == current \in serving /\ \A v \in retained : v <= current

(* A worker has been told what to do, and its master key is retained. *)
WorkOK ==
  \A w \in Workers :
    /\ worker[w].phase \in {"find", "create", "store"}
         => worker[w].slot \in Slots /\ worker[w].user \in Users
    /\ Busy(w) => worker[w].version \in retained

(* The key a worker is about to seal with is the one in the table. *)
HandOK ==
  \A w \in Workers : worker[w].phase = "store" =>
    /\ worker[w].key # NoKey
    /\ userKeys[worker[w].user][worker[w].version] = worker[w].key

(* The version being rotated away is older than any that a worker seals    *)
(* with, or may start with; and it has no envelopes when its keys go.      *)
OldIsBehind ==
  \A w \in Workers : Busy(w) =>
    /\ \A v \in serving : worker[w].from < v
    /\ \A x \in Workers : Busy(x) => worker[w].from < worker[x].version

RetiresUnused ==
  \A w \in Workers : worker[w].phase = "retire" => Selected(worker[w].from) = {}

KeyInv ==
  /\ KeyTypeOK
  /\ RingOK
  /\ WorkOK
  /\ HandOK
  /\ OldIsBehind
  /\ RetiresUnused
  /\ StoredOpens

WorkerState ==
  [phase : {"idle", "find", "create", "store", "select", "open", "count", "retire"},
   version : Versions, slot : Slots \cup {0}, user : Users \cup {NoKey},
   from : Versions \cup {0}, batch : SUBSET (Slots \X Envelopes),
   key : Workers \cup {NoKey}]

(* A worker at rest. *)
LEMMA IdleType ==
  /\ Idle \in WorkerState /\ Idle.phase = "idle"
  /\ Versions \subseteq Nat \ {0} /\ 1 \in Versions
BY KeyAssumption DEF Idle, WorkerState, Versions

(* The versions a worker works with are numbers. *)
LEMMA VersionNumbers ==
  ASSUME KeyTypeOK, NEW w \in Workers
  PROVE  /\ worker[w].version \in Versions /\ worker[w].version \in Nat
         /\ worker[w].from \in Nat /\ current \in Nat
<1>1. \A v \in Versions : v \in Nat
  BY KeyAssumption DEF Versions
<1>2. /\ worker[w].version \in Versions /\ worker[w].from \in Versions \cup {0}
      /\ current \in Versions
  BY DEF KeyTypeOK
<1>3. \A v \in Versions \cup {0} : v \in Nat
  BY <1>1
<1> QED
  BY <1>1, <1>2, <1>3

(* No keys, no records, and the first master key. *)
LEMMA KeyInvInit == KeyInit => KeyInv
<1> SUFFICES ASSUME KeyInit PROVE KeyInv
  OBVIOUS
<1>1. KeyTypeOK
  BY IdleType DEF KeyInit, KeyTypeOK, WorkerState
<1>2. \A w \in Workers : worker[w].phase = "idle"
  BY IdleType DEF KeyInit
<1>3. WorkOK /\ HandOK /\ OldIsBehind /\ RetiresUnused
  BY <1>2 DEF WorkOK, HandOK, OldIsBehind, RetiresUnused, Busy
<1>4. RingOK /\ StoredOpens
  BY DEF KeyInit, RingOK, StoredOpens
<1> QED
  BY <1>1, <1>3, <1>4 DEF KeyInv

(***************************************************************************)
(* A worker moves and nothing else changes.                                *)
(***************************************************************************)
LEMMA WorkerTurns ==
  ASSUME KeyInv, NEW w \in Workers, NEW next \in WorkerState,
         worker' = [worker EXCEPT ![w] = next]
  PROVE  /\ worker' \in [Workers -> WorkerState]
         /\ \A x \in Workers : worker'[x] = IF x = w THEN next ELSE worker[x]
BY DEF KeyInv, KeyTypeOK, WorkerState

(* A worker turns to a state that is in order, and nothing else changes. *)
LEMMA KeyMoves ==
  ASSUME KeyInv, NEW w \in Workers, NEW next \in WorkerState, Turns(w, next),
         UNCHANGED <<userKeys, records, current, serving, retained>>,
         next.phase \in {"find", "create", "store"} => next.slot \in Slots /\ next.user \in Users,
         next.phase # "idle" => next.version \in retained,
         next.phase = "store" => next.key # NoKey /\ userKeys[next.user][next.version] = next.key,
         next.phase = "retire" => Selected(next.from) = {},
         next.phase # "idle" =>
           /\ \A v \in serving : next.from < v
           /\ next.from < next.version
           /\ \A x \in Workers : Busy(x) /\ x # w =>
                next.from < worker[x].version /\ worker[x].from < next.version
  PROVE  KeyInv'
<1>1. worker' = [worker EXCEPT ![w] = next]
  BY DEF Turns
<1>2. /\ worker' \in [Workers -> WorkerState]
      /\ \A x \in Workers : worker'[x] = IF x = w THEN next ELSE worker[x]
  BY <1>1, WorkerTurns
<1>3. KeyTypeOK'
  BY <1>2 DEF KeyInv, KeyTypeOK, WorkerState
<1>4. RingOK' /\ StoredOpens'
  BY DEF KeyInv, RingOK, StoredOpens
<1>5. WorkOK'
  BY <1>2 DEF KeyInv, WorkOK, Busy
<1>6. HandOK'
  BY <1>2 DEF KeyInv, HandOK
<1>7. OldIsBehind'
  BY <1>2 DEF KeyInv, OldIsBehind, Busy
<1>8. RetiresUnused'
  BY <1>2 DEF KeyInv, RetiresUnused, Selected
<1> QED
  BY <1>3, <1>4, <1>5, <1>6, <1>7, <1>8 DEF KeyInv

(* A busy worker goes on with what it was doing. *)
LEMMA KeyProceeds ==
  ASSUME KeyInv, NEW w \in Workers, NEW next \in WorkerState, Turns(w, next), Busy(w),
         UNCHANGED <<userKeys, records, current, serving, retained>>,
         next.version = worker[w].version, next.from = worker[w].from,
         next.phase \in {"find", "create", "store"} => next.slot \in Slots /\ next.user \in Users,
         next.phase = "store" => next.key # NoKey /\ userKeys[next.user][next.version] = next.key,
         next.phase = "retire" => Selected(next.from) = {}
  PROVE  KeyInv'
<1>1. worker[w].version \in retained
  BY DEF KeyInv, WorkOK
<1>2. /\ \A v \in serving : next.from < v
      /\ next.from < next.version
      /\ \A x \in Workers : Busy(x) /\ x # w =>
           next.from < worker[x].version /\ worker[x].from < next.version
  BY DEF KeyInv, OldIsBehind
<1> QED
  BY <1>1, <1>2, KeyMoves

(* A worker stops, wherever it is. *)
LEMMA KeyStops ==
  ASSUME KeyInv, NEW w \in Workers, Turns(w, Idle),
         UNCHANGED <<userKeys, records, current, serving, retained>>
  PROVE  KeyInv'
BY IdleType, KeyMoves

(* The versions of the keyrings change; workers stay where they are. *)
LEMMA KeyRings ==
  ASSUME KeyInv, Deploy \/ DeployedEverywhere \/ \E v \in Versions : RemoveMasterKey(v)
  PROVE  KeyInv'
<1>0. /\ current \in Versions /\ retained \subseteq Versions /\ serving \subseteq retained
      /\ current \in serving /\ \A v \in retained : v <= current
      /\ Versions \subseteq Nat \ {0}
      /\ \A w \in Workers : worker[w].from \in Versions \cup {0}
  BY IdleType DEF KeyInv, KeyTypeOK, RingOK
<1>1. UNCHANGED <<userKeys, records, worker>>
  BY DEF Deploy, DeployedEverywhere, RemoveMasterKey
<1>2. current' \in serving' /\ serving' \subseteq retained' /\ retained' \subseteq Versions
      /\ \A v \in retained' : v <= current'
  <2>1. CASE Deploy
    <3>1. /\ current < MaxVersion /\ current' = current + 1
          /\ serving' = {current, current + 1} /\ retained' = retained \cup {current + 1}
      BY <2>1 DEF Deploy
    <3>2. current + 1 \in Versions
      BY <1>0, <3>1, KeyAssumption DEF Versions
    <3>3. current' \in serving' /\ serving' \subseteq retained' /\ retained' \subseteq Versions
      BY <1>0, <3>1, <3>2
    <3>4. \A v \in retained' : v <= current'
      <4>1. \A v \in retained : v \in Nat /\ v <= current
        BY <1>0
      <4>2. current \in Nat /\ current' = current + 1 /\ retained' = retained \cup {current + 1}
        BY <1>0, <3>1
      <4> QED
        BY <4>1, <4>2
    <3> QED
      BY <3>3, <3>4
  <2>2. CASE DeployedEverywhere
    BY <1>0, <2>2 DEF DeployedEverywhere
  <2>3. CASE \E v \in Versions : RemoveMasterKey(v)
    BY <1>0, <2>3 DEF RemoveMasterKey
  <2> QED
    BY <2>1, <2>2, <2>3
<1>3. KeyTypeOK' /\ RingOK'
  BY <1>1, <1>2 DEF KeyInv, KeyTypeOK, RingOK
<1>4. \A w \in Workers : Busy(w) => worker[w].version \in retained'
  BY DEF KeyInv, WorkOK, Deploy, DeployedEverywhere, RemoveMasterKey, Busy
<1>5. WorkOK'
  BY <1>1, <1>4 DEF KeyInv, WorkOK, Busy
<1>6. HandOK' /\ RetiresUnused'
  BY <1>1 DEF KeyInv, HandOK, RetiresUnused, Selected
<1>7. \A w \in Workers : Busy(w) => \A v \in serving' : worker[w].from < v
  <2> SUFFICES ASSUME NEW w \in Workers, Busy(w), NEW v \in serving' PROVE worker[w].from < v
    OBVIOUS
  <2>1. worker[w].from < current
    BY <1>0 DEF KeyInv, OldIsBehind
  <2>2. v \in serving \/ v = current + 1
    BY <1>0 DEF Deploy, DeployedEverywhere, RemoveMasterKey
  <2>3. CASE v \in serving
    BY <2>3 DEF KeyInv, OldIsBehind
  <2>4. CASE v = current + 1
    <3>1. worker[w].from \in Nat /\ current \in Nat
      BY VersionNumbers DEF KeyInv
    <3> QED
      BY <2>1, <2>4, <3>1
  <2> QED
    BY <2>2, <2>3, <2>4
<1>8. OldIsBehind'
  BY <1>1, <1>7 DEF KeyInv, OldIsBehind, Busy
<1>9. StoredOpens'
  BY <1>1 DEF KeyInv, StoredOpens, Deploy, DeployedEverywhere, RemoveMasterKey
<1> QED
  BY <1>3, <1>5, <1>6, <1>8, <1>9 DEF KeyInv

(* A request starts under a keyring in service, a rotation under the       *)
(* current one, once nobody has an older one.                              *)
LEMMA KeyStarts ==
  ASSUME KeyInv, NEW w \in Workers,
         \/ \E s \in Slots, u \in Users, v \in Versions : Write(w, s, u, v)
         \/ \E v \in Versions : Rotate(w, v)
  PROVE  KeyInv'
<1>0. /\ current \in Versions /\ retained \subseteq Versions /\ serving \subseteq retained
      /\ current \in serving /\ \A v \in retained : v <= current
      /\ Versions \subseteq Nat \ {0}
  BY IdleType DEF KeyInv, KeyTypeOK, RingOK
<1>1. ASSUME NEW s \in Slots, NEW u \in Users, NEW v \in Versions, Write(w, s, u, v)
      PROVE  KeyInv'
  <2> DEFINE next == [Idle EXCEPT !.phase = "find", !.version = v, !.slot = s, !.user = u]
  <2>1. /\ next \in WorkerState /\ next.phase = "find" /\ next.version = v /\ next.from = 0
        /\ next.slot = s /\ next.user = u
    BY IdleType DEF Idle, WorkerState
  <2>2. Turns(w, next) /\ v \in serving
        /\ UNCHANGED <<userKeys, records, current, serving, retained>>
    BY <1>1 DEF Write
  <2> HIDE DEF next
  <2>3. \A n \in Versions : 0 < n
    BY <1>0
  <2>4. \A x \in Workers : Busy(x) =>
          0 < worker[x].version /\ worker[x].from < v
    BY <2>2, <2>3 DEF KeyInv, OldIsBehind, KeyTypeOK
  <2> QED
    BY <1>0, <2>1, <2>2, <2>3, <2>4, KeyMoves
<1>2. ASSUME NEW v \in Versions, Rotate(w, v) PROVE KeyInv'
  <2> DEFINE next == [Idle EXCEPT !.phase = "select", !.version = current, !.from = v]
  <2>1. /\ next \in WorkerState /\ next.phase = "select" /\ next.version = current
        /\ next.from = v
    BY <1>0, IdleType DEF Idle, WorkerState
  <2>2. /\ Turns(w, next) /\ v \in retained /\ v # current /\ serving = {current}
        /\ UNCHANGED <<userKeys, records, current, serving, retained>>
        /\ \A x \in Workers : Busy(x) => worker[x].version = current
    BY <1>2 DEF Rotate, Paused, Busy
  <2> HIDE DEF next
  <2>3. v < current
    <3>1. v \in Nat /\ current \in Nat /\ v <= current /\ v # current
      BY <1>0, <2>2
    <3> QED
      BY <3>1
  <2>4. \A x \in Workers : Busy(x) => worker[x].from < current
    BY <2>2 DEF KeyInv, OldIsBehind
  <2> QED
    BY <1>0, <2>1, <2>2, <2>3, <2>4, KeyMoves
<1> QED
  BY <1>1, <1>2

(* The key of the user is looked up. *)
LEMMA KeyFinds == ASSUME KeyInv, NEW w \in Workers, FindKey(w) PROVE KeyInv'
<1> DEFINE found == userKeys[worker[w].user][worker[w].version]
           next  == [worker[w] EXCEPT !.phase = IF found = NoKey THEN "create" ELSE "store",
                                      !.key = found]
<1>1. /\ worker[w].phase = "find" /\ Turns(w, next)
      /\ UNCHANGED <<userKeys, records, current, serving, retained>>
  BY DEF FindKey
<1>2. worker[w] \in WorkerState /\ worker[w].slot \in Slots /\ worker[w].user \in Users
  BY <1>1 DEF KeyInv, KeyTypeOK, WorkOK, WorkerState
<1>3. worker[w].version \in Versions /\ found \in Workers \cup {NoKey}
  <2>1. worker[w].version \in Versions
    BY <1>2 DEF WorkerState
  <2> QED
    BY <1>2, <2>1 DEF KeyInv, KeyTypeOK
<1> HIDE DEF found
<1>4. /\ next \in WorkerState /\ next.phase \in {"create", "store"}
      /\ next.phase = "store" => found # NoKey
      /\ next.version = worker[w].version /\ next.from = worker[w].from
      /\ next.slot = worker[w].slot /\ next.user = worker[w].user /\ next.key = found
  BY <1>2, <1>3 DEF WorkerState
<1> HIDE DEF next
<1>5. Busy(w)
  BY <1>1 DEF Busy
<1>6. next.phase = "store" => next.key # NoKey /\ userKeys[next.user][next.version] = next.key
  BY <1>4 DEF found
<1> QED
  BY <1>1, <1>2, <1>4, <1>5, <1>6, KeyProceeds

(* A key is generated: it stays if there was none. *)
LEMMA KeyCreates == ASSUME KeyInv, NEW w \in Workers, CreateKey(w) PROVE KeyInv'
<1> DEFINE u    == worker[w].user
           v    == worker[w].version
           next == [worker[w] EXCEPT !.phase = "find"]
<1>1. /\ worker[w].phase = "create" /\ worker' = [worker EXCEPT ![w] = next]
      /\ userKeys' = IF userKeys[u][v] = NoKey THEN [userKeys EXCEPT ![u][v] = w] ELSE userKeys
      /\ UNCHANGED <<records, current, serving, retained>>
  BY DEF CreateKey, Moves, Turns
<1>2. worker[w] \in WorkerState /\ u \in Users /\ v \in Versions /\ worker[w].slot \in Slots
  BY <1>1 DEF KeyInv, KeyTypeOK, WorkOK, WorkerState
<1>3. /\ next \in WorkerState /\ next.phase = "find" /\ next.version = v
      /\ next.from = worker[w].from /\ next.slot = worker[w].slot /\ next.user = u
  BY <1>2 DEF WorkerState
<1> HIDE DEF next
<1>4. /\ worker' \in [Workers -> WorkerState]
      /\ \A x \in Workers : worker'[x] = IF x = w THEN next ELSE worker[x]
  BY <1>1, <1>3, WorkerTurns
<1>5. userKeys' \in [Users -> [Versions -> Workers \cup {NoKey}]]
  BY <1>1, <1>2 DEF KeyInv, KeyTypeOK
<1>6. \A x \in Users, n \in Versions : userKeys[x][n] # NoKey => userKeys'[x][n] = userKeys[x][n]
  BY <1>1, <1>2 DEF KeyInv, KeyTypeOK
<1>7. KeyTypeOK'
  BY <1>1, <1>4, <1>5 DEF KeyInv, KeyTypeOK, WorkerState
<1>8. RingOK' /\ RetiresUnused'
  BY <1>1, <1>3, <1>4 DEF KeyInv, RingOK, RetiresUnused, Selected
<1>9. WorkOK'
  BY <1>1, <1>2, <1>3, <1>4 DEF KeyInv, WorkOK, Busy
<1>10. HandOK'
  <2>1. \A x \in Workers : worker[x].phase = "store" =>
          worker[x].user \in Users /\ worker[x].version \in Versions
    BY DEF KeyInv, KeyTypeOK, WorkOK
  <2> QED
    BY <1>3, <1>4, <1>6, <2>1 DEF KeyInv, HandOK
<1>11. OldIsBehind'
  BY <1>1, <1>3, <1>4 DEF KeyInv, OldIsBehind, Busy
<1>12. StoredOpens'
  <2>1. \A s \in Slots : records[s] # NoKey =>
          /\ records[s].user \in Users /\ records[s].version \in Versions
          /\ records[s].key # NoKey
    BY KeyAssumption DEF KeyInv, KeyTypeOK, Envelopes
  <2> QED
    BY <1>1, <1>6, <2>1 DEF KeyInv, StoredOpens
<1> QED
  BY <1>7, <1>8, <1>9, <1>10, <1>11, <1>12 DEF KeyInv

(* An envelope sealed with the key in hand is stored. It never belongs to  *)
(* a version that is being rotated away.                                   *)
LEMMA KeyStores ==
  ASSUME KeyInv, NEW w \in Workers, NEW next \in WorkerState, Turns(w, next),
         worker[w].phase = "store", NEW s \in Slots,
         records' = [records EXCEPT ![s] =
                       Envelope(worker[w].user, worker[w].version, worker[w].key)],
         UNCHANGED <<userKeys, current, serving, retained>>,
         next.phase \in {"idle", "open"},
         next.version = worker[w].version \/ next.phase = "idle",
         next.from = worker[w].from \/ next.phase = "idle"
  PROVE  KeyInv'
<1> DEFINE e == Envelope(worker[w].user, worker[w].version, worker[w].key)
<1>1. Busy(w) /\ worker' = [worker EXCEPT ![w] = next]
  BY DEF Busy, Turns
<1>2. /\ worker[w].user \in Users /\ worker[w].version \in Versions
      /\ worker[w].key \in Workers /\ worker[w].version \in retained
      /\ userKeys[worker[w].user][worker[w].version] = worker[w].key
  BY <1>1 DEF KeyInv, KeyTypeOK, WorkOK, HandOK
<1>3. /\ e \in Envelopes /\ e.version = worker[w].version /\ e.version \in retained
      /\ userKeys[e.user][e.version] = e.key
  BY <1>2 DEF Envelope, Envelopes
<1> HIDE DEF e
<1>4. /\ worker' \in [Workers -> WorkerState]
      /\ \A x \in Workers : worker'[x] = IF x = w THEN next ELSE worker[x]
  BY <1>1, WorkerTurns
<1>5. /\ records' \in [Slots -> Envelopes \cup {NoKey}]
      /\ \A r \in Slots : records'[r] = IF r = s THEN e ELSE records[r]
  BY <1>3 DEF KeyInv, KeyTypeOK, e
<1>6. KeyTypeOK' /\ RingOK' /\ WorkOK' /\ HandOK'
  BY <1>1, <1>2, <1>4, <1>5 DEF KeyInv, KeyTypeOK, WorkerState, RingOK, WorkOK, HandOK, Busy
<1>7. OldIsBehind'
  BY <1>1, <1>4 DEF KeyInv, OldIsBehind, Busy
<1>8. RetiresUnused'
  <2> SUFFICES ASSUME NEW x \in Workers, worker[x].phase = "retire", x # w
               PROVE  Selected(worker[x].from)' = {}
    BY <1>4 DEF RetiresUnused
  <2>1. Selected(worker[x].from) = {} /\ Busy(x)
    BY DEF KeyInv, RetiresUnused, Busy
  <2>2. worker[x].from < worker[w].version
    BY <1>1, <2>1 DEF KeyInv, OldIsBehind
  <2>3. worker[x].from # worker[w].version
    <3>1. worker[x].from \in Nat /\ worker[w].version \in Nat
      BY VersionNumbers DEF KeyInv
    <3> QED
      BY <2>2, <3>1
  <2> QED
    BY <1>3, <1>4, <1>5, <2>1, <2>3 DEF Selected
<1>9. StoredOpens'
  BY <1>3, <1>5 DEF KeyInv, StoredOpens
<1> QED
  BY <1>6, <1>7, <1>8, <1>9 DEF KeyInv

(* A request appends its record. *)
LEMMA KeyAppends == ASSUME KeyInv, NEW w \in Workers, AppendRecord(w) PROVE KeyInv'
<1>1. worker[w].slot \in Slots
  BY DEF AppendRecord, KeyInv, WorkOK
<1> QED
  BY <1>1, IdleType, KeyStores DEF AppendRecord

(* A rotation replaces a row, if it is still the one it opened. *)
LEMMA KeyUpdates == ASSUME KeyInv, NEW w \in Workers, UpdateRow(w) PROVE KeyInv'
<1>1. PICK row \in worker[w].batch :
        /\ row[1] = worker[w].slot
        /\ records' = IF records[row[1]] = row[2]
                      THEN [records EXCEPT ![row[1]] =
                              Envelope(worker[w].user, worker[w].version, worker[w].key)]
                      ELSE records
        /\ Turns(w, [worker[w] EXCEPT !.phase = "open", !.batch = @ \ {row},
                                      !.slot = 0, !.user = NoKey, !.key = NoKey])
  BY DEF UpdateRow
<1> DEFINE next == [worker[w] EXCEPT !.phase = "open", !.batch = @ \ {row},
                                     !.slot = 0, !.user = NoKey, !.key = NoKey]
<1>2. /\ worker[w].phase = "store" /\ Turns(w, next) /\ Busy(w)
      /\ UNCHANGED <<userKeys, current, serving, retained>>
  BY <1>1 DEF UpdateRow, Busy
<1>3. worker[w] \in WorkerState /\ worker[w].slot \in Slots
  BY <1>2 DEF KeyInv, KeyTypeOK, WorkerState, WorkOK
<1>4. /\ next \in WorkerState /\ next.phase = "open"
      /\ next.version = worker[w].version /\ next.from = worker[w].from
  BY <1>3 DEF WorkerState
<1> HIDE DEF next
<1>5. CASE records' = records
  BY <1>2, <1>4, <1>5, KeyProceeds
<1>6. CASE records' = [records EXCEPT ![row[1]] =
                         Envelope(worker[w].user, worker[w].version, worker[w].key)]
  BY <1>1, <1>2, <1>3, <1>4, <1>6, KeyStores
<1> QED
  BY <1>1, <1>5, <1>6

(* A rotation selects rows, opens them and looks for more. *)
LEMMA KeySelects ==
  ASSUME KeyInv, NEW w \in Workers,
         SelectBatch(w) \/ OpenRow(w) \/ Remaining(w) \/ CountEnvelopes(w)
  PROVE  KeyInv'
<1>0. /\ worker[w] \in WorkerState /\ Busy(w)
      /\ UNCHANGED <<userKeys, records, current, serving, retained>>
  BY DEF KeyInv, KeyTypeOK, WorkerState, Busy, SelectBatch, OpenRow, Remaining, CountEnvelopes
<1>1. CASE SelectBatch(w)
  <2> DEFINE rows  == Selected(worker[w].from)
             first == {s \in rows : Cardinality({r \in rows : r < s}) < BatchLimit}
             picked == {<<s, records[s]>> : s \in first}
             next  == [worker[w] EXCEPT !.phase = "open", !.batch = picked]
  <2>1. first \subseteq {s \in Slots : records[s] # NoKey}
    BY DEF Selected
  <2>2. Turns(w, next)
    BY <1>1 DEF SelectBatch
  <2> HIDE DEF first
  <2>3. picked \in SUBSET (Slots \X Envelopes)
    BY <2>1 DEF KeyInv, KeyTypeOK
  <2> HIDE DEF picked
  <2>4. /\ next \in WorkerState /\ next.phase = "open"
        /\ next.version = worker[w].version /\ next.from = worker[w].from
    BY <1>0, <2>3 DEF WorkerState
  <2> HIDE DEF next
  <2> QED
    BY <1>0, <2>2, <2>4, KeyProceeds
<1>2. CASE OpenRow(w)
  <2>1. PICK row \in worker[w].batch :
          Turns(w, IF userKeys[row[2].user][worker[w].from] # row[2].key THEN Idle
                   ELSE [worker[w] EXCEPT !.phase = "find", !.slot = row[1], !.user = row[2].user])
    BY <1>2 DEF OpenRow
  <2> DEFINE next == [worker[w] EXCEPT !.phase = "find", !.slot = row[1], !.user = row[2].user]
  <2>2. row[1] \in Slots /\ row[2].user \in Users
    BY <1>0 DEF WorkerState, Envelopes
  <2>3. /\ next \in WorkerState /\ next.phase = "find"
        /\ next.version = worker[w].version /\ next.from = worker[w].from
        /\ next.slot \in Slots /\ next.user \in Users
    BY <1>0, <2>2 DEF WorkerState
  <2>4. CASE Turns(w, Idle)
    BY <1>0, <2>4, KeyStops
  <2>5. CASE Turns(w, next)
    <3> HIDE DEF next
    <3> QED
      BY <1>0, <2>3, <2>5, KeyProceeds
  <2> QED
    BY <2>1, <2>4, <2>5
<1>3. ASSUME NEW phase \in {"count", "select", "retire"}, Moves(w, phase),
             phase = "retire" => Selected(worker[w].from) = {}
      PROVE  KeyInv'
  <2> DEFINE next == [worker[w] EXCEPT !.phase = phase]
  <2>1. /\ next \in WorkerState /\ next.phase = phase
        /\ next.version = worker[w].version /\ next.from = worker[w].from
    BY <1>0 DEF WorkerState
  <2>2. Turns(w, next)
    BY <1>3 DEF Moves
  <2> HIDE DEF next
  <2> QED
    BY <1>0, <1>3, <2>1, <2>2, KeyProceeds
<1>4. CASE Remaining(w)
  BY <1>3, <1>4 DEF Remaining
<1>5. CASE CountEnvelopes(w)
  <2>1. CASE Selected(worker[w].from) = {}
    BY <1>3, <1>5, <2>1 DEF CountEnvelopes
  <2>2. CASE Selected(worker[w].from) # {}
    BY <1>0, <1>5, <2>2, KeyStops DEF CountEnvelopes
  <2> QED
    BY <2>1, <2>2
<1> QED
  BY <1>1, <1>2, <1>4, <1>5

(* The keys of the old version go: nothing is sealed with them.            *)
LEMMA KeyRetires == ASSUME KeyInv, NEW w \in Workers, RetireUserKeys(w) PROVE KeyInv'
<1> DEFINE old == worker[w].from
<1>1. /\ worker[w].phase = "retire" /\ worker' = [worker EXCEPT ![w] = Idle]
      /\ userKeys' = [u \in Users |-> [userKeys[u] EXCEPT ![old] = NoKey]]
      /\ UNCHANGED <<records, current, serving, retained>>
  BY DEF RetireUserKeys, Turns
<1>2. /\ userKeys' \in [Users -> [Versions -> Workers \cup {NoKey}]]
      /\ \A u \in Users, v \in Versions : v # old => userKeys'[u][v] = userKeys[u][v]
  BY <1>1 DEF KeyInv, KeyTypeOK
<1>3. /\ worker' \in [Workers -> WorkerState]
      /\ \A x \in Workers : worker'[x] = IF x = w THEN Idle ELSE worker[x]
  BY <1>1, IdleType, WorkerTurns
<1>4. \A x \in Workers : Busy(x)' => Busy(x) /\ worker'[x] = worker[x]
  BY <1>3, IdleType DEF Busy
<1>5. \A x \in Workers : worker'[x].phase # "idle" => worker'[x] = worker[x]
  BY <1>3, IdleType
<1>6. KeyTypeOK' /\ RingOK'
  BY <1>1, <1>2, <1>3 DEF KeyInv, KeyTypeOK, WorkerState, RingOK
<1>7. WorkOK' /\ OldIsBehind' /\ RetiresUnused'
  BY <1>1, <1>4, <1>5 DEF KeyInv, WorkOK, OldIsBehind, RetiresUnused, Busy, Selected
<1>8. HandOK'
  <2> SUFFICES ASSUME NEW x \in Workers, worker[x].phase = "store", worker'[x] = worker[x]
               PROVE  /\ worker[x].key # NoKey
                      /\ userKeys'[worker[x].user][worker[x].version] = worker[x].key
    BY <1>5 DEF HandOK
  <2>1. Busy(x) /\ Busy(w)
    BY <1>1 DEF Busy
  <2>2. /\ worker[x].user \in Users /\ worker[x].version \in Versions
        /\ worker[x].version \in Nat /\ old \in Nat
    BY VersionNumbers DEF KeyInv, WorkOK
  <2>3. old < worker[x].version
    BY <2>1 DEF KeyInv, OldIsBehind
  <2> QED
    BY <1>2, <2>2, <2>3 DEF KeyInv, HandOK
<1>9. StoredOpens'
  <2>1. \A s \in Slots : records[s] # NoKey =>
          /\ records[s].user \in Users /\ records[s].version \in Versions
          /\ records[s].version # old
    BY <1>1 DEF KeyInv, KeyTypeOK, RetiresUnused, Selected, Envelopes
  <2> QED
    BY <1>1, <1>2, <2>1 DEF KeyInv, StoredOpens
<1> QED
  BY <1>6, <1>7, <1>8, <1>9 DEF KeyInv

(* Every step preserves the invariant. *)
LEMMA KeyStep == KeyInv /\ [KeyNext]_keyVars => KeyInv'
<1> SUFFICES ASSUME KeyInv, [KeyNext]_keyVars PROVE KeyInv'
  OBVIOUS
<1>1. CASE UNCHANGED keyVars
  BY <1>1 DEF keyVars, KeyInv, KeyTypeOK, RingOK, WorkOK, HandOK, OldIsBehind,
              RetiresUnused, StoredOpens, Busy, Selected
<1>2. ASSUME NEW w \in Workers, Work(w) PROVE KeyInv'
  <2>1. CASE StopWorker(w)
    BY <2>1, KeyStops DEF StopWorker
  <2> QED
    BY <1>2, <2>1, KeyStarts, KeyFinds, KeyCreates, KeyAppends, KeySelects, KeyUpdates,
       KeyRetires DEF Work
<1> QED
  BY <1>1, <1>2, KeyRings DEF KeyNext

(***************************************************************************)
(* Whatever requests, rotations and deployments overlap, and wherever they *)
(* stop, every stored envelope has its user key in the table and its       *)
(* master key in the keyring.                                              *)
(***************************************************************************)
THEOREM NothingIsLostInRotation == KeySpec => []StoredOpens
<1>1. KeyInv => StoredOpens
  BY DEF KeyInv
<1> QED
  BY <1>1, KeyInvInit, KeyStep, PTL DEF KeySpec

-----------------------------------------------------------------------------
(* All services together, as one run checks them (MCServices.tla) *)

(* Each service behaves as it does by itself: a step is one of its own, or *)
(* it leaves the service alone.                                            *)
LEMMA ServicesBehave == Spec => BillingSpec /\ CatalogSpec /\ KeySpec /\ LoginSpec /\ TabsSpec
<1>1. Init => BillingInit /\ CatalogInit /\ KeyInit /\ LoginInit /\ TabsInit
  BY DEF Init, QuotaInit
<1>2. [Next]_serviceVars =>
        /\ [BillingNext]_billingVars /\ [CatalogNext]_catalogVars /\ [KeyNext]_keyVars
        /\ [LoginNext]_loginVars /\ [TabsNext]_tabVars
  <2> SUFFICES ASSUME [Next]_serviceVars
               PROVE  /\ [BillingNext]_billingVars /\ [CatalogNext]_catalogVars /\ [KeyNext]_keyVars
                      /\ [LoginNext]_loginVars /\ [TabsNext]_tabVars
    OBVIOUS
  <2>0. UNCHANGED quotaVars => UNCHANGED catalogVars
    BY DEF quotaVars
  <2>1. CASE BillingPart
    BY <2>0, <2>1 DEF BillingPart
  <2>2. CASE CatalogPart
    BY <2>2 DEF CatalogPart
  <2>3. CASE QuotaPart
    BY <2>3, QuotaStepsOnCatalog DEF QuotaPart
  <2>4. CASE KeyPart
    BY <2>0, <2>4 DEF KeyPart
  <2>5. CASE LoginPart
    BY <2>0, <2>5 DEF LoginPart
  <2>6. CASE TabsPart
    BY <2>0, <2>6 DEF TabsPart
  <2>7. CASE MergePart
    BY <2>0, <2>7 DEF MergePart
  <2>8. CASE UNCHANGED serviceVars
    BY <2>0, <2>8 DEF serviceVars
  <2> QED
    BY <2>1, <2>2, <2>3, <2>4, <2>5, <2>6, <2>7, <2>8 DEF Next
<1> QED
  BY <1>1, <1>2, PTL DEF Spec, BillingSpec, CatalogSpec, KeySpec, LoginSpec, TabsSpec

(* Where the catalog is checked by itself, the ceiling of the quotas is    *)
(* left behind and nothing is used.                                        *)
QuotaTypes ==
  /\ component # "catalog" => QuotaInv
  /\ CatalogTyped /\ UsageTyped
  /\ month \in 0..MaxMonth /\ ceiling \in Nat

(* A first state, with the host's own catalog or with none. *)
LEMMA QuotaTypesInit == Init => QuotaTypes
BY QuotaInvInit, CatalogTypedInit, UsageTypedInit DEF Init, QuotaTypes, QuotaInit, QuotaInv

(* The inductive step. *)
LEMMA QuotaTypesStep == CatalogInv /\ QuotaTypes /\ [Next]_serviceVars => QuotaTypes'
<1> SUFFICES ASSUME CatalogInv, QuotaTypes, [Next]_serviceVars PROVE QuotaTypes'
  OBVIOUS
<1>1. CASE CatalogPart
  <2>1. /\ [CatalogNext]_catalogVars /\ component' = "catalog"
        /\ UNCHANGED <<granted, entitled, month, usage, request, ceiling>>
    BY <1>1 DEF CatalogPart, quotaOnly
  <2>2. CatalogTyped'
    BY <2>1, CatalogTypedStep DEF QuotaTypes
  <2>3. grants \subseteq grants'
    BY <2>1 DEF CatalogNext, Edit, LoadCatalog, SendCatalog, ReplaceCatalog, PutGrant, catalogVars
  <2>4. UsageTyped'
    BY <2>1, <2>3 DEF QuotaTypes, UsageTyped
  <2> QED
    BY <2>1, <2>2, <2>4 DEF QuotaTypes
<1>2. ASSUME [QuotaNext]_quotaVars, component # "catalog", component' # "catalog"
      PROVE  QuotaTypes'
  BY <1>2, CatalogTypedStep, UsageTypedStep, QuotaStep, QuotaStepsOnCatalog
     DEF QuotaTypes, QuotaInv
<1>3. CASE QuotaPart
  <2>1. [QuotaNext]_quotaVars /\ component = "quota" /\ component' = "quota"
    BY <1>3 DEF QuotaPart
  <2> QED
    BY <1>2, <2>1
<1>4. CASE UNCHANGED <<component, quotaVars>>
  <2>1. CASE component # "catalog"
    BY <1>2, <1>4, <2>1
  <2>2. CASE component = "catalog"
    <3>1. [CatalogNext]_catalogVars
      BY <1>4 DEF quotaVars
    <3>2. CatalogTyped'
      BY <3>1, CatalogTypedStep DEF QuotaTypes
    <3> QED
      BY <1>4, <2>2, <3>2 DEF QuotaTypes, UsageTyped, quotaVars, catalogVars
  <2> QED
    BY <2>1, <2>2
<1>5. CASE \/ BillingPart \/ KeyPart \/ LoginPart \/ TabsPart \/ MergePart
           \/ UNCHANGED serviceVars
  <2>1. UNCHANGED <<component, quotaVars>>
    BY <1>5 DEF BillingPart, KeyPart, LoginPart, TabsPart, MergePart, serviceVars
  <2> QED
    BY <1>4, <2>1
<1> QED
  BY <1>1, <1>3, <1>5 DEF Next

(***************************************************************************)
(* The state of every service is well typed, however its steps interleave. *)
(* A request of a quota is typed only because what it reads is: a stored   *)
(* catalog was validated against the one before it (domain/billing.ts,     *)
(* validateCatalog), so its entitlements stand for plans it has and its    *)
(* limits are numbers, whoever edits in between.                           *)
(***************************************************************************)
THEOREM ServicesAreTyped == Spec => []ServicesTypeOK
<1>1. BillingSpec => []BillingTypeOK
  <2>1. BillingInv => BillingTypeOK
    BY DEF BillingInv
  <2> QED
    BY <2>1, BillingInvariant, PTL
<1>2. KeySpec => []KeyTypeOK
  <2>1. KeyInv => KeyTypeOK
    BY DEF KeyInv
  <2> QED
    BY <2>1, KeyInvInit, KeyStep, PTL DEF KeySpec
<1>3. LoginSpec => []LoginTypeOK
  <2>1. LoginInv => LoginTypeOK
    BY DEF LoginInv
  <2> QED
    BY <2>1, LoginInvInit, LoginStep, PTL DEF LoginSpec
<1>4. TabsSpec => []TabsTypeOK
  <2>1. TabsInv => TabsTypeOK
    BY DEF TabsInv
  <2> QED
    BY <2>1, TabsInvInit, TabsStep, PTL DEF TabsSpec
<1>5. Spec => []CatalogInv
  BY ServicesBehave, CatalogInvariant, PTL
<1>6. Spec => []QuotaTypes
  BY <1>5, QuotaTypesInit, QuotaTypesStep, PTL DEF Spec
<1>7. CatalogInv /\ QuotaTypes => QuotaTypeOK
  BY DEF CatalogInv, RowOK, QuotaTypes, CatalogTyped, UsageTyped, RequestState, QuotaTypeOK
<1>8. BillingTypeOK /\ KeyTypeOK /\ LoginTypeOK /\ TabsTypeOK /\ QuotaTypeOK => ServicesTypeOK
  BY DEF ServicesTypeOK
<1> QED
  BY ServicesBehave, <1>1, <1>2, <1>3, <1>4, <1>5, <1>6, <1>7, <1>8, PTL

=============================================================================
