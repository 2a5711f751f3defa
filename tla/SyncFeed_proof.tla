--------------------------- MODULE SyncFeed_proof ---------------------------
(***************************************************************************)
(* Theorems about SyncFeed.tla, for any number of accounts, records,       *)
(* mutations and readers and any page size; about SyncController.tla; and, *)
(* from these and from what SyncClient_proof and AccountLifecycle_proof    *)
(* prove in general, about MCLiveness.tla, which runs the four components. *)
(***************************************************************************)
EXTENDS MCLiveness, SyncLog_proof

(* The devices and the accounts of MCLiveness, with their theorems. *)
ClientProof ==
  INSTANCE SyncClient_proof WITH
    Owners <- {o1}, Records <- {r1}, Mutations <- {m1, m2},
    MutationOwner <- [m \in {m1, m2} |-> o1],
    Devices <- {d1, d2}, DeviceOwner <- [d \in {d1, d2} |-> o1],
    MutationDevice <- [m \in {m1, m2} |-> IF m = m1 THEN d1 ELSE d2],
    PageSize <- 1, BatchSize <- 1,
    log <- serverLog, draft <- drafts, acked <- acks

LifeProof ==
  INSTANCE AccountLifecycle_proof WITH
    Subjects <- {s1}, Devices <- {d1}, DeviceSubject <- [d \in {d1} |-> s1],
    Accounts <- {a1, a2}, LegacyAccount <- [s \in {s1} |-> a1],
    Environments <- {production, sandbox}, Requests <- {q1}, Crons <- {cron}

-----------------------------------------------------------------------------
(* The change feed                                                         *)

(* What a device gets is the page of its account's rows. *)
LEMMA PageIsOfRows ==
  \A owner, cursor : /\ pullChanges(owner, cursor) = PageOf(owner, cursor, PageSize)
                     /\ After(owner, cursor) = RowsAfter(owner, cursor)
BY DEF pullChanges, listChanges, PageOf, First, After, RowsAfter

(***************************************************************************)
(* The inductive invariant. A checkpoint never points past the end of the  *)
(* log: otherwise a version that is stored later would be taken for one    *)
(* the reader has already seen.                                            *)
(***************************************************************************)
CursorInLog == \A c \in Readers : reader[c].cursor <= Len(log)

FeedInv == LogOK /\ TypeOK /\ CursorInLog /\ CheckpointCoversReplica

(* A reader starts with nothing at checkpoint zero of an empty log. *)
LEMMA FeedInit == Init => FeedInv
<1> SUFFICES ASSUME Init PROVE FeedInv
  OBVIOUS
<1>1. LogOK
  BY LogInitOK DEF Init
<1>2. TypeOK
  BY DEF Init, TypeOK, NoRevision
<1>3. CursorInLog
  BY DEF Init, LogInit, CursorInLog
<1>4. CheckpointCoversReplica
  BY DEF Init, LogInit, CheckpointCoversReplica, IsLastBefore
<1> QED
  BY <1>1, <1>2, <1>3, <1>4 DEF FeedInv

(* A writer's step happens behind every checkpoint. *)
LEMMA FeedWrite ==
  ASSUME FeedInv, NEW m \in Mutations, Write(m)
  PROVE  FeedInv'
<1>1. reader' = reader /\ TypeOK'
  BY DEF Write, FeedInv, TypeOK
<1>2. CASE LogCompose(m)
  <2>1. LogOK' /\ log' = log
    BY <1>2, LogComposeOK DEF FeedInv
  <2> QED
    BY <1>1, <2>1
    DEF FeedInv, CursorInLog, CheckpointCoversReplica, IsLastBefore, VersionOf
<1>3. CASE LogAccept(m)
  <2>1. /\ LogOK'
        /\ DOMAIN log' = DOMAIN log \cup {Len(log) + 1}
        /\ \A k \in DOMAIN log : log'[k] = log[k]
        /\ log \in Seq(Version) /\ log' \in Seq(Version)
    BY <1>3, LogAcceptOK DEF FeedInv, LogOK
  <2>2. Len(log) \in Nat /\ Len(log') = Len(log) + 1
    BY <1>3, AppendExtends DEF FeedInv, LogOK, LogAccept
  <2>3. \A c \in Readers : reader[c].cursor \in Nat /\ reader[c].cursor <= Len(log)
    BY DEF FeedInv, CursorInLog, TypeOK
  <2>4. CursorInLog'
    BY <1>1, <2>2, <2>3 DEF CursorInLog
  <2>5. ASSUME NEW c \in Readers, NEW r \in Records
        PROVE  IsLastBefore(ReaderOwner[c], r, reader[c].replica[r], reader[c].cursor + 1)'
    <3>1. LastBeforeIn(log, ReaderOwner[c], r, reader[c].replica[r], reader[c].cursor + 1)
      BY IsLastBeforeDef DEF FeedInv, CheckpointCoversReplica
    <3>2. LastBeforeIn(log', ReaderOwner[c], r, reader[c].replica[r], reader[c].cursor + 1)
      BY <2>1, <2>3, <3>1, AppendBehind
    <3> QED
      BY <1>1, <3>2 DEF IsLastBefore, VersionOf, LastBeforeIn
  <2> QED
    BY <1>1, <2>1, <2>4, <2>5 DEF FeedInv, CheckpointCoversReplica
<1> QED
  BY <1>2, <1>3 DEF Write

(* A pull applies one page. *)
LEMMA FeedPull ==
  ASSUME FeedInv, NEW c \in Readers, Pull(c)
  PROVE  /\ FeedInv'
         /\ ~reader'[c].more => After(ReaderOwner[c], reader'[c].cursor) = {}
<1> DEFINE owner  == ReaderOwner[c]
           cursor == reader[c].cursor
           page   == pullChanges(owner, cursor)
           Of(r)  == {i \in page.changes : log[i].record = r}
           Shown(r) == IF Of(r) = {} THEN reader[c].replica[r] ELSE Max(Of(r))
           after  == [cursor  |-> page.cursor,
                      more    |-> page.hasMore,
                      replica |-> [r \in Records |-> Shown(r)]]
<1>1. reader' = [reader EXCEPT ![c] = after] /\ UNCHANGED logVars
  BY DEF Pull
<1>2. LogOK /\ LogOK' /\ log' = log /\ log \in Seq(Version)
  BY <1>1 DEF FeedInv, LogOK, DraftOK, logVars
<1>3. cursor \in Nat /\ cursor <= Len(log)
  BY DEF FeedInv, TypeOK, CursorInLog
<1>4. \A d \in Readers : reader'[d] = IF d = c THEN after ELSE reader[d]
  BY <1>1 DEF FeedInv, TypeOK
<1>0. page = pullChanges(owner, cursor)
  OBVIOUS
<1> HIDE DEF page, owner, cursor
<1>5. /\ Covers(log, page, owner, cursor)
      /\ page.cursor \in Nat /\ page.cursor <= Len(log)
      /\ page.hasMore \in BOOLEAN
      /\ ~page.hasMore => After(owner, page.cursor) = {}
  <2>1. page = PageOf(owner, cursor, PageSize) /\ PageSize \in Nat \ {0}
    BY <1>0, PageIsOfRows, PageAssumption
  <2>2. /\ Covers(log, page, owner, cursor) /\ page.hasMore \in BOOLEAN
        /\ ~page.hasMore => RowsAfter(owner, page.cursor) = {}
    BY <1>2, <1>3, <2>1, PageCovers
  <2> QED
    BY <2>2, PageIsOfRows DEF Covers
<1>6. ASSUME NEW r \in Records
      PROVE  LastBeforeIn(log, owner, r, Shown(r), page.cursor + 1)
  <2>1. LastBeforeIn(log, owner, r, reader[c].replica[r], cursor + 1)
    BY IsLastBeforeDef DEF FeedInv, CheckpointCoversReplica, owner, cursor
  <2> DEFINE found == Of(r)
             old  == reader[c].replica[r]
             next == Shown(r)
  <2>2. /\ found = {i \in page.changes : log[i].record = r}
        /\ next = IF found = {} THEN old ELSE Max(found)
    OBVIOUS
  <2> HIDE DEF found, old, next
  <2>3. LastBeforeIn(log, owner, r, old, cursor + 1)
    BY <2>1 DEF old
  <2>4. LastBeforeIn(log, owner, r, next, page.cursor + 1)
    BY <1>2, <1>3, <1>5, <2>2, <2>3, PageAdvances
  <2> QED
    BY <2>4 DEF next
<1>7. \A r \in Records : Shown(r) \in Nat
  BY <1>2, <1>6 DEF LastBeforeIn, NoRevision
<1> HIDE DEF Shown
<1>8. after \in [cursor : Nat, more : BOOLEAN, replica : [Records -> Nat]]
  BY <1>5, <1>7
<1>9. TypeOK'
  BY <1>1, <1>8 DEF FeedInv, TypeOK
<1>10. /\ after.cursor = page.cursor /\ after.more = page.hasMore
       /\ \A r \in Records : after.replica[r] = Shown(r)
  OBVIOUS
<1> HIDE DEF after
<1>11. CursorInLog'
  BY <1>2, <1>4, <1>5, <1>10 DEF FeedInv, CursorInLog
<1>12. CheckpointCoversReplica'
  <2> SUFFICES ASSUME NEW d \in Readers, NEW r \in Records
               PROVE  LastBeforeIn(log, ReaderOwner[d], r,
                                   reader'[d].replica[r], reader'[d].cursor + 1)
    BY <1>2 DEF CheckpointCoversReplica, IsLastBefore, VersionOf, LastBeforeIn
  <2>1. CASE d = c
    BY <1>4, <1>6, <1>10, <2>1 DEF owner
  <2>2. CASE d # c
    BY <1>4, <2>2, IsLastBeforeDef DEF FeedInv, CheckpointCoversReplica
  <2> QED
    BY <2>1, <2>2
<1>13. ~reader'[c].more => After(owner, reader'[c].cursor) = {}
  BY <1>4, <1>5, <1>10
<1> QED
  BY <1>2, <1>9, <1>11, <1>12, <1>13 DEF FeedInv, owner

(* Every step preserves the invariant. *)
LEMMA FeedStep == FeedInv /\ [Next]_vars => FeedInv'
<1> SUFFICES ASSUME FeedInv, [Next]_vars PROVE FeedInv'
  OBVIOUS
<1>1. CASE UNCHANGED vars
  BY <1>1 DEF vars, logVars, FeedInv, LogOK, DraftOK, TypeOK, CursorInLog,
              CheckpointCoversReplica, IsLastBefore, VersionOf
<1> QED
  BY <1>1, FeedWrite, FeedPull DEF Next

(* Readers stay well formed. *)
THEOREM FeedTypeCorrect == Spec => []TypeOK
<1>1. FeedInv => TypeOK
  BY DEF FeedInv
<1> QED
  BY <1>1, FeedInit, FeedStep, PTL DEF Spec

(***************************************************************************)
(* Whatever the page size and however writers come in between, a reader's  *)
(* projection is the state of its account at its checkpoint.               *)
(***************************************************************************)
THEOREM CheckpointIsExact == Spec => []CheckpointCoversReplica
<1>1. FeedInv => CheckpointCoversReplica
  BY DEF FeedInv
<1> QED
  BY <1>1, FeedInit, FeedStep, PTL DEF Spec

(* A reader that is told there is no next page has all there is.           *)
THEOREM PullEndsAtTheEnd == Spec => NoPrematureEnd
<1> DEFINE Ends == \A c \in Readers :
                     reader'[c] # reader[c] /\ ~reader'[c].more
                       => After(ReaderOwner[c], reader'[c].cursor) = {}
<1>1. ASSUME FeedInv, Next PROVE Ends
  <2> SUFFICES ASSUME NEW c \in Readers, reader'[c] # reader[c], ~reader'[c].more
               PROVE  After(ReaderOwner[c], reader'[c].cursor) = {}
    OBVIOUS
  <2>1. PICK d \in Readers : Pull(d)
    BY <1>1 DEF Next, Write
  <2>2. d = c
    BY <1>1, <2>1 DEF Pull, FeedInv, TypeOK
  <2> QED
    BY <1>1, <2>1, <2>2, FeedPull
<1>2. FeedInv /\ [Next]_vars => [Ends]_vars
  BY <1>1
<1>3. Spec => [][Ends]_vars
  BY <1>2, FeedInit, FeedStep, PTL DEF Spec
<1> QED
  BY <1>3 DEF NoPrematureEnd

-----------------------------------------------------------------------------
(* The timers of the Flutter controller                                    *)

(* One timer serves every synchronization; a page that is gone has none.   *)
ControllerInv == ControllerTypeOK /\ ScheduledIsPending /\ (disposed => ~asked /\ ~timer)

(* No synchronization was scheduled yet. *)
LEMMA ControllerStarts == ControllerInit => ControllerInv
BY DEF ControllerInit, ControllerInv, ControllerTypeOK, ScheduledIsPending

(* A step of the timer or of a run. *)
LEMMA RunKeepsPending ==
  ASSUME ControllerInv,
         Signal \/ TimerFires \/ RunEnds \/ RunErases \/ EraseFails \/ RunFails
  PROVE  ControllerInv'
<1>1. ASSUME NEW failed \in BOOLEAN, Resumes(failed)
      PROVE  user' \in {"none", "draining", "opening", "dialog", "signing in", "leaving",
                        "going", "deleting", "erasing"}
  BY <1>1 DEF Resumes, ControllerInv, ControllerTypeOK
<1>2. CASE Signal
  BY <1>2 DEF Signal, Schedules, ControllerInv, ControllerTypeOK, ScheduledIsPending
<1>3. CASE TimerFires
  BY <1>3 DEF TimerFires, Joins, ControllerInv, ControllerTypeOK, ScheduledIsPending
<1>4. CASE RunEnds
  <2>1. PICK failed \in {FALSE, signedIn} : Resumes(failed)
    BY <1>4 DEF RunEnds
  <2>2. failed \in BOOLEAN
    BY DEF ControllerInv, ControllerTypeOK
  <2> QED
    BY <1>1, <1>4, <2>1, <2>2
       DEF RunEnds, Answers, ControllerInv, ControllerTypeOK, ScheduledIsPending
<1>5. CASE RunErases
  BY <1>1, <1>5 DEF RunErases, SessionOver, ControllerInv, ControllerTypeOK, ScheduledIsPending
<1>6. CASE EraseFails \/ RunFails
  <2>1. Resumes(TRUE) /\ Retries /\ waiting' = {} /\ run' = FALSE
    BY <1>6 DEF EraseFails, RunFails
  <2>2. UNCHANGED <<signedIn, invalidated, disposed>> /\ deletion' \in BOOLEAN
    BY <1>6 DEF EraseFails, RunFails, ControllerInv, ControllerTypeOK
  <2>3. /\ timer' \in BOOLEAN /\ asked' \in BOOLEAN
        /\ asked' => timer'
        /\ disposed => ~asked' /\ ~timer'
    BY <2>1, <2>2 DEF Retries, Schedules, Answers, ControllerInv, ControllerTypeOK, ScheduledIsPending
  <2> QED
    BY <1>1, <2>1, <2>2, <2>3 DEF ControllerInv, ControllerTypeOK, ScheduledIsPending
<1> QED
  BY <1>2, <1>3, <1>4, <1>5, <1>6

(* A call of the user interface, and the end of the session or the page. *)
LEMMA CallKeepsPending ==
  ASSUME ControllerInv, Invalidated \/ UserCalls \/ Dispose
  PROVE  ControllerInv'
<1>1. CASE Invalidated
  BY <1>1 DEF Invalidated, SessionOver, ControllerInv, ControllerTypeOK, ScheduledIsPending
<1>2. CASE Dispose
  BY <1>2 DEF Dispose, ControllerInv, ControllerTypeOK, ScheduledIsPending
<1>3. CASE SignInAndSync
  BY <1>3 DEF SignInAndSync, Joins, ControllerInv, ControllerTypeOK, ScheduledIsPending
<1>4. CASE RegisterAccount \/ OpenDialog
  <2>1. CASE RegisterAccount
    BY <2>1 DEF RegisterAccount, ControllerInv, ControllerTypeOK, ScheduledIsPending
  <2>2. CASE OpenDialog
    BY <2>2 DEF OpenDialog, ControllerInv, ControllerTypeOK, ScheduledIsPending
  <2> QED
    BY <1>4, <2>1, <2>2
<1>5. CASE Entered
  BY <1>5 DEF Entered, Joins, ControllerInv, ControllerTypeOK, ScheduledIsPending
<1>6. ASSUME NEW call \in {"leaving", "deleting"}, NEW next \in {"going", "erasing"},
             Leave(call, next)
      PROVE  ControllerInv'
  <2>1. deletion' \in BOOLEAN
    BY <1>6 DEF Leave, ControllerInv, ControllerTypeOK
  <2>2. user' \in {call, next} /\ waiting' \subseteq {"sync", "user", "leave"}
    BY <1>6 DEF Leave, ControllerInv, ControllerTypeOK
  <2>3. (waiting' # {} => run') /\ ("sync" \in waiting => "sync" \in waiting')
    BY <1>6 DEF Leave, ControllerInv, ControllerTypeOK
  <2>4. timer' = FALSE /\ asked' \in BOOLEAN /\ (asked' => "sync" \in waiting)
    <3>1. timer' = FALSE /\ asked' = ("sync" \in waiting)
      BY <1>6 DEF Leave, Cancels
    <3>2. ("sync" \in waiting) \in BOOLEAN
      OBVIOUS
    <3>3. asked' => "sync" \in waiting
      BY <3>1
    <3> QED
      BY <3>1, <3>2, <3>3
  <2>5. ~disposed /\ UNCHANGED <<run, signedIn, invalidated, disposed>>
    BY <1>6 DEF Leave
  <2> QED
    BY <2>1, <2>2, <2>3, <2>4, <2>5 DEF ControllerInv, ControllerTypeOK, ScheduledIsPending
<1>7. CASE Left
  <2>1. user' = "none" /\ UNCHANGED <<run, waiting, deletion, disposed>>
    BY <1>7 DEF Left
  <2>2. CASE SessionOver
    BY <2>1, <2>2 DEF SessionOver, ControllerInv, ControllerTypeOK, ScheduledIsPending
  <2>3. CASE signedIn' \in {FALSE, signedIn} /\ UNCHANGED <<timer, invalidated, asked>>
    BY <2>1, <2>3 DEF ControllerInv, ControllerTypeOK, ScheduledIsPending
  <2> QED
    BY <1>7, <2>2, <2>3 DEF Left
<1> QED
  BY <1>1, <1>2, <1>3, <1>4, <1>5, <1>6, <1>7 DEF UserCalls, SignOut, DeleteAccount

(* Every step keeps the promise. *)
LEMMA ControllerStep == ControllerInv /\ [ControllerNext]_controllerVars => ControllerInv'
<1> SUFFICES ASSUME ControllerInv, [ControllerNext]_controllerVars PROVE ControllerInv'
  OBVIOUS
<1>1. CASE UNCHANGED controllerVars
  BY <1>1 DEF controllerVars, ControllerInv, ControllerTypeOK, ScheduledIsPending
<1> QED
  BY <1>1, RunKeepsPending, CallKeepsPending DEF ControllerNext

-----------------------------------------------------------------------------
(***************************************************************************)
(* The devices of MCLiveness.  Its instance of SyncClient.tla and the one  *)
(* the theorems are about are the same formulas.                           *)
(***************************************************************************)
LEMMA ClientAssumptions ==
  /\ ClientProof!OwnerAssumption /\ ClientProof!DeviceAssumption
  /\ ClientProof!SizeAssumption /\ ClientProof!DraftAssumption
  /\ ClientProof!NumbersAssumption /\ ClientProof!AbsentAssumption
  /\ ClientProof!OrdersAssumption /\ ClientProof!LimitAssumption
  /\ ClientProof!NoneAssumption
<1>1. ClientProof!OwnerAssumption /\ ClientProof!DeviceAssumption /\ ClientProof!SizeAssumption
  BY ModelAssumption
     DEF ClientProof!OwnerAssumption, ClientProof!DeviceAssumption, ClientProof!SizeAssumption
<1>2. ClientProof!DraftAssumption
  <2>1. ClientProof!Draft \subseteq Draft
    BY ModelAssumption DEF ClientProof!Draft, Draft, ClientProof!Payload, Payload
  <2> QED
    BY <2>1, DraftAssumption DEF ClientProof!DraftAssumption
<1>3. /\ ClientProof!NumbersAssumption /\ ClientProof!AbsentAssumption
      /\ ClientProof!OrdersAssumption /\ ClientProof!LimitAssumption
  BY NumbersAssumption, AbsentAssumption, OrdersAssumption, LimitAssumption
     DEF ClientProof!NumbersAssumption, ClientProof!AbsentAssumption,
         ClientProof!OrdersAssumption, ClientProof!LimitAssumption
<1>4. ClientProof!NoneAssumption
  BY NoneAssumption DEF ClientProof!NoneAssumption, ClientProof!Payload, Payload
<1> QED
  BY <1>1, <1>2, <1>3, <1>4

(* The devices begin alike. *)
LEMMA SameStart == Client!Init => ClientProof!Init
BY DEF Client!Init, ClientProof!Init, Client!LogInit, ClientProof!LogInit, Client!NewDatabase,
       ClientProof!NewDatabase, Client!Stopped, ClientProof!Stopped, Client!Engine,
       ClientProof!Engine, Client!NoPage, ClientProof!NoPage, Client!NoRevision,
       ClientProof!NoRevision

(* A run that begins, goes on or stops. *)
LEMMA SameRun ==
  ASSUME NEW d \in {d1, d2}, Client!Run(d) \/ Client!Stop(d)
  PROVE  ClientProof!Run(d) \/ ClientProof!Stop(d)
<1>1. Client!Start(d) => ClientProof!Start(d)
  BY DEF Client!Start, ClientProof!Start, Client!Engine, ClientProof!Engine, Client!Goes,
         ClientProof!Goes, Client!NoPage, ClientProof!NoPage, Client!logVars,
         ClientProof!logVars
<1>2. Client!Fetch(d) => ClientProof!Fetch(d)
  BY DEF Client!Fetch, ClientProof!Fetch, Client!Engine, ClientProof!Engine, Client!Goes,
         ClientProof!Goes, Client!NoPage, ClientProof!NoPage, Client!logVars,
         ClientProof!logVars, Client!Feed!pullChanges, ClientProof!Feed!pullChanges,
         Client!Feed!listChanges, ClientProof!Feed!listChanges, Client!Feed!After,
         ClientProof!Feed!After, Client!Feed!Cardinality, ClientProof!Feed!Cardinality,
         Client!Feed!Max, ClientProof!Feed!Max
<1>3. Client!Apply(d) => ClientProof!Apply(d)
  BY DEF Client!Apply, ClientProof!Apply, Client!Engine, ClientProof!Engine, Client!Goes,
         ClientProof!Goes, Client!NoPage, ClientProof!NoPage, Client!logVars,
         ClientProof!logVars, Client!Stopped, ClientProof!Stopped, Client!Projects,
         ClientProof!Projects, Client!Shown, ClientProof!Shown, Client!Applied,
         ClientProof!Applied, Client!InPage, ClientProof!InPage, Client!AfterPage,
         ClientProof!AfterPage, Client!Max, ClientProof!Max
<1>4. Client!Push(d) => ClientProof!Push(d)
  BY DEF Client!Push, ClientProof!Push, Client!Engine, ClientProof!Engine, Client!Goes,
         ClientProof!Goes, Client!NoPage, ClientProof!NoPage, Client!logVars,
         ClientProof!logVars, Client!Outbox, ClientProof!Outbox, Client!Cardinality,
         ClientProof!Cardinality, Client!Min, ClientProof!Min
<1>5. Client!NothingPending(d) => ClientProof!NothingPending(d)
  BY DEF Client!NothingPending, ClientProof!NothingPending, Client!Engine, ClientProof!Engine,
         Client!Goes, ClientProof!Goes, Client!NoPage, ClientProof!NoPage, Client!logVars,
         ClientProof!logVars, Client!Outbox, ClientProof!Outbox
<1>6. Client!Acknowledge(d) => ClientProof!Acknowledge(d)
  BY DEF Client!Acknowledge, ClientProof!Acknowledge, Client!Engine, ClientProof!Engine,
         Client!Goes, ClientProof!Goes, Client!NoPage, ClientProof!NoPage, Client!Confirms,
         ClientProof!Confirms, Client!Accepted, ClientProof!Accepted
<1>7. Client!Stop(d) => ClientProof!Stop(d)
  BY DEF Client!Stop, ClientProof!Stop, Client!Engine, ClientProof!Engine, Client!Goes,
         ClientProof!Goes, Client!NoPage, ClientProof!NoPage, Client!logVars,
         ClientProof!logVars, Client!Stopped, ClientProof!Stopped
<1> QED
  BY <1>1, <1>2, <1>3, <1>4, <1>5, <1>6, <1>7 DEF Client!Run, ClientProof!Run

(* An edit, and the server that accepts it. *)
LEMMA SameEdit ==
  \A d \in {d1, d2}, m \in {m1, m2}, payload \in Client!Payload \cup {None} :
    Client!Edit(d, r1, m, payload) => ClientProof!Edit(d, r1, m, payload)
BY DEF Client!Edit, ClientProof!Edit, Client!BaseFor, ClientProof!BaseFor, Client!NoRevision,
       ClientProof!NoRevision

(* The server accepts and merges alike. *)
LEMMA SameAccept ==
  \A m \in {m1, m2} : /\ Client!LogAccept(m) <=> ClientProof!LogAccept(m)
                      /\ Client!Accept(m) => ClientProof!Accept(m)
<1>1. \A m \in {m1, m2} : Client!LogAccept(m) <=> ClientProof!LogAccept(m)
  BY DEF Client!LogAccept, ClientProof!LogAccept, Client!Accepted, ClientProof!Accepted,
         Client!IsCurrent, ClientProof!IsCurrent, Client!IsLastBefore,
         ClientProof!IsLastBefore, Client!VersionOf, ClientProof!VersionOf, Client!NoRevision,
         ClientProof!NoRevision, Client!Resolve, ClientProof!Resolve, Client!PayloadAt,
         ClientProof!PayloadAt, Client!defaultThreeWayMerge, ClientProof!defaultThreeWayMerge,
         Client!preferredPayload, ClientProof!preferredPayload, Client!mergeFields,
         ClientProof!mergeFields, Client!mergeProperty, ClientProof!mergeProperty,
         Client!Empty, ClientProof!Empty, Client!HonouredOrder, ClientProof!HonouredOrder,
         Client!Numeric, ClientProof!Numeric, Client!Comparable, ClientProof!Comparable,
         Client!Outranks, ClientProof!Outranks
<1> QED
  BY <1>1 DEF Client!Accept, ClientProof!Accept

(* So do all their steps. *)
LEMMA SameNext == [Client!Next]_clientVars => [ClientProof!Next]_(ClientProof!vars)
<1> SUFFICES ASSUME [Client!Next]_clientVars PROVE [ClientProof!Next]_(ClientProof!vars)
  OBVIOUS
<1>1. CASE UNCHANGED clientVars
  BY <1>1 DEF clientVars, ClientProof!vars, ClientProof!logVars
<1>2. ASSUME NEW d \in {d1, d2}, NEW m \in {m1, m2},
             NEW payload \in Client!Payload \cup {None}, Client!Edit(d, r1, m, payload)
      PROVE  ClientProof!Next
  <2>1. ClientProof!Edit(d, r1, m, payload)
    BY <1>2, SameEdit
  <2> QED
    BY <2>1 DEF ClientProof!Next, ClientProof!Payload, Client!Payload
<1>3. ASSUME NEW d \in {d1, d2}, Client!Run(d) \/ Client!Stop(d) PROVE ClientProof!Next
  BY <1>3, SameRun DEF ClientProof!Next
<1>4. ASSUME NEW m \in {m1, m2}, Client!Accept(m) PROVE ClientProof!Next
  BY <1>4, SameAccept DEF ClientProof!Next
<1> QED
  BY <1>1, <1>2, <1>3, <1>4 DEF Client!Next

(* What is proved of any devices holds of these. *)
LEMMA DevicesBehave ==
  /\ Client!Init => ClientProof!ClientInv
  /\ ClientProof!ClientInv /\ [Client!Next]_clientVars => ClientProof!ClientInv'
  /\ ClientProof!ClientInv => Client!TypeOK
<1>1. ClientProof!Init => ClientProof!ClientInv
  BY ClientAssumptions, ClientProof!ClientInvInit
<1>2. ClientProof!ClientInv /\ [ClientProof!Next]_(ClientProof!vars) => ClientProof!ClientInv'
  BY ClientAssumptions, ClientProof!ClientStep
<1>3. ClientProof!ClientInv => ClientProof!TypeOK
  BY ClientAssumptions, ClientProof!ClientTyped
<1>4. ClientProof!TypeOK => Client!TypeOK
  BY DEF ClientProof!TypeOK, Client!TypeOK, ClientProof!Payload, Client!Payload
<1> QED
  BY <1>1, <1>2, <1>3, <1>4, SameStart, SameNext

-----------------------------------------------------------------------------
(* The accounts of MCLiveness, likewise. *)
LEMMA LifeAssumptions ==
  LifeProof!NoneAssumption /\ LifeProof!DeviceAssumption /\ LifeProof!LegacyAssumption
BY ModelAssumption
   DEF LifeProof!NoneAssumption, LifeProof!DeviceAssumption, LifeProof!LegacyAssumption

(* The tables begin alike. *)
LEMMA SameTables == Life!Init => LifeProof!Init
BY DEF Life!Init, LifeProof!Init, Life!Legacy, LifeProof!Legacy, Life!Processes,
       LifeProof!Processes, Life!Free, LifeProof!Free, Life!Run, LifeProof!Run

(* A request and its answer. *)
LEMMA SameRequest ==
  ASSUME NEW p \in {q1, cron}, Life!Arrive(p) \/ Life!Open(p) \/ Life!Use(p)
  PROVE  LifeProof!Arrive(p) \/ LifeProof!Open(p) \/ LifeProof!Use(p)
<1>1. Life!ArriveOpen(p) => LifeProof!ArriveOpen(p)
  BY DEF Life!ArriveOpen, LifeProof!ArriveOpen, Life!Becomes, LifeProof!Becomes, Life!Run,
         LifeProof!Run, Life!Free, LifeProof!Free, Life!tables, LifeProof!tables,
         Life!history, LifeProof!history
<1>2. Life!ArriveWithSession(p) => LifeProof!ArriveWithSession(p)
  BY DEF Life!ArriveWithSession, LifeProof!ArriveWithSession, Life!Becomes, LifeProof!Becomes,
         Life!Run, LifeProof!Run, Life!Free, LifeProof!Free, Life!tables, LifeProof!tables,
         Life!history, LifeProof!history
<1>3. Life!ArriveLegacy(p) => LifeProof!ArriveLegacy(p)
  BY DEF Life!ArriveLegacy, LifeProof!ArriveLegacy, Life!Becomes, LifeProof!Becomes, Life!Run,
         LifeProof!Run, Life!Free, LifeProof!Free, Life!tables, LifeProof!tables,
         Life!history, LifeProof!history
<1>4. Life!OpenExisting(p) => LifeProof!OpenExisting(p)
  BY DEF Life!OpenExisting, LifeProof!OpenExisting, Life!Becomes, LifeProof!Becomes, Life!Run,
         LifeProof!Run, Life!Free, LifeProof!Free, Life!tables, LifeProof!tables,
         Life!history, LifeProof!history, Life!Found, LifeProof!Found, Life!Usable,
         LifeProof!Usable, Life!Current, LifeProof!Current
<1>5. Life!OpenNew(p) => LifeProof!OpenNew(p)
  BY DEF Life!OpenNew, LifeProof!OpenNew, Life!Becomes, LifeProof!Becomes, Life!Run,
         LifeProof!Run, Life!Free, LifeProof!Free, Life!tables, LifeProof!tables,
         Life!history, LifeProof!history, Life!Found, LifeProof!Found, Life!Current,
         LifeProof!Current
<1>6. Life!OpenRefused(p) => LifeProof!OpenRefused(p)
  BY DEF Life!OpenRefused, LifeProof!OpenRefused, Life!Becomes, LifeProof!Becomes, Life!Run,
         LifeProof!Run, Life!Free, LifeProof!Free, Life!tables, LifeProof!tables,
         Life!history, LifeProof!history, Life!Found, LifeProof!Found, Life!Usable,
         LifeProof!Usable, Life!Current, LifeProof!Current
<1>7. Life!Insert(p) => LifeProof!Insert(p)
  BY DEF Life!Insert, LifeProof!Insert, Life!Becomes, LifeProof!Becomes, Life!Run,
         LifeProof!Run, Life!Free, LifeProof!Free, Life!tables, LifeProof!tables,
         Life!history, LifeProof!history, Life!Current, LifeProof!Current
<1>8. Life!Reread(p) => LifeProof!Reread(p)
  BY DEF Life!Reread, LifeProof!Reread, Life!Becomes, LifeProof!Becomes, Life!Run,
         LifeProof!Run, Life!Free, LifeProof!Free, Life!tables, LifeProof!tables,
         Life!history, LifeProof!history, Life!Current, LifeProof!Current
<1>9. Life!SaveSession(p) => LifeProof!SaveSession(p)
  BY DEF Life!SaveSession, LifeProof!SaveSession, Life!Becomes, LifeProof!Becomes, Life!Run,
         LifeProof!Run, Life!Free, LifeProof!Free, Life!tables, LifeProof!tables,
         Life!history, LifeProof!history
<1>10. Life!Check(p) => LifeProof!Check(p)
  BY DEF Life!Check, LifeProof!Check, Life!Becomes, LifeProof!Becomes, Life!Run,
         LifeProof!Run, Life!Free, LifeProof!Free, Life!tables, LifeProof!tables,
         Life!history, LifeProof!history, Life!Fenced, LifeProof!Fenced
<1>11. Life!Write(p) => LifeProof!Write(p)
  BY DEF Life!Write, LifeProof!Write, Life!Becomes, LifeProof!Becomes, Life!Run,
         LifeProof!Run, Life!Free, LifeProof!Free, Life!tables, LifeProof!tables,
         Life!history, LifeProof!history, Life!Fenced, LifeProof!Fenced
<1>12. Life!Finish(p) => LifeProof!Finish(p)
  BY DEF Life!Finish, LifeProof!Finish, Life!Becomes, LifeProof!Becomes, Life!Run,
         LifeProof!Run, Life!Free, LifeProof!Free, Life!tables, LifeProof!tables,
         Life!history, LifeProof!history
<1>13. Life!Identity(p) => LifeProof!Identity(p)
  BY DEF Life!Identity, LifeProof!Identity, Life!Becomes, LifeProof!Becomes, Life!Run,
         LifeProof!Run, Life!Free, LifeProof!Free, Life!tables, LifeProof!tables,
         Life!history, LifeProof!history, Life!Fenced, LifeProof!Fenced
<1> QED
  BY <1>1, <1>2, <1>3, <1>4, <1>5, <1>6, <1>7, <1>8, <1>9, <1>10, <1>11, <1>12, <1>13
     DEF Life!Arrive, LifeProof!Arrive, Life!Open, LifeProof!Open, Life!Use, LifeProof!Use

(* A cleanup, and what cuts it short. *)
LEMMA SameCleanup ==
  ASSUME NEW p \in {q1, cron}, Life!Cleanup(p) \/ Life!Fail(p) \/ Life!Crash(p)
  PROVE  LifeProof!Cleanup(p) \/ LifeProof!Fail(p) \/ LifeProof!Crash(p)
<1>1. Life!Begin(p) => LifeProof!Begin(p)
  BY DEF Life!Begin, LifeProof!Begin, Life!Becomes, LifeProof!Becomes, Life!Clean,
         LifeProof!Clean, Life!tables, LifeProof!tables, Life!history, LifeProof!history
<1>2. Life!Pending(p) => LifeProof!Pending(p)
  BY DEF Life!Pending, LifeProof!Pending, Life!Becomes, LifeProof!Becomes, Life!Clean,
         LifeProof!Clean, Life!tables, LifeProof!tables, Life!history, LifeProof!history
<1>3. Life!Provider(p) => LifeProof!Provider(p)
  BY DEF Life!Provider, LifeProof!Provider, Life!Becomes, LifeProof!Becomes, Life!Clean,
         LifeProof!Clean, Life!tables, LifeProof!tables, Life!history, LifeProof!history
<1>4. Life!Forget(p) => LifeProof!Forget(p)
  BY DEF Life!Forget, LifeProof!Forget, Life!Becomes, LifeProof!Becomes, Life!Clean,
         LifeProof!Clean, Life!tables, LifeProof!tables, Life!history, LifeProof!history
<1>5. Life!Complete(p) => LifeProof!Complete(p)
  BY DEF Life!Complete, LifeProof!Complete, Life!Becomes, LifeProof!Becomes, Life!Clean,
         LifeProof!Clean, Life!tables, LifeProof!tables, Life!history, LifeProof!history,
         Life!Continue, LifeProof!Continue, Life!Free, LifeProof!Free, Life!Run, LifeProof!Run
<1>6. Life!Postpone(p) => LifeProof!Postpone(p)
  BY DEF Life!Postpone, LifeProof!Postpone, Life!Becomes, LifeProof!Becomes, Life!Clean,
         LifeProof!Clean, Life!tables, LifeProof!tables, Life!history, LifeProof!history,
         Life!Continue, LifeProof!Continue, Life!Free, LifeProof!Free, Life!Run, LifeProof!Run
<1>7. Life!Fail(p) => LifeProof!Fail(p)
  BY DEF Life!Fail, LifeProof!Fail, Life!Becomes, LifeProof!Becomes, Life!Clean,
         LifeProof!Clean, Life!tables, LifeProof!tables, Life!history, LifeProof!history,
         Life!CleanupPhases, LifeProof!CleanupPhases
<1>8. Life!Crash(p) => LifeProof!Crash(p)
  BY DEF Life!Crash, LifeProof!Crash, Life!Becomes, LifeProof!Becomes, Life!Run,
         LifeProof!Run, Life!Free, LifeProof!Free, Life!tables, LifeProof!tables,
         Life!history, LifeProof!history
<1> QED
  BY <1>1, <1>2, <1>3, <1>4, <1>5, <1>6, <1>7, <1>8 DEF Life!Cleanup, LifeProof!Cleanup

(* So do all their steps. *)
LEMMA SameLife == [Life!Next]_lifeVars => [LifeProof!Next]_(LifeProof!vars)
<1> SUFFICES ASSUME [Life!Next]_lifeVars PROVE [LifeProof!Next]_(LifeProof!vars)
  OBVIOUS
<1>1. CASE UNCHANGED lifeVars
  BY <1>1 DEF lifeVars, LifeProof!vars, LifeProof!tables, LifeProof!history
<1>2. ASSUME NEW p \in {q1}, Life!Arrive(p) \/ Life!Open(p) \/ Life!Use(p) PROVE LifeProof!Next
  BY <1>2, SameRequest DEF LifeProof!Next
<1>3. ASSUME NEW p \in {cron}, Life!Cron(p) PROVE LifeProof!Next
  <2>1. LifeProof!Cron(p)
    BY <1>3 DEF Life!Cron, LifeProof!Cron, Life!Becomes, LifeProof!Becomes, Life!Clean,
           LifeProof!Clean, Life!tables, LifeProof!tables, Life!history, LifeProof!history,
           Life!Continue, LifeProof!Continue, Life!Free, LifeProof!Free, Life!Run,
           LifeProof!Run
  <2> QED
    BY <2>1 DEF LifeProof!Next
<1>4. ASSUME NEW p \in Life!Processes, Life!Cleanup(p) \/ Life!Fail(p) \/ Life!Crash(p)
      PROVE  LifeProof!Next
  <2>1. p \in {q1, cron} /\ p \in LifeProof!Processes
    BY DEF Life!Processes, LifeProof!Processes
  <2> QED
    BY <1>4, <2>1, SameCleanup DEF LifeProof!Next
<1>5. ASSUME NEW session \in sessions, Life!EndSession(session) PROVE LifeProof!Next
  BY <1>5 DEF LifeProof!Next, Life!EndSession, LifeProof!EndSession, Life!history, LifeProof!history
<1>6. ASSUME NEW a \in {a1, a2}, Life!Tick(a) PROVE LifeProof!Next
  BY <1>6 DEF LifeProof!Next, Life!Tick, LifeProof!Tick, Life!history, LifeProof!history
<1> QED
  BY <1>1, <1>2, <1>3, <1>4, <1>5, <1>6 DEF Life!Next

(* What is proved of any accounts holds of these. *)
LEMMA AccountsBehave ==
  /\ Life!Init => LifeProof!IInv
  /\ LifeProof!IInv /\ [Life!Next]_lifeVars => LifeProof!IInv'
  /\ LifeProof!IInv => Life!TypeOK
<1>1. LifeProof!Init => LifeProof!IInv
  BY LifeAssumptions, LifeProof!InitIInv
<1>2. LifeProof!IInv /\ [LifeProof!Next]_(LifeProof!vars) => LifeProof!IInv'
  BY LifeAssumptions, LifeProof!NextIInv
<1>3. LifeProof!IInv => LifeProof!TypeOK
  BY LifeAssumptions, LifeProof!IInvImplies
<1>4. LifeProof!TypeOK => Life!TypeOK
  BY DEF Life!TypeOK, LifeProof!TypeOK, Life!Processes, LifeProof!Processes, Life!Process,
         LifeProof!Process, Life!Phases, LifeProof!Phases, Life!RequestPhases,
         LifeProof!RequestPhases, Life!CleanupPhases, LifeProof!CleanupPhases
<1> QED
  BY <1>1, <1>2, <1>3, <1>4, SameTables, SameLife

-----------------------------------------------------------------------------
(* The four components together: the invariants of all of them. *)
LiveInv ==
  /\ component \in {"feed", "client", "controller", "accounts"}
  /\ FeedInv /\ ClientProof!ClientInv /\ ControllerInv /\ LifeProof!IInv

(* Every step is a step of each component or leaves it alone. *)
LEMMA OnePartSteps ==
  [LiveNext]_allVars =>
    /\ [Next]_vars /\ [Client!Next]_clientVars
    /\ [ControllerNext]_controllerVars /\ [Life!Next]_lifeVars
    /\ component' = component
BY DEF LiveNext, allVars, InFeed, InClient, InController, InAccounts

(* The invariants of the components hold together. *)
LEMMA LiveInvariance == LiveSpec => []LiveInv
<1>1. LiveInit => LiveInv
  BY FeedInit, ControllerStarts, DevicesBehave, AccountsBehave DEF LiveInit, LiveInv
<1>2. LiveInv /\ [LiveNext]_allVars => LiveInv'
  BY OnePartSteps, FeedStep, ControllerStep, DevicesBehave, AccountsBehave DEF LiveInv
<1> QED
  BY <1>1, <1>2, PTL DEF LiveSpec

(* The feed, the devices, the controller and the accounts are well typed,  *)
(* whichever of them the behaviour is of.                                  *)
THEOREM LivenessIsTyped == LiveSpec => []LivenessTypeOK
<1>1. LiveInv => LivenessTypeOK
  BY DevicesBehave, AccountsBehave DEF LiveInv, LivenessTypeOK, FeedInv, ControllerInv
<1> QED
  BY <1>1, LiveInvariance, PTL

(***************************************************************************)
(* sync_controller.dart: no synchronization that was scheduled is dropped  *)
(* by a timer that replaces another, a run that another call began or a    *)
(* failure it shared.                                                      *)
(***************************************************************************)
THEOREM NothingScheduledIsForgotten == ControllerSpec => []ScheduledIsPending
<1>1. ControllerInv => ScheduledIsPending
  BY DEF ControllerInv
<1> QED
  BY <1>1, ControllerStarts, ControllerStep, PTL DEF ControllerSpec

=============================================================================
