-------------------------- MODULE SyncClient_proof --------------------------
(***************************************************************************)
(* Theorems about SyncClient.tla: devices that edit, pull and push, for    *)
(* any number of devices, accounts, records and mutations and any size of  *)
(* pages and batches.                                                      *)
(***************************************************************************)
EXTENDS SyncClient, SyncLog_proof

Database == [outbox     : [Records -> Mutations \cup {None}],
             applied    : [Records -> Nat],
             product    : [Records -> Payload \cup {None}],
             checkpoint : Nat]

Page == [changes : SUBSET Nat, cursor : Nat, hasMore : BOOLEAN]

RunState == [phase : {"idle", "pull", "apply", "load", "push"}, round : {1, 2},
             page : Page, batch : SUBSET Mutations]

(***************************************************************************)
(* The inductive invariant, of the log, of what each device has of each    *)
(* record, and of the page in the hands of its run.  The log and drafts    *)
(* are parameters, so that the operators are of constant level.            *)
(***************************************************************************)

(* m is a mutation that device d composed for record r, if it is one. *)
ComposedFor(dr, d, r, m) ==
  m # None => MutationDevice[m] = d /\ dr[m] # None /\ dr[m].record = r

(* The last edit waits, or the server has it. *)
KeptIn(lg, entry, last) ==
  last # None => entry = last \/ \E i \in DOMAIN lg : lg[i].mutation = last

(* The product shows the version last applied, or else an edit that no     *)
(* version up to the checkpoint comes from.                                *)
ShownIn(lg, shown, applied, checkpoint, last) ==
  shown # (IF applied = NoRevision THEN None ELSE lg[applied].payload) =>
    last # None /\ \A i \in DOMAIN lg : i <= checkpoint => lg[i].mutation # last

(* What device d has of record r. *)
RecordIn(lg, dr, d, r, entry, applied, shown, checkpoint, last) ==
  /\ ComposedFor(dr, d, r, entry) /\ ComposedFor(dr, d, r, last)
  /\ LastBeforeIn(lg, DeviceOwner[d], r, applied, checkpoint + 1)
  /\ KeptIn(lg, entry, last)
  /\ ShownIn(lg, shown, applied, checkpoint, last)

DatabaseIn(lg, dr, d, db, last) ==
  /\ db.checkpoint <= Len(lg)
  /\ \A r \in Records :
       RecordIn(lg, dr, d, r, db.outbox[r], db.applied[r], db.product[r], db.checkpoint, last[r])

(* A page in hand is what the log has after the checkpoint, although the   *)
(* log may have grown since the page was fetched.                          *)
RunIn(lg, d, db, run) ==
  run.phase = "apply" => Covers(lg, run.page, DeviceOwner[d], db.checkpoint)

(* A version is of the account and the record of its mutation. *)
HistoryOK ==
  \A i \in DOMAIN log :
    /\ draft[log[i].mutation] # None
    /\ log[i].owner = MutationOwner[log[i].mutation]
    /\ log[i].record = draft[log[i].mutation].record

(* The base of a mutation is a version of its record. *)
BasesOK ==
  \A m \in Mutations : draft[m] # None /\ draft[m].base # NoRevision =>
    /\ draft[m].base \in DOMAIN log
    /\ VersionOf(MutationOwner[m], draft[m].record, draft[m].base)

ServerOK ==
  /\ LogOK /\ HistoryOK /\ BasesOK
  /\ acked \in [Mutations -> {NoRevision} \cup DOMAIN log]

ClientInv ==
  /\ ServerOK
  /\ device \in [Devices -> Database] /\ engine \in [Devices -> RunState]
  /\ sent \in SUBSET Mutations
  /\ latest \in [Devices -> [Records -> Mutations \cup {None}]]
  /\ \A d \in Devices : DatabaseIn(log, draft, d, device[d], latest[d])
  /\ \A d \in Devices : RunIn(log, d, device[d], engine[d])

(* The parts, taken apart once. *)
LEMMA ClientTypes ==
  ASSUME ClientInv
  PROVE  /\ log \in Seq(Version) /\ DOMAIN log = 1..Len(log) /\ Len(log) \in Nat
         /\ draft \in [Mutations -> Draft \cup {None}]
         /\ \A d \in Devices :
              /\ device[d] \in Database /\ engine[d] \in RunState
              /\ DeviceOwner[d] \in Owners /\ device[d].checkpoint \in Nat
              /\ latest[d] \in [Records -> Mutations \cup {None}]
              /\ device[d].checkpoint <= Len(log)
              /\ \A r \in Records :
                   RecordIn(log, draft, d, r, device[d].outbox[r], device[d].applied[r],
                            device[d].product[r], device[d].checkpoint, latest[d][r])
              /\ RunIn(log, d, device[d], engine[d])
         /\ \A m \in Mutations : /\ MutationDevice[m] \in Devices
                                 /\ MutationOwner[m] = DeviceOwner[MutationDevice[m]]
         /\ None \notin Mutations
<1>1. log \in Seq(Version) /\ draft \in [Mutations -> Draft \cup {None}]
  BY DEF ClientInv, ServerOK, LogOK
<1>2. \A d \in Devices :
        /\ device[d] \in Database /\ engine[d] \in RunState
        /\ latest[d] \in [Records -> Mutations \cup {None}]
        /\ DatabaseIn(log, draft, d, device[d], latest[d])
        /\ RunIn(log, d, device[d], engine[d])
  BY DEF ClientInv
<1>3. \A d \in Devices : device[d].checkpoint \in Nat
  BY <1>2 DEF Database
<1> QED
  BY <1>1, <1>2, <1>3, DeviceAssumption DEF DatabaseIn

(* No device has anything yet. *)
LEMMA ClientInvInit == Init => ClientInv
<1> SUFFICES ASSUME Init PROVE ClientInv
  OBVIOUS
<1>1. /\ log = <<>> /\ DOMAIN log = {} /\ Len(log) = 0 /\ draft = [m \in Mutations |-> None]
      /\ acked = [m \in Mutations |-> NoRevision]
  BY DEF Init, LogInit
<1>2. ServerOK
  BY <1>1, LogInitOK DEF Init, ServerOK, HistoryOK, BasesOK
<1>3. NewDatabase \in Database /\ Stopped \in RunState /\ Stopped.phase = "idle"
  BY DEF NewDatabase, Database, Stopped, Engine, NoPage, RunState, Page, NoRevision
<1>4. ASSUME NEW d \in Devices
      PROVE  DatabaseIn(log, draft, d, NewDatabase, [r \in Records |-> None])
  BY <1>1 DEF DatabaseIn, RecordIn, ComposedFor, LastBeforeIn, KeptIn, ShownIn, NewDatabase, NoRevision
<1>5. \A d \in Devices : RunIn(log, d, NewDatabase, Stopped)
  BY <1>3 DEF RunIn
<1> QED
  BY <1>2, <1>3, <1>4, <1>5 DEF Init, ClientInv

(***************************************************************************)
(* Steps of one device                                                     *)
(***************************************************************************)

(* A device goes on, and the server does not. *)
LEMMA DeviceMoves ==
  ASSUME ClientInv, NEW d \in Devices, NEW db \in Database, NEW run \in RunState,
         device' \in [Devices -> Database], engine' \in [Devices -> RunState],
         \A e \in Devices : device'[e] = IF e = d THEN db ELSE device[e],
         \A e \in Devices : engine'[e] = IF e = d THEN run ELSE engine[e],
         log' = log, draft' = draft, latest' = latest, sent' \in SUBSET Mutations,
         acked' \in [Mutations -> {NoRevision} \cup DOMAIN log],
         DatabaseIn(log, draft, d, db, latest[d]), RunIn(log, d, db, run)
  PROVE  ClientInv'
<1>1. acked' \in [Mutations -> Nat]
  BY ClientTypes DEF NoRevision
<1>2. ServerOK'
  BY <1>1 DEF ClientInv, ServerOK, LogOK, DraftOK, HistoryOK, BasesOK, VersionOf
<1>3. \A e \in Devices : DatabaseIn(log', draft', e, device'[e], latest'[e])
  BY DEF ClientInv
<1>4. \A e \in Devices : RunIn(log', e, device'[e], engine'[e])
  BY DEF ClientInv
<1> QED
  BY <1>2, <1>3, <1>4 DEF ClientInv

(* A run goes on, and nothing else. *)
LEMMA RunMoves ==
  ASSUME ClientInv, NEW d \in Devices, NEW run \in RunState, Goes(d, run),
         UNCHANGED <<logVars, device, latest>>, sent' \in SUBSET Mutations,
         RunIn(log, d, device[d], run)
  PROVE  ClientInv'
<1>1. device[d] \in Database /\ DatabaseIn(log, draft, d, device[d], latest[d])
  BY DEF ClientInv
<1>2. /\ engine' \in [Devices -> RunState]
      /\ \A e \in Devices : engine'[e] = IF e = d THEN run ELSE engine[e]
  BY DEF Goes, ClientInv
<1>3. acked' \in [Mutations -> {NoRevision} \cup DOMAIN log]
  BY DEF ClientInv, ServerOK, logVars
<1> DEFINE db == device[d]
<1>4. /\ db \in Database /\ DatabaseIn(log, draft, d, db, latest[d]) /\ RunIn(log, d, db, run)
      /\ device' \in [Devices -> Database]
      /\ \A e \in Devices : device'[e] = IF e = d THEN db ELSE device[e]
  BY <1>1 DEF ClientInv
<1>5. log' = log /\ draft' = draft /\ latest' = latest
  BY DEF logVars
<1> HIDE DEF db
<1> QED
  BY <1>2, <1>3, <1>4, <1>5, DeviceMoves

(* The page of the feed. *)
LEMMA FeedPage ==
  \A owner, cursor : /\ Feed!pullChanges(owner, cursor) = PageOf(owner, cursor, PageSize)
                     /\ Feed!After(owner, cursor) = RowsAfter(owner, cursor)
<1> SUFFICES ASSUME NEW owner, NEW cursor
             PROVE  /\ Feed!pullChanges(owner, cursor) = PageOf(owner, cursor, PageSize)
                    /\ Feed!After(owner, cursor) = RowsAfter(owner, cursor)
  OBVIOUS
<1>1. (\A S : Feed!Cardinality(S) = Cardinality(S)) /\ (\A S : Feed!Max(S) = Max(S))
  BY DEF Feed!Cardinality, Cardinality, Feed!Max, Max
<1>2. Feed!After(owner, cursor) = RowsAfter(owner, cursor)
  BY DEF Feed!After, RowsAfter
<1> DEFINE rows == First(RowsAfter(owner, cursor), PageSize + 1)
           page == First(rows, PageSize)
<1>3. Feed!listChanges(owner, cursor, PageSize + 1) = rows
  BY <1>1, <1>2 DEF Feed!listChanges, First
<1>4. {i \in rows : Feed!Cardinality({j \in rows : j <= i}) <= PageSize} = page
  BY <1>1 DEF First
<1> HIDE DEF rows, page
<1>5. Feed!pullChanges(owner, cursor) = [changes |-> page,
                                        cursor  |-> IF page = {} THEN cursor ELSE Feed!Max(page),
                                        hasMore |-> Feed!Cardinality(rows) > PageSize]
  BY <1>3, <1>4 DEF Feed!pullChanges
<1>6. Feed!pullChanges(owner, cursor) = PageOf(owner, cursor, PageSize)
  BY <1>1, <1>5 DEF PageOf, rows, page
<1> QED
  BY <1>2, <1>6

(* A run begins, reads the outbox, or stops. *)
LEMMA RunSteps ==
  ASSUME ClientInv, NEW d \in Devices, Start(d) \/ Push(d) \/ NothingPending(d) \/ Stop(d)
  PROVE  ClientInv'
<1>1. NoPage \in Page /\ sent \in SUBSET Mutations
  BY DEF NoPage, Page, ClientInv
<1>2. \A phase \in {"idle", "pull", "load", "push"}, round \in {1, 2}, batch \in SUBSET Mutations :
        LET run == Engine(phase, round, NoPage, batch)
        IN  run \in RunState /\ RunIn(log, d, device[d], run)
  BY <1>1 DEF Engine, RunState, RunIn
<1>3. Outbox(d) \in SUBSET Mutations
  BY ClientTypes DEF Outbox, Database
<1>4. UNCHANGED <<logVars, device, latest>>
  BY DEF Start, Push, NothingPending, Stop
<1>5. PICK phase \in {"idle", "pull", "load", "push"}, round \in {1, 2}, batch \in SUBSET Mutations :
        Goes(d, Engine(phase, round, NoPage, batch)) /\ sent' \in SUBSET Mutations
  <2>1. CASE Start(d)
    BY <1>1, <2>1 DEF Start
  <2>2. CASE Push(d)
    <3>1. PICK batch \in SUBSET Outbox(d) :
            sent' = sent \cup batch /\ Goes(d, Engine("push", 1, NoPage, batch))
      BY <2>2 DEF Push
    <3>2. batch \in SUBSET Mutations /\ sent' \in SUBSET Mutations
      BY <1>1, <1>3, <3>1
    <3> QED
      BY <3>1, <3>2
  <2>3. CASE NothingPending(d)
    BY <1>1, <2>3 DEF NothingPending
  <2>4. CASE Stop(d)
    BY <1>1, <2>4 DEF Stop, Stopped
  <2> QED
    BY <2>1, <2>2, <2>3, <2>4
<1> QED
  BY <1>2, <1>4, <1>5, RunMoves

(* A page is fetched. *)
LEMMA FetchStep == ASSUME ClientInv, NEW d \in Devices, Fetch(d) PROVE ClientInv'
<1> DEFINE page == PageOf(DeviceOwner[d], device[d].checkpoint, PageSize)
           run  == Engine("apply", engine[d].round, page, {})
<1>1. Goes(d, run) /\ UNCHANGED <<logVars, device, latest, sent>>
  BY FeedPage DEF Fetch
<1>2. /\ log \in Seq(Version) /\ device[d].checkpoint \in Nat /\ device[d].checkpoint <= Len(log)
      /\ DOMAIN log = 1..Len(log) /\ engine[d].round \in {1, 2} /\ PageSize \in Nat \ {0}
  BY ClientTypes, SizeAssumption DEF RunState
<1>3. Covers(log, page, DeviceOwner[d], device[d].checkpoint) /\ page.hasMore \in BOOLEAN
  BY <1>2, PageCovers
<1>4. page \in Page
  <2>1. page.changes \subseteq DOMAIN log /\ page.cursor \in Nat
    BY <1>3 DEF Covers
  <2>2. page.changes \in SUBSET Nat
    BY <1>2, <2>1
  <2>3. page = [changes |-> page.changes, cursor |-> page.cursor, hasMore |-> page.hasMore]
    BY DEF PageOf
  <2> QED
    BY <1>3, <2>1, <2>2, <2>3 DEF Page
<1> HIDE DEF page
<1>5. run \in RunState /\ RunIn(log, d, device[d], run)
  BY <1>2, <1>3, <1>4 DEF Engine, RunState, RunIn
<1> HIDE DEF run
<1>6. sent' \in SUBSET Mutations
  BY <1>1 DEF ClientInv
<1> QED
  BY <1>1, <1>5, <1>6, RunMoves

(* Where a run goes from a page, it has no page in hand. *)
LEMMA AfterPageType ==
  ASSUME ClientInv, NEW d \in Devices
  PROVE  AfterPage(d) \in RunState /\ AfterPage(d).phase # "apply"
<1>1. engine[d].round \in {1, 2} /\ NoPage \in Page
  BY ClientTypes DEF RunState, NoPage, Page
<1>2. \A phase \in {"idle", "pull", "load"}, round \in {1, 2} :
        LET run == Engine(phase, round, NoPage, {})
        IN  run \in RunState /\ run.phase = phase
  BY <1>1 DEF Engine, RunState
<1> QED
  BY <1>1, <1>2 DEF AfterPage, Stopped

(* A page takes what the device has of a record to the page's checkpoint.  *)
LEMMA PageApplied ==
  ASSUME ClientInv, NEW d \in Devices, engine[d].phase = "apply", NEW r \in Records
  PROVE  /\ Applied(d)[r] \in Nat /\ Shown(d)[r] \in Payload \cup {None}
         /\ RecordIn(log, draft, d, r, device[d].outbox[r], Applied(d)[r], Shown(d)[r],
                     engine[d].page.cursor, latest[d][r])
<1> DEFINE owner   == DeviceOwner[d]
           page    == engine[d].page
           cursor  == device[d].checkpoint
           entry   == device[d].outbox[r]
           applied == device[d].applied[r]
           shown   == device[d].product[r]
           last    == latest[d][r]
           rows    == InPage(d, r)
           next    == Applied(d)[r]
           shows   == Shown(d)[r]
<1>1. /\ log \in Seq(Version) /\ DOMAIN log = 1..Len(log) /\ Len(log) \in Nat
      /\ cursor \in Nat /\ cursor <= Len(log) /\ Covers(log, page, owner, cursor)
      /\ RecordIn(log, draft, d, r, entry, applied, shown, cursor, last)
      /\ applied \in Nat /\ shown \in Payload \cup {None} /\ last \in Mutations \cup {None}
  BY ClientTypes DEF RunIn, Database
<1>2. /\ rows = {i \in page.changes : log[i].record = r}
      /\ next = IF rows = {} THEN applied ELSE Max(rows)
      /\ shows = IF rows = {} THEN shown ELSE log[Max(rows)].payload
  BY DEF InPage, Applied, Shown
<1> HIDE DEF rows, next, shows, applied, shown, entry, last, cursor, page, owner
<1>3. LastBeforeIn(log, owner, r, next, page.cursor + 1)
  <2>1. LastBeforeIn(log, owner, r, applied, cursor + 1)
    BY <1>1 DEF RecordIn, owner
  <2> QED
    BY <1>1, <1>2, <2>1, PageAdvances
<1>4. /\ page.changes \subseteq DOMAIN log /\ page.cursor \in Nat /\ cursor <= page.cursor
      /\ \A i \in DOMAIN log :
           i \in page.changes <=> log[i].owner = owner /\ cursor < i /\ i <= page.cursor
  BY <1>1 DEF Covers
<1>5. rows # {} => Max(rows) \in DOMAIN log
  <2>1. rows \in SUBSET (1..Len(log))
    BY <1>1, <1>2, <1>4
  <2> QED
    BY <1>1, <2>1, MaxIsLast
<1>6. next \in Nat /\ shows \in Payload \cup {None}
  <2>1. CASE rows = {}
    BY <1>1, <1>2, <2>1
  <2>2. CASE rows # {}
    <3>1. next \in DOMAIN log /\ shows = log[next].payload
      BY <1>2, <1>5, <2>2
    <3>2. log[next] \in Version /\ next \in Nat
      BY <1>1, <3>1
    <3> QED
      BY <3>1, <3>2 DEF Version
  <2> QED
    BY <2>1, <2>2
<1>7. ShownIn(log, shows, next, page.cursor, last)
  <2>1. CASE rows # {}
    <3>1. next \in DOMAIN log /\ shows = log[next].payload
      BY <1>2, <1>5, <2>1
    <3>2. next # NoRevision
      BY <1>1, <3>1 DEF NoRevision
    <3> QED
      BY <3>1, <3>2 DEF ShownIn
  <2>2. CASE rows = {}
    <3>1. next = applied /\ shows = shown
      BY <1>2, <2>2
    <3>2. SUFFICES ASSUME shown # (IF applied = NoRevision THEN None ELSE log[applied].payload)
                   PROVE  /\ last # None
                          /\ \A i \in DOMAIN log : i <= page.cursor => log[i].mutation # last
      BY <3>1 DEF ShownIn
    <3>3. last # None /\ \A i \in DOMAIN log : i <= cursor => log[i].mutation # last
      BY <1>1, <3>2 DEF RecordIn, ShownIn
    <3>4. /\ MutationDevice[last] = d /\ draft[last].record = r
          /\ MutationOwner[last] = owner
      BY <1>1, <3>3, ClientTypes DEF RecordIn, ComposedFor, owner
    <3>5. ASSUME NEW i \in DOMAIN log, i <= page.cursor, log[i].mutation = last PROVE FALSE
      <4>1. cursor < i
        BY <1>1, <3>3, <3>5
      <4>2. log[i].owner = owner /\ log[i].record = r
        BY <3>4, <3>5 DEF ClientInv, ServerOK, HistoryOK
      <4>3. i \in rows
        BY <1>2, <1>4, <3>5, <4>1, <4>2
      <4> QED
        BY <2>2, <4>3
    <3> QED
      BY <3>3, <3>5
  <2> QED
    BY <2>1, <2>2
<1>8. RecordIn(log, draft, d, r, entry, next, shows, page.cursor, last)
  BY <1>1, <1>3, <1>7 DEF RecordIn, owner
<1> QED
  BY <1>6, <1>8 DEF next, shows, entry, last, page

(* A page is applied: the checkpoint and what it covers move together. *)
LEMMA ApplyStep == ASSUME ClientInv, NEW d \in Devices, Apply(d) PROVE ClientInv'
<1> DEFINE db == [outbox  |-> device[d].outbox, applied |-> Applied(d), product |-> Shown(d),
                  checkpoint |-> engine[d].page.cursor]
           run == AfterPage(d)
<1>1. /\ engine[d].phase = "apply" /\ device' = [device EXCEPT ![d] = db] /\ Goes(d, run)
      /\ UNCHANGED <<logVars, latest, sent>>
  BY DEF Apply, Projects
<1>2. Covers(log, engine[d].page, DeviceOwner[d], device[d].checkpoint)
  BY <1>1, ClientTypes DEF RunIn
<1>3. \A r \in Records :
        /\ Applied(d)[r] \in Nat /\ Shown(d)[r] \in Payload \cup {None}
        /\ RecordIn(log, draft, d, r, device[d].outbox[r], Applied(d)[r], Shown(d)[r],
                    engine[d].page.cursor, latest[d][r])
  BY <1>1, PageApplied
<1>4. Applied(d) \in [Records -> Nat] /\ Shown(d) \in [Records -> Payload \cup {None}]
  <2>1. /\ Applied(d) = [r \in Records |-> Applied(d)[r]]
        /\ Shown(d) = [r \in Records |-> Shown(d)[r]]
    BY DEF Applied, Shown
  <2> QED
    BY <1>3, <2>1
<1>5. device[d].outbox \in [Records -> Mutations \cup {None}] /\ engine[d].page.cursor \in Nat
  BY <1>2, ClientTypes DEF Database, Covers
<1>6. /\ db \in Database /\ db.outbox = device[d].outbox /\ db.applied = Applied(d)
      /\ db.product = Shown(d) /\ db.checkpoint = engine[d].page.cursor
  BY <1>4, <1>5 DEF Database
<1> HIDE DEF db
<1>7. DatabaseIn(log, draft, d, db, latest[d])
  BY <1>2, <1>3, <1>6 DEF DatabaseIn, Covers
<1>8. run \in RunState /\ RunIn(log, d, db, run)
  BY AfterPageType DEF RunIn
<1> HIDE DEF run
<1>9. /\ device' \in [Devices -> Database] /\ engine' \in [Devices -> RunState]
      /\ \A e \in Devices : device'[e] = IF e = d THEN db ELSE device[e]
      /\ \A e \in Devices : engine'[e] = IF e = d THEN run ELSE engine[e]
  BY <1>1, <1>6, <1>8 DEF ClientInv, Goes
<1>10. /\ log' = log /\ draft' = draft /\ latest' = latest /\ sent' \in SUBSET Mutations
       /\ acked' \in [Mutations -> {NoRevision} \cup DOMAIN log]
  BY <1>1 DEF ClientInv, ServerOK, logVars
<1> QED
  BY <1>6, <1>7, <1>8, <1>9, <1>10, DeviceMoves

(* What an answer says of the versions is an answer of the log's. *)
LEMMA AcknowledgeTells ==
  ASSUME ClientInv, NEW d \in Devices, Acknowledge(d)
  PROVE  LogAcknowledge
<1>1. /\ \A m \in engine[d].batch : Accepted(m)
      /\ acked' = [m \in Mutations |-> IF m \in engine[d].batch
                                       THEN CHOOSE i \in DOMAIN log : log[i].mutation = m
                                       ELSE acked[m]]
      /\ UNCHANGED <<log, draft>>
  BY DEF Acknowledge, Confirms
<1>2. acked \in [Mutations -> {NoRevision} \cup DOMAIN log] /\ DOMAIN log = 1..Len(log)
  BY ClientTypes DEF ClientInv, ServerOK
<1>3. ASSUME NEW m \in Mutations, m \in engine[d].batch
      PROVE  acked'[m] \in DOMAIN log /\ log[acked'[m]].mutation = m
  <2>1. \E i \in DOMAIN log : log[i].mutation = m
    BY <1>1, <1>3 DEF Accepted
  <2>2. acked'[m] = CHOOSE i \in DOMAIN log : log[i].mutation = m
    BY <1>1, <1>3
  <2> QED
    BY <2>1, <2>2
<1>4. ASSUME NEW m \in Mutations, m \notin engine[d].batch PROVE acked'[m] = acked[m]
  BY <1>1, <1>4
<1>5. acked' \in [Mutations -> {NoRevision} \cup DOMAIN log]
  BY <1>1, <1>2, <1>3, <1>4
<1>6. \A m \in Mutations : acked'[m] # acked[m] => acked'[m] # NoRevision /\ log[acked'[m]].mutation = m
  BY <1>2, <1>3, <1>4 DEF NoRevision
<1> QED
  BY <1>1, <1>5, <1>6 DEF LogAcknowledge

(* An answer arrives: the entries that leave the outbox are stored. *)
LEMMA AcknowledgeStep == ASSUME ClientInv, NEW d \in Devices, Acknowledge(d) PROVE ClientInv'
<1> DEFINE outbox == [r \in Records |-> IF device[d].outbox[r] \in engine[d].batch THEN None
                                        ELSE device[d].outbox[r]]
           db  == [device[d] EXCEPT !.outbox = outbox]
           run == Engine("load", 1, NoPage, {})
<1>1. /\ \A m \in engine[d].batch : Accepted(m)
      /\ device' = [device EXCEPT ![d].outbox =
                      [r \in Records |-> IF r \in {x \in Records : device[d].outbox[x] \in engine[d].batch}
                                         THEN None ELSE device[d].outbox[r]]]
      /\ Goes(d, run) /\ UNCHANGED <<log, draft, sent, latest>>
  BY DEF Acknowledge, Confirms
<1>2. [r \in Records |-> IF r \in {x \in Records : device[d].outbox[x] \in engine[d].batch}
                         THEN None ELSE device[d].outbox[r]] = outbox
  OBVIOUS
<1>3. device' = [device EXCEPT ![d].outbox = outbox]
  BY <1>1, <1>2
<1>4. /\ device[d] \in Database /\ device \in [Devices -> Database]
      /\ latest[d] \in [Records -> Mutations \cup {None}]
  BY ClientTypes DEF ClientInv
<1>5. outbox \in [Records -> Mutations \cup {None}]
  BY <1>4 DEF Database
<1>6. \A r \in Records : outbox[r] = IF device[d].outbox[r] \in engine[d].batch THEN None
                                     ELSE device[d].outbox[r]
  OBVIOUS
<1> HIDE DEF outbox
<1>7. /\ db \in Database /\ db.outbox = outbox /\ db.applied = device[d].applied
      /\ db.product = device[d].product /\ db.checkpoint = device[d].checkpoint
  BY <1>4, <1>5 DEF Database
<1>8. device' = [device EXCEPT ![d] = db]
  BY <1>3, <1>4
<1> HIDE DEF db
<1>9. ASSUME NEW r \in Records
      PROVE  RecordIn(log, draft, d, r, outbox[r], device[d].applied[r], device[d].product[r],
                      device[d].checkpoint, latest[d][r])
  <2>1. RecordIn(log, draft, d, r, device[d].outbox[r], device[d].applied[r], device[d].product[r],
                 device[d].checkpoint, latest[d][r])
    BY ClientTypes
  <2>2. CASE device[d].outbox[r] \in engine[d].batch
    <3>1. outbox[r] = None /\ \E i \in DOMAIN log : log[i].mutation = device[d].outbox[r]
      BY <1>1, <1>6, <2>2 DEF Accepted
    <3>2. KeptIn(log, None, latest[d][r])
      BY <2>1, <3>1 DEF RecordIn, KeptIn
    <3> QED
      BY <2>1, <3>1, <3>2 DEF RecordIn, ComposedFor
  <2>3. CASE device[d].outbox[r] \notin engine[d].batch
    BY <1>6, <2>1, <2>3
  <2> QED
    BY <2>2, <2>3
<1>10. DatabaseIn(log, draft, d, db, latest[d])
  BY <1>7, <1>9, ClientTypes DEF DatabaseIn
<1>11. run \in RunState /\ RunIn(log, d, db, run)
  BY DEF Engine, NoPage, RunState, Page, RunIn
<1> HIDE DEF run
<1>12. /\ device' \in [Devices -> Database] /\ engine' \in [Devices -> RunState]
       /\ \A e \in Devices : device'[e] = IF e = d THEN db ELSE device[e]
       /\ \A e \in Devices : engine'[e] = IF e = d THEN run ELSE engine[e]
  BY <1>1, <1>4, <1>7, <1>8, <1>11 DEF ClientInv, Goes
<1>13. acked' \in [Mutations -> {NoRevision} \cup DOMAIN log] /\ sent' \in SUBSET Mutations
  BY <1>1, AcknowledgeTells DEF LogAcknowledge, ClientInv
<1>14. log' = log /\ draft' = draft /\ latest' = latest /\ db \in Database
  BY <1>1, <1>7
<1> QED
  BY <1>10, <1>11, <1>12, <1>13, <1>14, DeviceMoves

(***************************************************************************)
(* An edit                                                                 *)
(***************************************************************************)

(* The base of an edit is a version of its record. *)
LEMMA EditBase ==
  ASSUME ClientInv, NEW d \in Devices, NEW r \in Records, NEW m \in Mutations,
         MutationDevice[m] = d
  PROVE  /\ BaseFor(d, r) \in {NoRevision} \cup DOMAIN log
         /\ BaseFor(d, r) # NoRevision => VersionOf(MutationOwner[m], r, BaseFor(d, r))
<1> DEFINE entry == device[d].outbox[r]
<1>1. /\ RecordIn(log, draft, d, r, entry, device[d].applied[r], device[d].product[r],
                  device[d].checkpoint, latest[d][r])
      /\ entry \in Mutations \cup {None} /\ MutationOwner[m] = DeviceOwner[d]
  BY ClientTypes DEF Database
<1>2. CASE entry # None /\ draft[entry].base # NoRevision
  <2>1. /\ entry \in Mutations /\ MutationOwner[entry] = DeviceOwner[d]
        /\ draft[entry] # None /\ draft[entry].record = r
    BY <1>1, <1>2, ClientTypes DEF RecordIn, ComposedFor
  <2>2. BaseFor(d, r) = draft[entry].base
    BY <1>2 DEF BaseFor
  <2> QED
    BY <1>1, <1>2, <2>1, <2>2 DEF ClientInv, ServerOK, BasesOK
<1>3. CASE ~(entry # None /\ draft[entry].base # NoRevision)
  <2>1. BaseFor(d, r) = device[d].applied[r]
    BY <1>3 DEF BaseFor
  <2> QED
    BY <1>1, <2>1 DEF RecordIn, LastBeforeIn, VersionOf
<1> QED
  BY <1>2, <1>3

(* To the log an edit is a mutation that is composed. *)
LEMMA EditComposes ==
  ASSUME ClientInv, NEW d \in Devices, NEW r \in Records, NEW m \in Mutations,
         NEW payload \in Payload \cup {None}, Edit(d, r, m, payload)
  PROVE  LogCompose(m)
<1>1. /\ MutationDevice[m] = d /\ draft[m] = None /\ UNCHANGED <<log, acked>>
      /\ draft' = [draft EXCEPT ![m] = [record |-> r, base |-> BaseFor(d, r), payload |-> payload]]
  BY DEF Edit
<1>2. /\ BaseFor(d, r) \in {NoRevision} \cup DOMAIN log
      /\ BaseFor(d, r) # NoRevision => VersionOf(MutationOwner[m], r, BaseFor(d, r))
  BY <1>1, EditBase
<1> QED
  BY <1>1, <1>2 DEF LogCompose

(* An edit takes the place of what waits, and is the last of its record. *)
LEMMA EditStep ==
  ASSUME ClientInv, NEW d \in Devices, NEW r \in Records, NEW m \in Mutations,
         NEW payload \in Payload \cup {None}, Edit(d, r, m, payload)
  PROVE  ClientInv'
<1> DEFINE db   == [device[d] EXCEPT !.outbox[r] = m, !.product[r] = payload]
           last == [latest[d] EXCEPT ![r] = m]
<1>1. /\ MutationDevice[m] = d /\ draft[m] = None
      /\ draft' = [draft EXCEPT ![m] = [record |-> r, base |-> BaseFor(d, r), payload |-> payload]]
      /\ device' = [device EXCEPT ![d] = db]
      /\ latest' = [latest EXCEPT ![d][r] = m]
      /\ UNCHANGED <<log, acked, engine, sent>>
  BY DEF Edit
<1>2. /\ device \in [Devices -> Database] /\ latest \in [Devices -> [Records -> Mutations \cup {None}]]
      /\ device[d] \in Database /\ latest[d] \in [Records -> Mutations \cup {None}]
      /\ draft \in [Mutations -> Draft \cup {None}] /\ None \notin Mutations
  BY ClientTypes DEF ClientInv
<1>3. /\ device[d].outbox \in [Records -> Mutations \cup {None}]
      /\ device[d].product \in [Records -> Payload \cup {None}]
  BY <1>2 DEF Database
<1>4. /\ [device[d].outbox EXCEPT ![r] = m] \in [Records -> Mutations \cup {None}]
      /\ [device[d].product EXCEPT ![r] = payload] \in [Records -> Payload \cup {None}]
  BY <1>3
<1>5. /\ db \in Database /\ db.applied = device[d].applied /\ db.checkpoint = device[d].checkpoint
      /\ db.outbox = [device[d].outbox EXCEPT ![r] = m]
      /\ db.product = [device[d].product EXCEPT ![r] = payload]
  BY <1>2, <1>4 DEF Database
<1>6. device' = [device EXCEPT ![d] = db] /\ latest' = [latest EXCEPT ![d] = last]
  BY <1>1, <1>2
<1>7. last \in [Records -> Mutations \cup {None}]
  BY <1>2
<1> HIDE DEF db, last
<1>8. /\ device' \in [Devices -> Database]
      /\ latest' \in [Devices -> [Records -> Mutations \cup {None}]]
      /\ \A e \in Devices : device'[e] = IF e = d THEN db ELSE device[e]
      /\ \A e \in Devices : latest'[e] = IF e = d THEN last ELSE latest[e]
  BY <1>2, <1>5, <1>6, <1>7
<1>9. \A x \in Mutations : x # m => draft'[x] = draft[x]
  BY <1>1, <1>2
<1>10. draft'[m] # None /\ draft'[m].record = r /\ draft'[m].base = BaseFor(d, r)
  <2>1. LogOK' /\ draft'[m] = [record |-> r, base |-> BaseFor(d, r), payload |-> payload]
    BY <1>1, <1>2, EditComposes, LogComposeOK DEF ClientInv, ServerOK
  <2>2. BaseFor(d, r) \in Nat
    <3>1. BaseFor(d, r) \in {NoRevision} \cup DOMAIN log
      BY <1>1, EditBase
    <3> QED
      BY <3>1, ClientTypes DEF NoRevision
  <2>3. draft'[m] \in Draft
    BY <2>1, <2>2 DEF Draft
  <2> QED
    BY <2>1, <2>3, DraftAssumption
<1>11. ServerOK'
  <2>1. LogOK' /\ log' = log
    BY EditComposes, LogComposeOK DEF ClientInv, ServerOK
  <2>2. \A i \in DOMAIN log : log[i].mutation \in Mutations /\ log[i].mutation # m
    <3>1. \A i \in DOMAIN log : log[i] \in Version
      BY ClientTypes
    <3> QED
      BY <1>1, <3>1 DEF Version, ClientInv, ServerOK, HistoryOK
  <2>3. HistoryOK'
    BY <1>9, <2>1, <2>2 DEF ClientInv, ServerOK, HistoryOK
  <2>4. BasesOK'
    <3> SUFFICES ASSUME NEW x \in Mutations, draft'[x] # None, draft'[x].base # NoRevision
                 PROVE  /\ draft'[x].base \in DOMAIN log
                        /\ VersionOf(MutationOwner[x], draft'[x].record, draft'[x].base)
      BY <2>1 DEF BasesOK, VersionOf
    <3>1. CASE x = m
      BY <1>1, <1>10, <3>1, EditBase
    <3>2. CASE x # m
      BY <1>9, <3>2 DEF ClientInv, ServerOK, BasesOK
    <3> QED
      BY <3>1, <3>2
  <2> QED
    BY <1>1, <2>1, <2>3, <2>4 DEF ClientInv, ServerOK
<1>12. ASSUME NEW e \in Devices, NEW x \in Records, NEW z \in Mutations \cup {None},
              ComposedFor(draft, e, x, z)
       PROVE  ComposedFor(draft', e, x, z)
  BY <1>1, <1>9, <1>12 DEF ComposedFor
<1>13. ASSUME NEW e \in Devices, NEW x \in Records, e # d \/ x # r
       PROVE  RecordIn(log, draft', e, x, device[e].outbox[x], device[e].applied[x],
                       device[e].product[x], device[e].checkpoint, latest[e][x])
  <2>1. /\ device[e].outbox[x] \in Mutations \cup {None} /\ latest[e][x] \in Mutations \cup {None}
        /\ RecordIn(log, draft, e, x, device[e].outbox[x], device[e].applied[x],
                    device[e].product[x], device[e].checkpoint, latest[e][x])
    BY ClientTypes DEF Database
  <2> QED
    BY <1>12, <2>1 DEF RecordIn
<1>14. RecordIn(log, draft', d, r, m, device[d].applied[r], payload, device[d].checkpoint, m)
  <2>1. ComposedFor(draft', d, r, m)
    BY <1>1, <1>10 DEF ComposedFor
  <2>2. LastBeforeIn(log, DeviceOwner[d], r, device[d].applied[r], device[d].checkpoint + 1)
    BY ClientTypes DEF RecordIn
  <2>3. \A i \in DOMAIN log : log[i].mutation # m
    BY <1>1 DEF ClientInv, ServerOK, HistoryOK
  <2> QED
    BY <1>2, <2>1, <2>2, <2>3 DEF RecordIn, KeptIn, ShownIn
<1>15. ASSUME NEW e \in Devices PROVE DatabaseIn(log', draft', e, device'[e], latest'[e])
  <2>1. log' = log /\ device[e].checkpoint <= Len(log)
    BY <1>1, ClientTypes
  <2>2. CASE e = d
    <3>1. ASSUME NEW x \in Records
          PROVE  RecordIn(log, draft', d, x, db.outbox[x], db.applied[x], db.product[x],
                          db.checkpoint, last[x])
      <4>1. CASE x = r
        <5>1. db.outbox[x] = m /\ db.product[x] = payload /\ last[x] = m
          BY <1>2, <1>3, <1>5, <4>1 DEF last
        <5> QED
          BY <1>5, <1>14, <4>1, <5>1
      <4>2. CASE x # r
        <5>1. /\ db.outbox[x] = device[d].outbox[x] /\ db.product[x] = device[d].product[x]
              /\ last[x] = latest[d][x]
          BY <1>2, <1>3, <1>5, <4>2 DEF last
        <5> QED
          BY <1>5, <1>13, <4>2, <5>1
      <4> QED
        BY <4>1, <4>2
    <3> QED
      BY <1>5, <1>8, <2>1, <2>2, <3>1 DEF DatabaseIn
  <2>3. CASE e # d
    BY <1>8, <1>13, <2>1, <2>3 DEF DatabaseIn
  <2> QED
    BY <2>2, <2>3
<1>16. ASSUME NEW e \in Devices PROVE RunIn(log', e, device'[e], engine'[e])
  <2>1. RunIn(log, e, device[e], engine[e]) /\ device'[e].checkpoint = device[e].checkpoint
    BY <1>5, <1>8, ClientTypes
  <2> QED
    BY <1>1, <2>1 DEF RunIn
<1>17. engine' \in [Devices -> RunState] /\ sent' \in SUBSET Mutations
  BY <1>1 DEF ClientInv
<1> QED
  BY <1>8, <1>11, <1>15, <1>16, <1>17 DEF ClientInv

(***************************************************************************)
(* The server stores a mutation                                            *)
(***************************************************************************)

(* What a device has of a record stays true when the log grows. *)
LEMMA RecordKept ==
  ASSUME log \in Seq(Version), log' \in Seq(Version),
         DOMAIN log' = DOMAIN log \cup {Len(log) + 1},
         \A i \in DOMAIN log : log'[i] = log[i],
         NEW d, NEW r, NEW entry, NEW applied, NEW shown, NEW last,
         NEW checkpoint \in Nat, checkpoint <= Len(log),
         RecordIn(log, draft, d, r, entry, applied, shown, checkpoint, last)
  PROVE  RecordIn(log', draft, d, r, entry, applied, shown, checkpoint, last)
<1>1. LastBeforeIn(log, DeviceOwner[d], r, applied, checkpoint + 1)
  BY DEF RecordIn
<1>2. LastBeforeIn(log', DeviceOwner[d], r, applied, checkpoint + 1)
  BY <1>1, AppendBehind
<1>3. KeptIn(log', entry, last)
  BY DEF RecordIn, KeptIn
<1>4. applied = NoRevision \/ applied \in DOMAIN log
  BY <1>1 DEF LastBeforeIn
<1>5. \A i \in DOMAIN log' : i <= checkpoint => i \in DOMAIN log
  OBVIOUS
<1>6. ShownIn(log', shown, applied, checkpoint, last)
  BY <1>4, <1>5 DEF RecordIn, ShownIn
<1> QED
  BY <1>2, <1>3, <1>6 DEF RecordIn

(* A version more. *)
LEMMA AcceptStep == ASSUME ClientInv, NEW m \in Mutations, Accept(m) PROVE ClientInv'
<1>1. LogAccept(m) /\ UNCHANGED <<device, engine, sent, latest>>
  BY DEF Accept
<1>2. /\ LogOK' /\ Len(log) \in Nat /\ DOMAIN log = 1..Len(log)
      /\ DOMAIN log' = DOMAIN log \cup {Len(log) + 1}
      /\ \A i \in DOMAIN log : log'[i] = log[i]
      /\ log'[Len(log) + 1].mutation = m
      /\ log'[Len(log) + 1].owner = MutationOwner[m]
      /\ log'[Len(log) + 1].record = draft[m].record
      /\ draft' = draft /\ acked' = acked /\ draft[m] # None
  BY <1>1, LogAcceptOK DEF ClientInv, ServerOK
<1>3. log \in Seq(Version) /\ log' \in Seq(Version)
  BY <1>2 DEF ClientInv, ServerOK, LogOK
<1>4. Len(log') = Len(log) + 1
  BY <1>2, <1>3
<1>5. ServerOK'
  <2>1. HistoryOK'
    BY <1>2 DEF ClientInv, ServerOK, HistoryOK
  <2>2. BasesOK'
    BY <1>2 DEF ClientInv, ServerOK, BasesOK, VersionOf
  <2>3. acked' \in [Mutations -> {NoRevision} \cup DOMAIN log']
    BY <1>2 DEF ClientInv, ServerOK
  <2> QED
    BY <1>2, <2>1, <2>2, <2>3 DEF ServerOK
<1>6. ASSUME NEW d \in Devices PROVE DatabaseIn(log', draft', d, device'[d], latest'[d])
  <2>1. device[d].checkpoint \in Nat /\ device[d].checkpoint <= Len(log)
    BY ClientTypes
  <2>2. ASSUME NEW r \in Records
        PROVE  RecordIn(log', draft, d, r, device[d].outbox[r], device[d].applied[r],
                        device[d].product[r], device[d].checkpoint, latest[d][r])
    <3>1. RecordIn(log, draft, d, r, device[d].outbox[r], device[d].applied[r],
                   device[d].product[r], device[d].checkpoint, latest[d][r])
      BY ClientTypes
    <3> QED
      BY <1>2, <1>3, <2>1, <3>1, RecordKept
  <2>3. device[d].checkpoint <= Len(log')
    BY <1>2, <1>4, <2>1
  <2> QED
    BY <1>1, <1>2, <2>2, <2>3 DEF DatabaseIn
<1>7. ASSUME NEW d \in Devices PROVE RunIn(log', d, device'[d], engine'[d])
  <2> SUFFICES ASSUME engine[d].phase = "apply"
               PROVE  Covers(log', engine[d].page, DeviceOwner[d], device[d].checkpoint)
    BY <1>1 DEF RunIn
  <2>1. Covers(log, engine[d].page, DeviceOwner[d], device[d].checkpoint)
    BY ClientTypes DEF RunIn
  <2>2. Len(log) + 1 \notin engine[d].page.changes /\ ~(Len(log) + 1 <= engine[d].page.cursor)
    BY <1>2, <2>1 DEF Covers
  <2> QED
    BY <1>2, <1>4, <2>1, <2>2 DEF Covers
<1> QED
  BY <1>1, <1>5, <1>6, <1>7 DEF ClientInv

(***************************************************************************)
(* Every step                                                              *)
(***************************************************************************)

(* The inductive step. *)
LEMMA ClientStep == ClientInv /\ [Next]_vars => ClientInv'
<1> SUFFICES ASSUME ClientInv, [Next]_vars PROVE ClientInv'
  OBVIOUS
<1>1. CASE UNCHANGED vars
  BY <1>1 DEF vars, logVars, ClientInv, ServerOK, LogOK, DraftOK, HistoryOK, BasesOK, VersionOf
<1> QED
  BY <1>1, RunSteps, FetchStep, ApplyStep, AcknowledgeStep, EditStep, AcceptStep DEF Next, Run

(* The invariant holds of every behaviour. *)
LEMMA ClientInvariance == Spec => []ClientInv
BY ClientInvInit, ClientStep, PTL DEF Spec

(* The invariant has the types. *)
LEMMA ClientTyped == ClientInv => TypeOK
BY DEF ClientInv, TypeOK, Database, RunState, Page

(* Devices stay well formed. *)
THEOREM ClientTypeCorrect == Spec => []TypeOK
BY ClientTyped, ClientInvariance, PTL

(***************************************************************************)
(* drift_persistence.dart, _enqueue and acknowledge: the last edit of a    *)
(* record waits in the outbox or the server has it, whatever was on its    *)
(* way when it was made.                                                   *)
(***************************************************************************)
THEOREM NoEditIsLost == Spec => []LastEditKept
<1>1. ClientInv => LastEditKept
  BY ClientTypes DEF RecordIn, KeptIn, LastEditKept, Accepted
<1> QED
  BY <1>1, ClientInvariance, PTL

(***************************************************************************)
(* drift_persistence.dart, applyPull: the record metadata of a device are  *)
(* those of its checkpoint, for pages of any size and a log that grows     *)
(* while they are on their way.                                            *)
(***************************************************************************)
THEOREM MetadataIsExact == Spec => []AppliedAtCheckpoint
<1>1. ClientInv => AppliedAtCheckpoint
  BY ClientTypes, IsLastBeforeDef DEF RecordIn, AppliedAtCheckpoint
<1> QED
  BY <1>1, ClientInvariance, PTL

(***************************************************************************)
(* sync_engine.dart: a device that has nothing left to send and nothing    *)
(* left to pull shows what the server holds, merged edits of its own       *)
(* included.                                                               *)
(***************************************************************************)
THEOREM DevicesConverge == Spec => []SynchronizedShowsServer
<1>1. ASSUME ClientInv, NEW d \in Devices, Outbox(d) = {},
             Feed!After(DeviceOwner[d], device[d].checkpoint) = {}, NEW r \in Records
      PROVE  \E i \in {NoRevision} \cup DOMAIN log :
               IsCurrent(DeviceOwner[d], r, i) /\ device[d].product[r] = PayloadAt(i)
  <2> DEFINE owner   == DeviceOwner[d]
             cursor  == device[d].checkpoint
             applied == device[d].applied[r]
             last    == latest[d][r]
  <2>1. /\ DOMAIN log = 1..Len(log) /\ Len(log) \in Nat /\ cursor \in Nat /\ cursor <= Len(log)
        /\ log \in Seq(Version)
        /\ RecordIn(log, draft, d, r, device[d].outbox[r], applied, device[d].product[r], cursor, last)
        /\ last \in Mutations \cup {None} /\ device[d].outbox[r] = None
    BY <1>1, ClientTypes DEF Database, Outbox
  <2>2. \A i \in DOMAIN log : cursor < i => log[i].owner # owner
    BY <1>1, FeedPage DEF RowsAfter
  <2> HIDE DEF owner, cursor, applied, last
  <2>3. LastBeforeIn(log, owner, r, applied, cursor + 1)
    BY <2>1 DEF RecordIn, owner
  <2>4. \A j \in DOMAIN log : j \in Nat /\ (j < cursor + 1 \/ cursor < j) /\ j < Len(log) + 1
    BY <2>1
  <2>5. LastBeforeIn(log, owner, r, applied, Len(log) + 1)
    BY <2>1, <2>2, <2>3, <2>4 DEF LastBeforeIn
  <2>6. device[d].product[r] = PayloadAt(applied)
    <3> SUFFICES ASSUME device[d].product[r] # PayloadAt(applied) PROVE FALSE
      OBVIOUS
    <3>1. last # None /\ \A i \in DOMAIN log : i <= cursor => log[i].mutation # last
      BY <2>1 DEF RecordIn, ShownIn, PayloadAt
    <3>2. PICK i \in DOMAIN log : log[i].mutation = last
      BY <2>1, <3>1 DEF RecordIn, KeptIn
    <3>3. cursor < i
      BY <2>1, <2>4, <3>1, <3>2
    <3>4. MutationOwner[last] = owner
      BY <1>1, <2>1, <3>1, ClientTypes DEF RecordIn, ComposedFor, owner
    <3>5. log[i].owner = owner
      BY <1>1, <3>2, <3>4 DEF ClientInv, ServerOK, HistoryOK
    <3> QED
      BY <2>2, <3>3, <3>5
  <2>7. applied \in {NoRevision} \cup DOMAIN log
    BY <2>5 DEF LastBeforeIn
  <2>8. IsCurrent(owner, r, applied)
    BY <2>5, IsLastBeforeDef DEF IsCurrent
  <2> QED
    BY <2>6, <2>7, <2>8 DEF owner
<1>2. ClientInv => SynchronizedShowsServer
  BY <1>1 DEF SynchronizedShowsServer
<1> QED
  BY <1>2, ClientInvariance, PTL

(* Every step of a device or of the server is a step of the log or none.   *)
LEMMA LogStep == ClientInv /\ [Next]_vars => [LogNext]_logVars
<1> SUFFICES ASSUME ClientInv, [Next]_vars PROVE [LogNext]_logVars
  OBVIOUS
<1>1. ASSUME NEW d \in Devices, NEW r \in Records, NEW m \in Mutations,
             NEW payload \in Payload \cup {None}, Edit(d, r, m, payload)
      PROVE  LogNext
  BY <1>1, EditComposes DEF LogNext
<1>2. ASSUME NEW d \in Devices, Acknowledge(d) PROVE LogNext
  BY <1>2, AcknowledgeTells DEF LogNext
<1>3. ASSUME NEW d \in Devices,
             Start(d) \/ Fetch(d) \/ Apply(d) \/ Push(d) \/ NothingPending(d) \/ Stop(d)
      PROVE  UNCHANGED logVars
  BY <1>3 DEF Start, Fetch, Apply, Projects, Push, NothingPending, Stop
<1>4. ASSUME NEW m \in Mutations, Accept(m) PROVE LogNext
  BY <1>4 DEF Accept, LogNext
<1>5. CASE UNCHANGED vars
  BY <1>5 DEF vars
<1> QED
  BY <1>1, <1>2, <1>3, <1>4, <1>5 DEF Next, Run

(***************************************************************************)
(* The devices meet what SyncLog.tla assumes of them: an edit composes a   *)
(* mutation on a version of its record, an answer names versions, and      *)
(* nothing else touches the log.                                           *)
(***************************************************************************)
THEOREM ClientRefinement == Spec => LogSpec
<1>1. Init => LogInit
  BY DEF Init
<1> QED
  BY <1>1, LogStep, ClientInvariance, PTL DEF Spec, LogSpec

-----------------------------------------------------------------------------
(* What holds of the base revisions, although BaseIsProjected does not     *)

(* An entry that waits is based on a version its device has applied, or on *)
(* one before it. *)
WaitingNotNewer ==
  \A d \in Devices, r \in Records :
    device[d].outbox[r] # None => draft[device[d].outbox[r]].base <= device[d].applied[r]

(***************************************************************************)
(* The base of an edit is the revision last projected when nothing waits   *)
(* for its record, and is never a newer one: what BaseFor keeps of the     *)
(* entry that it replaces may be stale, and is nothing the user was not    *)
(* shown.                                                                  *)
(***************************************************************************)
BaseNotNewer ==
  [][\A m \in Mutations :
       draft[m] = None /\ draft'[m] # None =>
         LET d == MutationDevice[m]
             r == draft'[m].record
         IN  /\ draft'[m].base <= device[d].applied[r]
             /\ device[d].outbox[r] = None => draft'[m].base = device[d].applied[r]]_vars

(* What a device has applied only becomes newer. *)
LEMMA AppliedGrows ==
  ASSUME ClientInv, NEW d \in Devices, engine[d].phase = "apply", NEW r \in Records
  PROVE  device[d].applied[r] <= Applied(d)[r]
<1> DEFINE rows == InPage(d, r)
<1>1. /\ DOMAIN log = 1..Len(log) /\ Len(log) \in Nat /\ device[d].checkpoint \in Nat
      /\ Covers(log, engine[d].page, DeviceOwner[d], device[d].checkpoint)
      /\ device[d].applied[r] \in Nat
      /\ LastBeforeIn(log, DeviceOwner[d], r, device[d].applied[r], device[d].checkpoint + 1)
  BY ClientTypes DEF RunIn, RecordIn, Database
<1>2. device[d].applied[r] <= device[d].checkpoint
  BY <1>1 DEF LastBeforeIn, NoRevision
<1>3. rows \in SUBSET (1..Len(log)) /\ \A i \in rows : device[d].checkpoint < i
  BY <1>1 DEF InPage, Covers
<1> DEFINE newest == Max(rows)
<1>4. Applied(d)[r] = IF rows = {} THEN device[d].applied[r] ELSE newest
  BY DEF Applied
<1> HIDE DEF rows
<1>5. CASE rows = {}
  BY <1>1, <1>4, <1>5
<1>6. CASE rows # {}
  <2>1. newest \in rows
    BY <1>1, <1>3, <1>6, MaxIsLast
  <2> HIDE DEF newest
  <2>2. newest \in Nat /\ device[d].checkpoint < newest
    BY <1>1, <1>3, <2>1
  <2> QED
    BY <1>1, <1>2, <1>4, <1>6, <2>2
<1> QED
  BY <1>5, <1>6

(* The base an edit is given. *)
LEMMA BaseChosen ==
  ASSUME ClientInv, WaitingNotNewer, NEW d \in Devices, NEW r \in Records
  PROVE  /\ BaseFor(d, r) <= device[d].applied[r]
         /\ device[d].outbox[r] = None => BaseFor(d, r) = device[d].applied[r]
<1>1. device[d].applied[r] \in Nat
  BY ClientTypes DEF Database
<1> QED
  BY <1>1 DEF BaseFor, WaitingNotNewer

(* What an edit changes of it. *)
LEMMA EditKeepsBases ==
  ASSUME ClientInv, WaitingNotNewer, NEW d \in Devices, NEW r \in Records, NEW m \in Mutations,
         NEW payload \in Payload \cup {None}, Edit(d, r, m, payload)
  PROVE  /\ WaitingNotNewer'
         /\ draft'[m] = [record |-> r, base |-> BaseFor(d, r), payload |-> payload]
         /\ \A x \in Mutations : x # m => draft'[x] = draft[x]
<1>1. /\ MutationDevice[m] = d /\ draft[m] = None
      /\ draft' = [draft EXCEPT ![m] = [record |-> r, base |-> BaseFor(d, r), payload |-> payload]]
      /\ device' = [device EXCEPT ![d] = [@ EXCEPT !.outbox[r] = m, !.product[r] = payload]]
  BY DEF Edit
<1>2. /\ device \in [Devices -> Database] /\ draft \in [Mutations -> Draft \cup {None}]
      /\ None \notin Mutations
      /\ \A e \in Devices, x \in Records : device[e].outbox[x] \in Mutations \cup {None}
      /\ device[d].outbox \in [Records -> Mutations \cup {None}]
  BY ClientTypes DEF ClientInv, Database
<1>3. /\ draft'[m] = [record |-> r, base |-> BaseFor(d, r), payload |-> payload]
      /\ \A x \in Mutations : x # m => draft'[x] = draft[x]
  BY <1>1, <1>2
<1>4. /\ \A e \in Devices, x \in Records : device'[e].applied[x] = device[e].applied[x]
      /\ \A e \in Devices, x \in Records : e # d \/ x # r => device'[e].outbox[x] = device[e].outbox[x]
      /\ device'[d].outbox[r] = m
  BY <1>1, <1>2 DEF Database
<1>5. ASSUME NEW e \in Devices, NEW x \in Records, device'[e].outbox[x] # None
      PROVE  draft'[device'[e].outbox[x]].base <= device'[e].applied[x]
  <2>1. CASE e = d /\ x = r
    <3>1. draft'[m].base = BaseFor(d, r)
      BY <1>3
    <3> QED
      BY <1>4, <2>1, <3>1, BaseChosen
  <2>2. CASE e # d \/ x # r
    <3> DEFINE entry == device[e].outbox[x]
    <3>1. entry \in Mutations /\ device'[e].outbox[x] = entry
      BY <1>2, <1>4, <1>5, <2>2
    <3>2. draft[entry] # None
      BY <1>2, <3>1, ClientTypes DEF RecordIn, ComposedFor
    <3>3. draft'[entry] = draft[entry]
      BY <1>1, <1>3, <3>1, <3>2
    <3>4. draft[entry].base <= device[e].applied[x]
      BY <1>2, <3>1 DEF WaitingNotNewer
    <3> QED
      BY <1>4, <3>1, <3>3, <3>4
  <2> QED
    BY <2>1, <2>2
<1> QED
  BY <1>3, <1>5 DEF WaitingNotNewer

(* The inductive step: entries come with edits, and pages are newer. *)
LEMMA WaitingStep == ClientInv /\ WaitingNotNewer /\ [Next]_vars => WaitingNotNewer'
<1> SUFFICES ASSUME ClientInv, WaitingNotNewer, [Next]_vars PROVE WaitingNotNewer'
  OBVIOUS
<1>0. /\ device \in [Devices -> Database] /\ draft \in [Mutations -> Draft \cup {None}]
      /\ \A e \in Devices, x \in Records : /\ device[e].outbox[x] \in Mutations \cup {None}
                                           /\ device[e].applied[x] \in Nat
                                           /\ Applied(e)[x] \in Nat \/ engine[e].phase # "apply"
  BY ClientTypes, PageApplied DEF ClientInv, Database
<1>1. CASE UNCHANGED <<device, draft>>
  BY <1>1 DEF WaitingNotNewer
<1>2. ASSUME NEW d \in Devices, Apply(d) PROVE WaitingNotNewer'
  <2>1. /\ engine[d].phase = "apply" /\ draft' = draft
        /\ device' = [device EXCEPT ![d] = [outbox |-> device[d].outbox, applied |-> Applied(d),
                                            product |-> Shown(d),
                                            checkpoint |-> engine[d].page.cursor]]
    BY <1>2 DEF Apply, Projects, logVars
  <2>2. ASSUME NEW e \in Devices, NEW x \in Records, device'[e].outbox[x] # None
        PROVE  draft'[device'[e].outbox[x]].base <= device'[e].applied[x]
    <3> DEFINE entry == device[e].outbox[x]
    <3>1. /\ device'[e].outbox[x] = entry
          /\ device'[e].applied[x] = IF e = d THEN Applied(d)[x] ELSE device[e].applied[x]
      BY <1>0, <2>1
    <3>2. /\ entry \in Mutations /\ draft[entry] # None
          /\ draft[entry].base <= device[e].applied[x]
      BY <1>0, <2>2, <3>1, ClientTypes DEF WaitingNotNewer, RecordIn, ComposedFor
    <3>3. draft[entry].base \in Nat
      BY <1>0, <3>2 DEF Draft
    <3>4. device[e].applied[x] <= device'[e].applied[x] /\ device'[e].applied[x] \in Nat
      BY <1>0, <2>1, <3>1, AppliedGrows
    <3> QED
      BY <1>0, <2>1, <3>1, <3>2, <3>3, <3>4
  <2> QED
    BY <2>2 DEF WaitingNotNewer
<1>3. ASSUME NEW d \in Devices, Acknowledge(d) PROVE WaitingNotNewer'
  <2>1. draft' = draft /\ \A e \in Devices, x \in Records :
          /\ device'[e].applied[x] = device[e].applied[x]
          /\ device'[e].outbox[x] \in {None, device[e].outbox[x]}
    BY <1>0, <1>3 DEF Acknowledge, Confirms, Database
  <2> QED
    BY <2>1 DEF WaitingNotNewer
<1>4. ASSUME NEW d \in Devices,
             Start(d) \/ Fetch(d) \/ Push(d) \/ NothingPending(d) \/ Stop(d)
      PROVE  UNCHANGED <<device, draft>>
  BY <1>4 DEF Start, Fetch, Push, NothingPending, Stop, logVars
<1>5. ASSUME NEW m \in Mutations, Accept(m) PROVE UNCHANGED <<device, draft>>
  BY <1>5, LogAcceptOK DEF Accept, ClientInv, ServerOK
<1>6. CASE UNCHANGED vars
  BY <1>1, <1>6 DEF vars, logVars
<1> QED
  BY <1>1, <1>2, <1>3, <1>4, <1>5, <1>6, EditKeepsBases DEF Next, Run

(* The step of the property. *)
LEMMA BaseStep ==
  ASSUME ClientInv, WaitingNotNewer, [Next]_vars, NEW m \in Mutations,
         draft[m] = None, draft'[m] # None
  PROVE  LET d == MutationDevice[m]
             r == draft'[m].record
         IN  /\ draft'[m].base <= device[d].applied[r]
             /\ device[d].outbox[r] = None => draft'[m].base = device[d].applied[r]
<1>1. ASSUME NEW d \in Devices, Run(d) \/ Stop(d) PROVE draft' = draft
  BY <1>1 DEF Run, Start, Fetch, Apply, Projects, Push, NothingPending, Acknowledge, Confirms,
              Stop, logVars
<1>2. ASSUME NEW x \in Mutations, Accept(x) PROVE draft' = draft
  BY <1>2, LogAcceptOK DEF Accept, ClientInv, ServerOK
<1>3. UNCHANGED vars => draft' = draft
  BY DEF vars, logVars
<1>4. PICK d \in Devices, r \in Records, x \in Mutations, payload \in Payload \cup {None} :
        Edit(d, r, x, payload)
  BY <1>1, <1>2, <1>3 DEF Next
<1>5. /\ draft'[x] = [record |-> r, base |-> BaseFor(d, r), payload |-> payload]
      /\ \A y \in Mutations : y # x => draft'[y] = draft[y]
  BY <1>4, EditKeepsBases
<1>6. m = x /\ MutationDevice[x] = d
  BY <1>4, <1>5 DEF Edit
<1>7. draft'[m].record = r /\ draft'[m].base = BaseFor(d, r) /\ MutationDevice[m] = d
  BY <1>5, <1>6
<1> QED
  BY <1>7, BaseChosen

(***************************************************************************)
(* drift_persistence.dart, _enqueue: the three-way merge of an edit starts *)
(* from a version that its device had shown, the newest unless the edit    *)
(* replaces one that still waits.                                          *)
(***************************************************************************)
THEOREM BasesWereShown == Spec => BaseNotNewer
<1>1. Init => WaitingNotNewer
  BY DEF Init, NewDatabase, WaitingNotNewer
<1>2. ClientInv /\ WaitingNotNewer /\ [Next]_vars =>
        [\A m \in Mutations :
           draft[m] = None /\ draft'[m] # None =>
             LET d == MutationDevice[m]
                 r == draft'[m].record
             IN  /\ draft'[m].base <= device[d].applied[r]
                 /\ device[d].outbox[r] = None => draft'[m].base = device[d].applied[r]]_vars
  BY BaseStep
<1>3. Spec => []WaitingNotNewer
  BY <1>1, WaitingStep, ClientInvariance, PTL DEF Spec
<1> QED
  BY <1>2, <1>3, ClientInvariance, PTL DEF Spec, BaseNotNewer

=============================================================================
