----------------------------- MODULE SyncClient -----------------------------
(***************************************************************************)
(* Devices that edit offline and synchronize (packages/appbase_client/lib/ *)
(* src/sync_engine.dart over packages/appbase_drift/lib/src/               *)
(* drift_persistence.dart).                                                *)
(*                                                                         *)
(* The product database of a device holds the product's rows, the outbox,  *)
(* the revisions it has applied and the checkpoint; each transaction on it *)
(* is an action.  One sync run at a time pulls, pushes and pulls again,    *)
(* while the user goes on editing between any two of its steps, and it may *)
(* stop at any step: a lost response, a timeout, a 409, a killed process.  *)
(*                                                                         *)
(* The server is the log of SyncLog.tla, which SyncServer.tla implements.  *)
(* A request that was sent may still be served after its device gave up.   *)
(***************************************************************************)
EXTENDS SyncLog, FiniteSetsExt

CONSTANTS
  Devices,
  DeviceOwner,     \* the account each device is signed in to
  MutationDevice,  \* the device that may compose a mutation
  PageSize,        \* maxChangesPerPage
  BatchSize        \* maxMutationsPerBatch

ASSUME DeviceAssumption ==
  /\ DeviceOwner \in [Devices -> Owners]
  /\ MutationDevice \in [Mutations -> Devices]
  /\ \A m \in Mutations : MutationOwner[m] = DeviceOwner[MutationDevice[m]]
  /\ None \notin Mutations
ASSUME SizeAssumption == PageSize \in Nat \ {0} /\ BatchSize \in Nat \ {0}

VARIABLES
  device,  \* the database of each device
  engine,  \* its sync run
  sent,    \* mutations of push requests that may still be served
  latest   \* history: the last mutation composed per device and record

vars == <<logVars, device, engine, sent, latest>>

Feed == INSTANCE SyncFeed WITH Readers <- Devices, ReaderOwner <- DeviceOwner, reader <- device

(***************************************************************************)
(* The outbox has at most one entry per record; base and payload of an     *)
(* entry are the draft of its mutation.  applied is the revision column of *)
(* the record metadata, product what the user sees.                        *)
(***************************************************************************)
NewDatabase == [outbox     |-> [r \in Records |-> None],
                applied    |-> [r \in Records |-> NoRevision],
                product    |-> [r \in Records |-> None],
                checkpoint |-> 0]

(***************************************************************************)
(* phase  "idle", "pull" (a page is to be fetched), "apply" (a page is in  *)
(*        hand), "load" (the outbox is to be read), "push" (a batch is on  *)
(*        its way); round 1 is the pull before the pushes, 2 the one after *)
(***************************************************************************)
NoPage == [changes |-> {}, cursor |-> 0, hasMore |-> FALSE]

Engine(phase, round, page, batch) ==
  [phase |-> phase, round |-> round, page |-> page, batch |-> batch]

Stopped == Engine("idle", 1, NoPage, {})

Goes(d, state) == engine' = [engine EXCEPT ![d] = state]

Outbox(d) == {device[d].outbox[r] : r \in Records} \ {None}

Init ==
  /\ LogInit
  /\ device = [d \in Devices |-> NewDatabase]
  /\ engine = [d \in Devices |-> Stopped]
  /\ sent = {}
  /\ latest = [d \in Devices |-> [r \in Records |-> None]]

(***************************************************************************)
(* commit: the product's write and _enqueue, in one transaction.  The new  *)
(* entry takes the place of one that waits for the same record, and keeps  *)
(* its base revision; otherwise the base is the revision last applied.     *)
(***************************************************************************)
BaseFor(d, r) ==
  IF device[d].outbox[r] # None /\ draft[device[d].outbox[r]].base # NoRevision
  THEN draft[device[d].outbox[r]].base
  ELSE device[d].applied[r]

(* Mutant: an entry that waits is rewritten and keeps its mutation id. *)
EditInPlace(d, r, m, payload) ==
  /\ MutationDevice[m] = d
  /\ m = device[d].outbox[r] \/ (device[d].outbox[r] = None /\ draft[m] = None)
  /\ draft' = [draft EXCEPT ![m] = [record |-> r, base |-> BaseFor(d, r), payload |-> payload]]
  /\ device' = [device EXCEPT ![d] = [@ EXCEPT !.outbox[r] = m, !.product[r] = payload]]
  /\ latest' = [latest EXCEPT ![d][r] = m]
  /\ UNCHANGED <<log, acked, engine, sent>>

Edit(d, r, m, payload) ==
  /\ MutationDevice[m] = d
  /\ draft[m] = None
  /\ draft' = [draft EXCEPT ![m] = [record |-> r, base |-> BaseFor(d, r), payload |-> payload]]
  /\ device' = [device EXCEPT ![d] = [@ EXCEPT !.outbox[r] = m, !.product[r] = payload]]
  /\ latest' = [latest EXCEPT ![d][r] = m]
  /\ UNCHANGED <<log, acked, engine, sent>>

(* syncNow, when no run is active. *)
Start(d) ==
  /\ engine[d].phase = "idle"
  /\ Goes(d, Engine("pull", 1, NoPage, {}))
  /\ UNCHANGED <<logVars, device, sent, latest>>

(* Mutant: the checkpoint is saved as soon as the page is there. *)
FetchMovingCheckpoint(d) ==
  LET page == Feed!pullChanges(DeviceOwner[d], device[d].checkpoint)
  IN  /\ engine[d].phase = "pull"
      /\ Goes(d, Engine("apply", engine[d].round, page, {}))
      /\ device' = [device EXCEPT ![d].checkpoint = page.cursor]
      /\ UNCHANGED <<logVars, sent, latest>>

(* The server answers GET changes from the checkpoint on. *)
Fetch(d) ==
  /\ engine[d].phase = "pull"
  /\ Goes(d, Engine("apply", engine[d].round,
                    Feed!pullChanges(DeviceOwner[d], device[d].checkpoint), {}))
  /\ UNCHANGED <<logVars, device, sent, latest>>

(* Where the run goes from a page, and what the page does to a database.   *)
AfterPage(d) ==
  IF engine[d].page.hasMore THEN Engine("pull", engine[d].round, NoPage, {})
  ELSE IF engine[d].round = 1 THEN Engine("load", 1, NoPage, {})
  ELSE Stopped

InPage(d, r) == {i \in engine[d].page.changes : log[i].record = r}

Applied(d) == [r \in Records |-> IF InPage(d, r) = {} THEN device[d].applied[r]
                                ELSE Max(InPage(d, r))]

Shown(d) == [r \in Records |-> IF InPage(d, r) = {} THEN device[d].product[r]
                              ELSE log[Max(InPage(d, r))].payload]

Projects(d, product, checkpoint) ==
  /\ engine[d].phase = "apply"
  /\ device' = [device EXCEPT ![d] = [outbox  |-> device[d].outbox, applied |-> Applied(d),
                                      product |-> product, checkpoint |-> checkpoint]]
  /\ Goes(d, AfterPage(d))
  /\ UNCHANGED <<logVars, sent, latest>>

(* Mutant: changes the device composed itself are not shown again. *)
ApplyForeign(d) ==
  Projects(d, [r \in Records |-> IF InPage(d, r) # {}
                                     /\ MutationDevice[log[Max(InPage(d, r))].mutation] = d
                                THEN device[d].product[r] ELSE Shown(d)[r]],
           engine[d].page.cursor)

(* applyPull: every change of the page goes to its adapter and into the    *)
(* record metadata, and the checkpoint moves, in one transaction.          *)
Apply(d) == Projects(d, Shown(d), engine[d].page.cursor)

(***************************************************************************)
(* loadPending, and the request that carries what it returned: any entries *)
(* up to the limit, since they are ordered by the device's clock, which    *)
(* may be set back, and by random mutation ids.                            *)
(***************************************************************************)
Push(d) ==
  /\ engine[d].phase = "load"
  /\ \E batch \in SUBSET Outbox(d) :
       /\ batch # {}
       /\ Cardinality(batch) = Min({BatchSize, Cardinality(Outbox(d))})
       /\ sent' = sent \cup batch
       /\ Goes(d, Engine("push", 1, NoPage, batch))
  /\ UNCHANGED <<logVars, device, latest>>

NothingPending(d) ==
  /\ engine[d].phase = "load"
  /\ Outbox(d) = {}
  /\ Goes(d, Engine("pull", 2, NoPage, {}))
  /\ UNCHANGED <<logVars, device, sent, latest>>

(* The entries of the removed records go away with the answer. *)
Confirms(d, removed) ==
  LET batch == engine[d].batch
  IN  /\ engine[d].phase = "push"
      /\ \A m \in batch : Accepted(m)
      /\ device' = [device EXCEPT ![d].outbox =
                      [r \in Records |-> IF r \in removed THEN None ELSE device[d].outbox[r]]]
      /\ acked' = [m \in Mutations |-> IF m \in batch
                                       THEN CHOOSE i \in DOMAIN log : log[i].mutation = m
                                       ELSE acked[m]]
      /\ Goes(d, Engine("load", 1, NoPage, {}))
      /\ UNCHANGED <<log, draft, sent, latest>>

(* Mutants: the entries are deleted by record; entries that were merged    *)
(* stay.                                                                   *)
AcknowledgeByRecord(d) == Confirms(d, {draft[m].record : m \in engine[d].batch})

AcknowledgeApplied(d) ==
  Confirms(d, {r \in Records : \E i \in DOMAIN log :
                 /\ device[d].outbox[r] \in engine[d].batch
                 /\ log[i].mutation = device[d].outbox[r]
                 /\ log[i].base = draft[log[i].mutation].base})

(* The 200 answer arrives: acknowledge deletes the entries by mutation id. *)
Acknowledge(d) ==
  Confirms(d, {r \in Records : device[d].outbox[r] \in engine[d].batch})

(* The run ends early.  The database keeps what was committed.             *)
Stop(d) ==
  /\ engine[d].phase # "idle"
  /\ Goes(d, Stopped)
  /\ UNCHANGED <<logVars, device, sent, latest>>

(* The server gets to a mutation it was sent, now or long ago. *)
Accept(m) ==
  /\ m \in sent
  /\ LogAccept(m)
  /\ UNCHANGED <<device, engine, sent, latest>>

Run(d) == Start(d) \/ Fetch(d) \/ Apply(d) \/ Push(d) \/ NothingPending(d) \/ Acknowledge(d)

Next ==
  \/ \E d \in Devices, r \in Records, m \in Mutations, payload \in Payload \cup {None} :
       Edit(d, r, m, payload)
  \/ \E d \in Devices : Run(d) \/ Stop(d)
  \/ \E m \in Mutations : Accept(m)

Spec == Init /\ [][Next]_vars

-----------------------------------------------------------------------------
(* The state of the devices is well formed. *)
TypeOK ==
  /\ device \in [Devices -> [outbox     : [Records -> Mutations \cup {None}],
                             applied    : [Records -> Nat],
                             product    : [Records -> Payload \cup {None}],
                             checkpoint : Nat]]
  /\ engine \in [Devices -> [phase : {"idle", "pull", "apply", "load", "push"},
                             round : {1, 2},
                             page  : [changes : SUBSET Nat, cursor : Nat, hasMore : BOOLEAN],
                             batch : SUBSET Mutations]]
  /\ sent \in SUBSET Mutations

(***************************************************************************)
(* The last edit of a record on a device is never lost: it is in the       *)
(* outbox or the server has it, although the entry it replaced may have    *)
(* been on its way and its answer comes in after the edit.                 *)
(***************************************************************************)
LastEditKept ==
  \A d \in Devices, r \in Records :
    latest[d][r] # None => device[d].outbox[r] = latest[d][r] \/ Accepted(latest[d][r])

(***************************************************************************)
(* The record metadata is that of the checkpoint, wherever runs stopped    *)
(* and however much the log grew between fetching a page and applying it   *)
(* ("the client persists it only in the same transaction that applies the  *)
(* page").                                                                 *)
(***************************************************************************)
AppliedAtCheckpoint ==
  \A d \in Devices, r \in Records :
    IsLastBefore(DeviceOwner[d], r, device[d].applied[r], device[d].checkpoint + 1)

(***************************************************************************)
(* A device with nothing left to send and nothing left to pull shows what  *)
(* the server holds, also where the server merged the device's own edit.   *)
(***************************************************************************)
SynchronizedShowsServer ==
  \A d \in Devices :
    Outbox(d) = {} /\ Feed!After(DeviceOwner[d], device[d].checkpoint) = {} =>
      \A r \in Records : \E i \in {NoRevision} \cup DOMAIN log :
        IsCurrent(DeviceOwner[d], r, i) /\ device[d].product[r] = PayloadAt(i)

(***************************************************************************)
(* "baseRevision is the revision the client last projected"                *)
(* (protocol/semantics.md line 25), of every mutation as it is composed.   *)
(***************************************************************************)
BaseIsProjected ==
  [][\A m \in Mutations :
       draft[m] = None /\ draft'[m] # None =>
         draft'[m].base = device[MutationDevice[m]].applied[draft'[m].record]]_vars

(***************************************************************************)
(* Fairness: syncNow runs again and again (timers, connectivity and resume *)
(* signals, retries), a run goes on, the server serves what it is sent.    *)
(***************************************************************************)
Fairness ==
  /\ \A d \in Devices : WF_vars(Run(d))
  /\ \A m \in Mutations : WF_vars(Accept(m))

FairSpec == Spec /\ Fairness

(* What the devices come to, once runs stop failing (edits are finite:     *)
(* there are finitely many mutation identities): an empty outbox and the   *)
(* state of the server.                                                    *)
Synchronized ==
  \A d \in Devices : Outbox(d) = {} /\ Feed!After(DeviceOwner[d], device[d].checkpoint) = {}

=============================================================================
