----------------------------- MODULE SyncServer -----------------------------
(***************************************************************************)
(* The sync server as the code runs it (packages/server/src/usecases/      *)
(* sync.ts over adapters/d1_sync_repository.ts).                           *)
(*                                                                         *)
(* Each worker serves one PUT mutation-batches request at a time.  The     *)
(* code between two awaited database statements touches nothing shared, so *)
(* a request is a sequence of actions, one per statement, and D1 runs each *)
(* statement atomically.  Requests of any worker interleave between them.  *)
(* A worker may die or lose its response anywhere, and a device may send   *)
(* the same mutations again, in other batches, while an earlier request is *)
(* still running.                                                          *)
(***************************************************************************)
EXTENDS SyncLog

CONSTANTS
  Workers,      \* requests the deployment serves at the same time
  MaxBatch,     \* mutations in a batch (maxMutationsPerBatch)
  MaxAttempts   \* Math.max(1, maxConflictRetries ?? 3)

ASSUME BatchAssumption   == MaxBatch \in Nat \ {0}
ASSUME AttemptAssumption == MaxAttempts \in Nat \ {0}

VARIABLE worker  \* the request each worker is serving

vars == <<logVars, worker>>

(***************************************************************************)
(* phase    the statement the request runs next:                           *)
(*            "find"    findMutation before the retry loop                 *)
(*            "read"    getCurrent at the top of an attempt                *)
(*            "append"  the conditional INSERT of the attempt              *)
(*            "recheck" findMutation after the INSERT returned no row      *)
(*            "done"    every result is known, the response is on its way  *)
(*            "failed"  SyncConflictError: the batch is answered with 409  *)
(* batch    the mutations of the request, results the answers so far;      *)
(*          the request is at mutation Len(results) + 1                    *)
(* attempt  attempts of that mutation that are over                        *)
(* current  the version getCurrent returned in this attempt                *)
(***************************************************************************)
Phases == {"idle", "find", "read", "append", "recheck", "done", "failed"}

Result == [status : {"applied", "merged", "replayed"}, revision : Nat]

Request == [phase : Phases, batch : Seq(Mutations), results : Seq(Result),
            attempt : Nat, current : Nat]

Idle == [phase |-> "idle", batch |-> <<>>, results |-> <<>>,
         attempt |-> 0, current |-> NoRevision]

(* The mutation the request of w is at, and its content. *)
At(w) == worker[w].batch[Len(worker[w].results) + 1]
Input(w) == draft[At(w)]

Init ==
  /\ LogInit
  /\ worker = [w \in Workers |-> Idle]

Compose(m) == LogCompose(m) /\ UNCHANGED worker

(***************************************************************************)
(* PUT mutation-batches arrives: a first upload, a retry, or a duplicate.  *)
(***************************************************************************)
Batches ==
  {batch \in UNION {[1..n -> Mutations] : n \in 1..MaxBatch} :
     /\ \A k \in DOMAIN batch : draft[batch[k]] # None
     /\ \A k \in DOMAIN batch : MutationOwner[batch[k]] = MutationOwner[batch[1]]}

Receive(w) ==
  /\ worker[w].phase = "idle"
  /\ \E batch \in Batches :
       worker' = [worker EXCEPT ![w] =
                    [phase |-> "find", batch |-> batch, results |-> <<>>,
                     attempt |-> 0, current |-> NoRevision]]
  /\ UNCHANGED logVars

(* The request goes on to another statement for the same mutation. *)
Goto(w, phase, attempt, current) ==
  worker' = [worker EXCEPT ![w] =
    [phase |-> phase, batch |-> worker[w].batch, results |-> worker[w].results,
     attempt |-> attempt, current |-> current]]

(* A result is pushed; the loop of pushMutations goes to the next mutation *)
(* or leaves.                                                              *)
PushResult(w, status, revision) ==
  LET results == Append(worker[w].results, [status |-> status, revision |-> revision])
  IN  worker' = [worker EXCEPT ![w] =
        [phase   |-> IF Len(results) = Len(worker[w].batch) THEN "done" ELSE "find",
         batch   |-> worker[w].batch,
         results |-> results,
         attempt |-> 0,
         current |-> NoRevision]]

(* Mutant of Replay: a status that is none of the three. *)
ReplayAsDuplicate(w) ==
  \E i \in DOMAIN log : log[i].mutation = At(w) /\ PushResult(w, "duplicate", i)

(* The answer to a mutation that already has a version: that version.      *)
Replay(w) ==
  \E i \in DOMAIN log : log[i].mutation = At(w) /\ PushResult(w, "replayed", i)

(* Mutant of Find: a mutation that is already stored is refused. *)
FindOrRefuse(w) ==
  /\ worker[w].phase = "find"
  /\ Goto(w, IF Accepted(At(w)) THEN "failed" ELSE "read", 0, NoRevision)
  /\ UNCHANGED logVars

(***************************************************************************)
(* findMutation, before the loop.  For a mutation without a version the    *)
(* code also reads the ancestor here.  Versions never change, so the       *)
(* ancestor is looked up where it is used (Resolve).                       *)
(***************************************************************************)
Find(w) ==
  /\ worker[w].phase = "find"
  /\ \/ Replay(w)
     \/ /\ ~Accepted(At(w))
        /\ Goto(w, "read", 0, NoRevision)
  /\ UNCHANGED logVars

ReadCurrent(w) ==
  /\ worker[w].phase = "read"
  /\ \E i \in {NoRevision} \cup DOMAIN log :
       /\ IsCurrent(MutationOwner[At(w)], Input(w).record, i)
       /\ Goto(w, "append", worker[w].attempt, i)
  /\ UNCHANGED logVars

(* Mutants of InsertApplies: no ON CONFLICT clause; no comparison with the  *)
(* version that is current now.                                            *)
InsertIgnoringIdentity(w) ==
  IsCurrent(MutationOwner[At(w)], Input(w).record, worker[w].current)

InsertIgnoringRace(w) == ~Accepted(At(w))

(***************************************************************************)
(* append: one conditional INSERT.  Its WHERE clause compares the version  *)
(* that is current now with the one the attempt read; its ON CONFLICT      *)
(* clause skips a mutation identity that is in the table.                  *)
(***************************************************************************)
InsertApplies(w) ==
  /\ IsCurrent(MutationOwner[At(w)], Input(w).record, worker[w].current)
  /\ ~Accepted(At(w))

Inserted(w) ==
  [owner    |-> MutationOwner[At(w)],
   record   |-> Input(w).record,
   mutation |-> At(w),
   base     |-> worker[w].current,
   payload  |-> Resolve(Input(w), worker[w].current)]

(* Mutant of AppendVersion: a merge is reported as "applied". *)
AppendAlwaysApplied(w) ==
  /\ worker[w].phase = "append"
  /\ InsertApplies(w)
  /\ log' = Append(log, Inserted(w))
  /\ PushResult(w, "applied", Len(log) + 1)
  /\ UNCHANGED <<draft, acked>>

AppendVersion(w) ==
  /\ worker[w].phase = "append"
  /\ InsertApplies(w)
  /\ log' = Append(log, Inserted(w))
  /\ PushResult(w, IF worker[w].current = Input(w).base THEN "applied" ELSE "merged",
                Len(log) + 1)
  /\ UNCHANGED <<draft, acked>>

AppendNothing(w) ==
  /\ worker[w].phase = "append"
  /\ ~InsertApplies(w)
  /\ Goto(w, "recheck", worker[w].attempt, NoRevision)
  /\ UNCHANGED logVars

(* findMutation after a lost race: replay, next attempt, or give up.       *)
Recheck(w) ==
  /\ worker[w].phase = "recheck"
  /\ \/ Replay(w)
     \/ /\ ~Accepted(At(w))
        /\ Goto(w, IF worker[w].attempt + 1 < MaxAttempts THEN "read" ELSE "failed",
                worker[w].attempt + 1, NoRevision)
  /\ UNCHANGED logVars

(* Mutant of Respond: the results are matched with the mutations in the    *)
(* opposite order.                                                         *)
RespondReversed(w) ==
  /\ worker[w].phase = "done"
  /\ acked' = [m \in Mutations |->
                 IF \E k \in DOMAIN worker[w].batch : worker[w].batch[k] = m
                 THEN worker[w].results[Len(worker[w].batch) + 1
                                        - CHOOSE k \in DOMAIN worker[w].batch :
                                            worker[w].batch[k] = m].revision
                 ELSE acked[m]]
  /\ worker' = [worker EXCEPT ![w] = Idle]
  /\ UNCHANGED <<log, draft>>

(* The 200 response reaches the device that asked. *)
Respond(w) ==
  /\ worker[w].phase = "done"
  /\ acked' = [m \in Mutations |->
                 IF \E k \in DOMAIN worker[w].batch : worker[w].batch[k] = m
                 THEN worker[w].results[CHOOSE k \in DOMAIN worker[w].batch :
                                          worker[w].batch[k] = m].revision
                 ELSE acked[m]]
  /\ worker' = [worker EXCEPT ![w] = Idle]
  /\ UNCHANGED <<log, draft>>

(* The 409 response: none of the results of the batch are in it. *)
Reject(w) ==
  /\ worker[w].phase = "failed"
  /\ worker' = [worker EXCEPT ![w] = Idle]
  /\ UNCHANGED logVars

(* The worker dies, or the connection does: the request ends unanswered    *)
(* and what it has stored stays stored.                                    *)
Crash(w) ==
  /\ worker[w].phase \notin {"idle", "failed"}
  /\ worker' = [worker EXCEPT ![w] = Idle]
  /\ UNCHANGED logVars

Serve(w) ==
  \/ Find(w) \/ ReadCurrent(w) \/ AppendVersion(w) \/ AppendNothing(w)
  \/ Recheck(w) \/ Respond(w) \/ Reject(w)

Next ==
  \/ \E m \in Mutations : Compose(m)
  \/ \E w \in Workers : Receive(w) \/ Serve(w) \/ Crash(w)

Spec == Init /\ [][Next]_vars

-----------------------------------------------------------------------------
(* The state of the server is well formed. *)
TypeOK ==
  /\ log \in Seq(Version)
  /\ draft \in [Mutations -> Draft \cup {None}]
  /\ acked \in [Mutations -> Nat]
  /\ worker \in [Workers -> Request]

(***************************************************************************)
(* A mutation identity never becomes two versions, whatever the retries,   *)
(* duplicates and concurrent copies of its request (semantics.md: replay   *)
(* "cannot append another version").                                       *)
(***************************************************************************)
ExactlyOnce ==
  \A i, j \in DOMAIN log : log[i].mutation = log[j].mutation => i = j

(***************************************************************************)
(* The versions of a record form one chain: each is stored on top of the   *)
(* version right before it, never on one that was already superseded when  *)
(* the row was written.  This is what the compare-and-set of append is     *)
(* for: the attempt read "current" one or more statements earlier.         *)
(***************************************************************************)
LinearHistory ==
  \A i \in DOMAIN log : IsLastBefore(log[i].owner, log[i].record, log[i].base, i)

(***************************************************************************)
(* What is stored for a mutation is the merge of what its device sent with *)
(* the version that precedes it in the log, whichever version its request  *)
(* had read: the payloads are those of requests served one after another   *)
(* in the order of the log.                                                *)
(***************************************************************************)
MergedOntoPredecessor ==
  \A i \in DOMAIN log : \A j \in {NoRevision} \cup DOMAIN log :
    IsLastBefore(log[i].owner, log[i].record, j, i) =>
      log[i].payload = Resolve(draft[log[i].mutation], j)

(***************************************************************************)
(* Each result a request has collected names the version its mutation      *)
(* became, be it by this request or by a concurrent copy of it, and says   *)
(* "applied" exactly when the device's base was the version it followed.   *)
(***************************************************************************)
ResultTrue(m, result) ==
  /\ result.revision \in DOMAIN log
  /\ log[result.revision].mutation = m
  /\ result.status = "applied" => log[result.revision].base = draft[m].base
  /\ result.status = "merged"  => log[result.revision].base # draft[m].base

TruthfulResults ==
  \A w \in Workers : \A k \in DOMAIN worker[w].results :
    ResultTrue(worker[w].batch[k], worker[w].results[k])

(***************************************************************************)
(* A device that was told its mutation is stored (and so dropped it from   *)
(* its outbox) can rely on the version it was told of.                     *)
(***************************************************************************)
TruthfulAcks ==
  \A m \in Mutations :
    acked[m] # NoRevision => acked[m] \in DOMAIN log /\ log[acked[m]].mutation = m

(***************************************************************************)
(* Fairness.  The runtime keeps running a request it has accepted; a       *)
(* device keeps sending a mutation until it is acknowledged (the outbox    *)
(* keeps it and syncNow runs again).                                       *)
(***************************************************************************)
Upload(m) == \E w \in Workers : Receive(w) /\ \E k \in DOMAIN worker'[w].batch :
                                                worker'[w].batch[k] = m

Fairness ==
  /\ \A w \in Workers : WF_vars(Serve(w))
  /\ \A m \in Mutations : SF_vars(acked[m] = NoRevision /\ Upload(m))

FairSpec == Spec /\ Fairness

(***************************************************************************)
(* A request that ends without having been served.  (The loss of a         *)
(* response that says nothing new is a step like that of the response.)    *)
(***************************************************************************)
Lost(w) == Crash(w) /\ ~Respond(w)

(***************************************************************************)
(* Once requests are not lost any more, every mutation a device has        *)
(* composed is acknowledged, 409 answers, lost races and the uploads of    *)
(* others notwithstanding.                                                 *)
(***************************************************************************)
EveryMutationAcknowledged ==
  <>[][\A w \in Workers : ~Lost(w)]_vars
    => \A m \in Mutations : draft[m] # None ~> acked[m] # NoRevision

=============================================================================
