-------------------------- MODULE SyncServer_proof --------------------------
(***************************************************************************)
(* Theorems about SyncServer.tla, for any number of accounts, records,     *)
(* mutations, workers, retries and batch sizes.                            *)
(***************************************************************************)
EXTENDS SyncServer, SyncLog_proof

(* The parts of a request's state its actions rely on: a mutation it is at *)
(* exists and has a content, and a finished request has every answer.      *)
RequestOK ==
  \A w \in Workers :
    /\ worker[w].phase # "idle" => Len(worker[w].batch) > 0
    /\ \A k \in DOMAIN worker[w].batch : draft[worker[w].batch[k]] # None
    /\ worker[w].phase \in {"find", "read", "append", "recheck"}
         => Len(worker[w].results) < Len(worker[w].batch)
    /\ worker[w].phase = "done" => Len(worker[w].results) = Len(worker[w].batch)
    /\ Len(worker[w].results) <= Len(worker[w].batch)

(* What is stored for a mutation is the merge of its content with the      *)
(* version that its request had read.                                      *)
StoredAsResolved ==
  \A i \in DOMAIN log :
    /\ draft[log[i].mutation] # None
    /\ log[i].record  = draft[log[i].mutation].record
    /\ log[i].owner   = MutationOwner[log[i].mutation]
    /\ log[i].payload = Resolve(draft[log[i].mutation], log[i].base)

(* The inductive invariant. *)
IInv ==
  /\ TypeOK
  /\ RequestOK
  /\ DraftOK
  /\ ExactlyOnce
  /\ LinearHistory
  /\ StoredAsResolved
  /\ TruthfulResults
  /\ TruthfulAcks

(* A batch is a non-empty sequence of mutations. *)
LEMMA BatchIsSeq ==
  ASSUME NEW batch \in Batches
  PROVE  /\ batch \in Seq(Mutations)
         /\ Len(batch) > 0
         /\ \A k \in DOMAIN batch : draft[batch[k]] # None
<1>1. PICK n \in 1..MaxBatch : batch \in [1..n -> Mutations]
  BY DEF Batches
<1>2. n \in Nat \ {0}
  BY BatchAssumption
<1>3. batch \in Seq(Mutations) /\ Len(batch) = n
  BY <1>1, <1>2
<1> QED
  BY <1>2, <1>3 DEF Batches

(* The empty log and the idle workers are in order. *)
LEMMA InitIInv == Init => IInv
<1> SUFFICES ASSUME Init PROVE IInv
  OBVIOUS
<1> USE DEF Init, LogInit
<1>1. Idle \in Request
  BY DEF Idle, Request, Phases, NoRevision
<1>2. TypeOK
  BY <1>1 DEF TypeOK, NoRevision
<1>3. RequestOK /\ TruthfulResults
  BY DEF RequestOK, TruthfulResults, Idle
<1>4. DraftOK /\ ExactlyOnce /\ LinearHistory /\ StoredAsResolved /\ TruthfulAcks
  BY DEF DraftOK, ExactlyOnce, LinearHistory, StoredAsResolved, TruthfulAcks
<1> QED
  BY <1>2, <1>3, <1>4 DEF IInv

(* What the request of a worker that is at a mutation looks at.            *)
LEMMA AtMutation ==
  ASSUME IInv, NEW w \in Workers,
         worker[w].phase \in {"find", "read", "append", "recheck"}
  PROVE  /\ Len(worker[w].results) + 1 \in DOMAIN worker[w].batch
         /\ At(w) \in Mutations
         /\ Input(w) \in Draft
         /\ Input(w).base \in {NoRevision} \cup DOMAIN log
<1>1. worker[w] \in Request
  BY DEF IInv, TypeOK
<1>2. Len(worker[w].results) < Len(worker[w].batch)
  BY DEF IInv, RequestOK
<1>3. Len(worker[w].results) + 1 \in DOMAIN worker[w].batch
  BY <1>1, <1>2 DEF Request
<1>4. At(w) \in Mutations
  BY <1>1, <1>3 DEF Request, At
<1>5. Input(w) # None
  BY <1>3 DEF IInv, RequestOK, At, Input
<1>6. Input(w) \in Draft
  BY <1>4, <1>5 DEF IInv, TypeOK, Input
<1>7. Input(w).base \in {NoRevision} \cup DOMAIN log
  BY <1>4, <1>5 DEF IInv, DraftOK, Input
<1> QED
  BY <1>3, <1>4, <1>6, <1>7

(* PushResult records one true answer and stays a well-formed request.     *)
LEMMA PushResultOK ==
  ASSUME IInv, NEW w \in Workers, NEW status, NEW revision,
         worker[w].phase \in {"find", "read", "append", "recheck"},
         [status |-> status, revision |-> revision] \in Result,
         PushResult(w, status, revision)
  PROVE  /\ worker' \in [Workers -> Request]
         /\ worker'[w].batch = worker[w].batch
         /\ worker'[w].results = Append(worker[w].results,
                                        [status |-> status, revision |-> revision])
         /\ \A v \in Workers \ {w} : worker'[v] = worker[v]
         /\ \A v \in Workers :
              /\ worker'[v].phase # "idle" => Len(worker'[v].batch) > 0
              /\ worker'[v].phase \in {"find", "read", "append", "recheck"}
                   => Len(worker'[v].results) < Len(worker'[v].batch)
              /\ worker'[v].phase = "done"
                   => Len(worker'[v].results) = Len(worker'[v].batch)
              /\ Len(worker'[v].results) <= Len(worker'[v].batch)
<1> DEFINE res == [status |-> status, revision |-> revision]
           new == Append(worker[w].results, res)
           req == [phase   |-> IF Len(new) = Len(worker[w].batch) THEN "done" ELSE "find",
                   batch   |-> worker[w].batch, results |-> new,
                   attempt |-> 0, current |-> NoRevision]
<1>1. worker \in [Workers -> Request] /\ worker[w] \in Request
  BY DEF IInv, TypeOK
<1>2. worker' = [worker EXCEPT ![w] = req]
  BY DEF PushResult
<1>3. new \in Seq(Result) /\ Len(new) = Len(worker[w].results) + 1
  BY <1>1 DEF Request
<1>4. req \in Request
  BY <1>1, <1>3 DEF Request, Phases, NoRevision
<1>5. Len(worker[w].results) < Len(worker[w].batch)
  BY DEF IInv, RequestOK
<1>6. Len(new) <= Len(worker[w].batch) /\ Len(worker[w].batch) > 0
  BY <1>1, <1>3, <1>5 DEF Request
<1>7. worker' \in [Workers -> Request] /\ worker'[w] = req
  BY <1>1, <1>2, <1>4
<1>8. \A v \in Workers \ {w} : worker'[v] = worker[v]
  BY <1>1, <1>2
<1>9. /\ req.phase \in {"find", "read", "append", "recheck"}
           => Len(req.results) < Len(req.batch)
      /\ req.phase = "done" => Len(req.results) = Len(req.batch)
      /\ Len(req.results) <= Len(req.batch)
      /\ Len(req.batch) > 0
  <2>1. Len(new) \in Nat /\ Len(worker[w].batch) \in Nat
    BY <1>1, <1>3 DEF Request
  <2> QED
    BY <1>6, <2>1
<1>10. \A v \in Workers :
              /\ worker'[v].phase # "idle" => Len(worker'[v].batch) > 0
              /\ worker'[v].phase \in {"find", "read", "append", "recheck"}
                   => Len(worker'[v].results) < Len(worker'[v].batch)
              /\ worker'[v].phase = "done"
                   => Len(worker'[v].results) = Len(worker'[v].batch)
              /\ Len(worker'[v].results) <= Len(worker'[v].batch)
  BY <1>7, <1>8, <1>9 DEF IInv, RequestOK
<1> HIDE DEF req
<1> QED
  BY <1>7, <1>8, <1>10 DEF req

(* ResultTrue with the log and the drafts it looks at as parameters.       *)
TrueIn(lg, dr, m, result) ==
  /\ result.revision \in DOMAIN lg
  /\ lg[result.revision].mutation = m
  /\ result.status = "applied" => lg[result.revision].base = dr[m].base
  /\ result.status = "merged"  => lg[result.revision].base # dr[m].base

AnswersTrueIn(lg, dr, wk) ==
  \A w \in Workers : \A k \in DOMAIN wk[w].results :
    TrueIn(lg, dr, wk[w].batch[k], wk[w].results[k])

(* TruthfulResults in constant-level terms. *)
LEMMA TruthfulResultsDef ==
  /\ TruthfulResults  <=> AnswersTrueIn(log, draft, worker)
  /\ TruthfulResults' <=> AnswersTrueIn(log', draft', worker')
BY DEF TruthfulResults, ResultTrue, AnswersTrueIn, TrueIn

(* LinearHistory in constant-level terms. *)
LEMMA LinearHistoryDef ==
  /\ LinearHistory <=> \A i \in DOMAIN log :
                         LastBeforeIn(log, log[i].owner, log[i].record, log[i].base, i)
  /\ LinearHistory' <=> \A i \in DOMAIN log' :
                         LastBeforeIn(log', log'[i].owner, log'[i].record, log'[i].base, i)
BY DEF LinearHistory, IsLastBefore, VersionOf, LastBeforeIn

PayloadIn(lg, i) == IF i = NoRevision THEN None ELSE lg[i].payload

ResolveIn(lg, d, i) ==
  IF i = d.base THEN d.payload
  ELSE defaultThreeWayMerge(PayloadIn(lg, d.base), PayloadIn(lg, i), d.payload)

MergedIn(lg, dr, i) ==
  /\ dr[lg[i].mutation] # None
  /\ lg[i].record  = dr[lg[i].mutation].record
  /\ lg[i].owner   = MutationOwner[lg[i].mutation]
  /\ lg[i].payload = ResolveIn(lg, dr[lg[i].mutation], lg[i].base)

(* StoredAsResolved in constant-level terms. *)
LEMMA MergedDef ==
  /\ StoredAsResolved  <=> \A i \in DOMAIN log  : MergedIn(log, draft, i)
  /\ StoredAsResolved' <=> \A i \in DOMAIN log' : MergedIn(log', draft', i)
BY DEF StoredAsResolved, MergedIn, Resolve, ResolveIn, PayloadAt, PayloadIn

(* A step that writes neither the log nor the drafts keeps what is about   *)
(* them alone.                                                             *)
LEMMA LogUnchanged ==
  ASSUME IInv, UNCHANGED <<log, draft>>
  PROVE  DraftOK' /\ ExactlyOnce' /\ LinearHistory' /\ StoredAsResolved'
<1>1. DraftOK'
  BY DEF IInv, DraftOK
<1>2. ExactlyOnce'
  BY DEF IInv, ExactlyOnce
<1>3. LinearHistory'
  BY DEF IInv, LinearHistory, IsLastBefore, VersionOf
<1>4. StoredAsResolved'
  BY DEF IInv, StoredAsResolved, Resolve, PayloadAt
<1> QED
  BY <1>1, <1>2, <1>3, <1>4

(* The answers of all requests after one more true answer was recorded.    *)
LEMMA PushResultTrue ==
  ASSUME IInv, NEW w \in Workers, NEW status, NEW revision,
         worker[w].phase \in {"find", "read", "append", "recheck"},
         [status |-> status, revision |-> revision] \in Result,
         PushResult(w, status, revision),
         TrueIn(log', draft', At(w), [status |-> status, revision |-> revision]),
         \A m \in Mutations, result \in Result :
              TrueIn(log, draft, m, result) => TrueIn(log', draft', m, result)
  PROVE  TruthfulResults'
<1> DEFINE res == [status |-> status, revision |-> revision]
<1>1. /\ worker'[w].batch = worker[w].batch
      /\ worker'[w].results = Append(worker[w].results, res)
      /\ \A v \in Workers \ {w} : worker'[v] = worker[v]
  BY PushResultOK
<1>2. \A v \in Workers :
        /\ worker[v].batch \in Seq(Mutations)
        /\ worker[v].results \in Seq(Result)
        /\ Len(worker[v].results) <= Len(worker[v].batch)
  BY DEF IInv, TypeOK, RequestOK, Request
<1>3. ASSUME NEW v \in Workers, NEW k \in DOMAIN worker[v].results
      PROVE  TrueIn(log', draft', worker[v].batch[k], worker[v].results[k])
  <2>1. worker[v].batch[k] \in Mutations /\ worker[v].results[k] \in Result
    BY <1>2
  <2>2. TrueIn(log, draft, worker[v].batch[k], worker[v].results[k])
    BY TruthfulResultsDef DEF IInv, AnswersTrueIn
  <2> QED
    BY <2>1, <2>2
<1>4. ASSUME NEW v \in Workers, NEW k \in DOMAIN worker'[v].results
      PROVE  TrueIn(log', draft', worker'[v].batch[k], worker'[v].results[k])
  <2>1. CASE v # w
    BY <1>1, <1>3, <2>1
  <2>2. CASE v = w /\ k \in DOMAIN worker[w].results
    <3>1. worker'[w].results[k] = worker[w].results[k]
      BY <1>1, <1>2, <2>2
    <3> QED
      BY <1>1, <1>3, <2>2, <3>1
  <2>3. CASE v = w /\ k \notin DOMAIN worker[w].results
    <3>1. k = Len(worker[w].results) + 1 /\ worker'[w].results[k] = res
      BY <1>1, <1>2, <1>4, <2>3
    <3> QED
      BY <1>1, <2>3, <3>1 DEF At
  <2> QED
    BY <2>1, <2>2, <2>3
<1> QED
  BY <1>4, TruthfulResultsDef DEF AnswersTrueIn

(* A replayed answer: the log does not change.                             *)
LEMMA ReplayStep ==
  ASSUME IInv, NEW w \in Workers,
         worker[w].phase \in {"find", "recheck"},
         Replay(w), UNCHANGED logVars
  PROVE  IInv'
<1>1. PICK i \in DOMAIN log : log[i].mutation = At(w) /\ PushResult(w, "replayed", i)
  BY DEF Replay
<1> DEFINE res == [status |-> "replayed", revision |-> i]
<1>2. i \in Nat
  BY DEF IInv, TypeOK
<1>3. res \in Result
  BY <1>2 DEF Result
<1>4. worker[w].phase \in {"find", "read", "append", "recheck"}
  OBVIOUS
<1>5. log' = log /\ draft' = draft /\ acked' = acked
  BY DEF logVars
<1>6. /\ worker' \in [Workers -> Request]
      /\ worker'[w].batch = worker[w].batch
      /\ \A v \in Workers \ {w} : worker'[v] = worker[v]
      /\ \A v \in Workers :
              /\ worker'[v].phase # "idle" => Len(worker'[v].batch) > 0
              /\ worker'[v].phase \in {"find", "read", "append", "recheck"}
                   => Len(worker'[v].results) < Len(worker'[v].batch)
              /\ worker'[v].phase = "done"
                   => Len(worker'[v].results) = Len(worker'[v].batch)
              /\ Len(worker'[v].results) <= Len(worker'[v].batch)
  BY <1>1, <1>3, <1>4, PushResultOK
<1>7. TypeOK'
  BY <1>5, <1>6 DEF IInv, TypeOK
<1>8. RequestOK'
  BY <1>5, <1>6 DEF IInv, RequestOK
<1>9. TrueIn(log', draft', At(w), res)
  BY <1>1, <1>5 DEF TrueIn
<1>10. TruthfulResults'
  BY <1>1, <1>3, <1>4, <1>5, <1>9, PushResultTrue
<1>11. TruthfulAcks'
  BY <1>5 DEF IInv, TruthfulAcks
<1> QED
  BY <1>5, <1>7, <1>8, <1>10, <1>11, LogUnchanged DEF IInv

(* A step that gives one worker another request state and writes nothing   *)
(* else that the invariant looks at, except maybe acknowledgements.        *)
LEMMA WorkerStep ==
  ASSUME IInv, NEW w \in Workers, NEW req \in Request,
         worker' = [worker EXCEPT ![w] = req],
         UNCHANGED <<log, draft>>,
         acked' \in [Mutations -> Nat], TruthfulAcks',
         req.phase # "idle" => Len(req.batch) > 0,
         \A k \in DOMAIN req.batch : draft[req.batch[k]] # None,
         req.phase \in {"find", "read", "append", "recheck"}
           => Len(req.results) < Len(req.batch),
         req.phase = "done" => Len(req.results) = Len(req.batch),
         Len(req.results) <= Len(req.batch),
         \A k \in DOMAIN req.results : TrueIn(log, draft, req.batch[k], req.results[k])
  PROVE  IInv'
<1>1. worker \in [Workers -> Request]
  BY DEF IInv, TypeOK
<1>2. worker' \in [Workers -> Request] /\ worker'[w] = req
  BY <1>1
<1>3. \A v \in Workers \ {w} : worker'[v] = worker[v]
  BY <1>1
<1>4. TypeOK'
  BY <1>2 DEF IInv, TypeOK
<1>5. RequestOK'
  BY <1>2, <1>3 DEF IInv, RequestOK
<1>6. AnswersTrueIn(log', draft', worker')
  <2> SUFFICES ASSUME NEW v \in Workers, NEW k \in DOMAIN worker'[v].results
               PROVE  TrueIn(log', draft', worker'[v].batch[k], worker'[v].results[k])
    BY DEF AnswersTrueIn
  <2>1. CASE v = w
    BY <1>2, <2>1
  <2>2. CASE v # w
    BY <1>3, <2>2, TruthfulResultsDef DEF IInv, AnswersTrueIn
  <2> QED
    BY <2>1, <2>2
<1> QED
  BY <1>4, <1>5, <1>6, LogUnchanged, TruthfulResultsDef DEF IInv

(* The same when the worker keeps its batch and its answers.               *)
LEMMA PhaseStep ==
  ASSUME IInv, NEW w \in Workers, UNCHANGED logVars,
         worker[w].phase \in {"find", "read", "append", "recheck"},
         NEW phase \in {"read", "append", "recheck", "failed"},
         NEW attempt \in Nat, NEW current \in Nat,
         Goto(w, phase, attempt, current)
  PROVE  IInv'
<1> DEFINE req == [phase |-> phase, batch |-> worker[w].batch,
                   results |-> worker[w].results,
                   attempt |-> attempt, current |-> current]
<1>1. worker[w] \in Request
  BY DEF IInv, TypeOK
<1>2. req \in Request
  BY <1>1 DEF Request, Phases
<1>3. /\ log' = log /\ draft' = draft /\ acked' = acked
      /\ acked' \in [Mutations -> Nat] /\ TruthfulAcks'
  BY DEF logVars, IInv, TypeOK, TruthfulAcks
<1>4. /\ Len(req.results) < Len(req.batch)
      /\ Len(req.batch) > 0
      /\ \A k \in DOMAIN req.batch : draft[req.batch[k]] # None
  BY DEF IInv, RequestOK
<1>5. Len(req.results) <= Len(req.batch)
  BY <1>1, <1>4 DEF Request
<1>6. \A k \in DOMAIN req.results : TrueIn(log, draft, req.batch[k], req.results[k])
  BY TruthfulResultsDef DEF IInv, AnswersTrueIn
<1>7. req.phase = phase /\ phase # "done" /\ worker' = [worker EXCEPT ![w] = req]
  BY DEF Goto
<1> HIDE DEF req
<1> QED
  BY <1>2, <1>3, <1>4, <1>5, <1>6, <1>7, WorkerStep DEF req

(* Back to idle: by a response, an error response, or a crash.             *)
LEMMA IdleStep ==
  ASSUME IInv, NEW w \in Workers, UNCHANGED <<log, draft>>,
         worker' = [worker EXCEPT ![w] = Idle],
         acked' \in [Mutations -> Nat], TruthfulAcks'
  PROVE  IInv'
<1>1. /\ Idle \in Request
      /\ Idle.phase = "idle" /\ Idle.batch = <<>> /\ Idle.results = <<>>
  BY DEF Idle, Request, Phases, NoRevision
<1>2. /\ Len(Idle.results) <= Len(Idle.batch)
      /\ \A k \in DOMAIN Idle.batch : draft[Idle.batch[k]] # None
      /\ \A k \in DOMAIN Idle.results :
            TrueIn(log, draft, Idle.batch[k], Idle.results[k])
  BY <1>1
<1>3. /\ Idle.phase \notin {"find", "read", "append", "recheck"}
      /\ Idle.phase # "done"
  BY <1>1
<1> QED
  BY <1>1, <1>2, <1>3, WorkerStep

(* A request arrives. *)
LEMMA ReceiveStep ==
  ASSUME IInv, NEW w \in Workers, Receive(w)
  PROVE  IInv'
<1> DEFINE req(batch) == [phase |-> "find", batch |-> batch, results |-> <<>>,
                          attempt |-> 0, current |-> NoRevision]
<1>1. PICK batch \in Batches : worker' = [worker EXCEPT ![w] = req(batch)]
  BY DEF Receive
<1>2. /\ batch \in Seq(Mutations)
      /\ Len(batch) > 0
      /\ \A k \in DOMAIN batch : draft[batch[k]] # None
  BY BatchIsSeq
<1>3. /\ req(batch) \in Request
      /\ req(batch).phase = "find"
      /\ req(batch).batch = batch
      /\ req(batch).results = <<>>
  BY <1>2 DEF Request, Phases, NoRevision
<1>4. /\ UNCHANGED <<log, draft>>
      /\ acked' \in [Mutations -> Nat] /\ TruthfulAcks'
  BY DEF Receive, logVars, IInv, TypeOK, TruthfulAcks
<1>5. /\ Len(req(batch).results) < Len(req(batch).batch)
      /\ Len(req(batch).results) <= Len(req(batch).batch)
      /\ \A k \in DOMAIN req(batch).results :
            TrueIn(log, draft, req(batch).batch[k], req(batch).results[k])
  BY <1>2, <1>3
<1> HIDE DEF req
<1> QED
  BY <1>1, <1>2, <1>3, <1>4, <1>5, WorkerStep

(* findMutation before the loop. *)
LEMMA FindStep ==
  ASSUME IInv, NEW w \in Workers, Find(w)
  PROVE  IInv'
<1>1. worker[w].phase = "find" /\ UNCHANGED logVars
  BY DEF Find
<1>2. CASE Replay(w)
  BY <1>1, <1>2, ReplayStep
<1>3. CASE Goto(w, "read", 0, NoRevision)
  BY <1>1, <1>3, PhaseStep DEF NoRevision
<1> QED
  BY <1>2, <1>3 DEF Find

(* getCurrent. *)
LEMMA ReadCurrentStep ==
  ASSUME IInv, NEW w \in Workers, ReadCurrent(w)
  PROVE  IInv'
<1>1. worker[w].phase = "read" /\ UNCHANGED logVars
  BY DEF ReadCurrent
<1>2. PICK i \in {NoRevision} \cup DOMAIN log : Goto(w, "append", worker[w].attempt, i)
  BY DEF ReadCurrent
<1>3. i \in Nat /\ worker[w].attempt \in Nat
  BY DEF IInv, TypeOK, NoRevision, Request
<1> QED
  BY <1>1, <1>2, <1>3, PhaseStep

(* The INSERT that returned no row. *)
LEMMA AppendNothingStep ==
  ASSUME IInv, NEW w \in Workers, AppendNothing(w)
  PROVE  IInv'
<1>1. worker[w].phase = "append" /\ UNCHANGED logVars
  BY DEF AppendNothing
<1>2. Goto(w, "recheck", worker[w].attempt, NoRevision)
  BY DEF AppendNothing
<1>3. worker[w].attempt \in Nat /\ NoRevision \in Nat
  BY DEF IInv, TypeOK, NoRevision, Request
<1> QED
  BY <1>1, <1>2, <1>3, PhaseStep

(* findMutation after a lost race. *)
LEMMA RecheckStep ==
  ASSUME IInv, NEW w \in Workers, Recheck(w)
  PROVE  IInv'
<1>1. worker[w].phase = "recheck" /\ UNCHANGED logVars
  BY DEF Recheck
<1>2. CASE Replay(w)
  BY <1>1, <1>2, ReplayStep
<1>3. CASE ~Replay(w)
  <2> DEFINE phase == IF worker[w].attempt + 1 < MaxAttempts THEN "read" ELSE "failed"
  <2>1. Goto(w, phase, worker[w].attempt + 1, NoRevision)
    BY <1>3 DEF Recheck
  <2>2. worker[w].attempt + 1 \in Nat /\ NoRevision \in Nat
    BY DEF IInv, TypeOK, NoRevision, Request
  <2>3. phase \in {"read", "append", "recheck", "failed"}
    OBVIOUS
  <2> HIDE DEF phase
  <2> QED
    BY <1>1, <2>1, <2>2, <2>3, PhaseStep
<1> QED
  BY <1>2, <1>3

(* A response names, for each mutation of its batch, a version it became.  *)
LEMMA RespondStep ==
  ASSUME IInv, NEW w \in Workers, Respond(w)
  PROVE  IInv'
<1> DEFINE batch == worker[w].batch
           results == worker[w].results
<1>1. /\ worker[w] \in Request
      /\ Len(results) = Len(batch)
      /\ UNCHANGED <<log, draft>>
      /\ worker' = [worker EXCEPT ![w] = Idle]
  BY DEF Respond, IInv, TypeOK, RequestOK
<1>2. DOMAIN results = DOMAIN batch /\ results \in Seq(Result)
  BY <1>1 DEF Request
<1>3. ASSUME NEW m \in Mutations
      PROVE  /\ acked'[m] \in Nat
             /\ acked'[m] # NoRevision
                  => acked'[m] \in DOMAIN log /\ log[acked'[m]].mutation = m
  <2>1. CASE \E k \in DOMAIN batch : batch[k] = m
    <3> DEFINE k == CHOOSE j \in DOMAIN batch : batch[j] = m
    <3>1. k \in DOMAIN batch /\ batch[k] = m
      BY <2>1
    <3>2. acked'[m] = results[k].revision
      BY <2>1 DEF Respond
    <3> HIDE DEF k
    <3>3. results[k] \in Result
      BY <1>2, <3>1
    <3>4. TrueIn(log, draft, batch[k], results[k])
      BY <1>2, <3>1, TruthfulResultsDef DEF IInv, AnswersTrueIn
    <3> QED
      BY <3>1, <3>2, <3>3, <3>4 DEF TrueIn, Result
  <2>2. CASE ~ \E k \in DOMAIN batch : batch[k] = m
    <3>1. acked'[m] = acked[m]
      BY <2>2 DEF Respond
    <3> QED
      BY <3>1 DEF IInv, TypeOK, TruthfulAcks
  <2> QED
    BY <2>1, <2>2
<1>4. acked' \in [Mutations -> Nat]
  BY <1>3 DEF Respond
<1>5. TruthfulAcks'
  BY <1>1, <1>3 DEF TruthfulAcks
<1> QED
  BY <1>1, <1>4, <1>5, IdleStep

(* A device composes a mutation. *)
LEMMA ComposeStep ==
  ASSUME IInv, NEW m \in Mutations, Compose(m)
  PROVE  IInv'
<1>1. PICK record \in Records, payload \in Payload \cup {None},
           base \in {NoRevision} \cup DOMAIN log :
        draft' = [draft EXCEPT ![m] =
                    [record |-> record, base |-> base, payload |-> payload]]
  BY DEF Compose, LogCompose
<1> DEFINE d == [record |-> record, base |-> base, payload |-> payload]
<1>2. draft[m] = None /\ log' = log /\ acked' = acked /\ worker' = worker
  BY DEF Compose, LogCompose
<1>3. base \in Nat
  BY DEF IInv, TypeOK, NoRevision
<1>4. d \in Draft
  BY <1>3 DEF Draft
<1>5. /\ draft' \in [Mutations -> Draft \cup {None}]
      /\ draft'[m] = d
      /\ \A n \in Mutations : n # m => draft'[n] = draft[n]
  BY <1>1, <1>4 DEF IInv, TypeOK
<1>6. \A n \in Mutations : draft[n] # None => n # m /\ draft'[n] = draft[n]
  BY <1>2, <1>5
<1>7. \A w \in Workers : /\ worker[w].batch \in Seq(Mutations)
                         /\ worker[w].results \in Seq(Result)
                         /\ Len(worker[w].results) <= Len(worker[w].batch)
  BY DEF IInv, TypeOK, Request, RequestOK
<1>8. TypeOK' /\ ExactlyOnce' /\ LinearHistory' /\ TruthfulAcks'
  BY <1>2, <1>5 DEF IInv, TypeOK, ExactlyOnce, LinearHistory, IsLastBefore, VersionOf,
                    TruthfulAcks
<1>9. RequestOK'
  <2>1. \A w \in Workers : \A k \in DOMAIN worker[w].batch :
           worker[w].batch[k] \in Mutations /\ draft[worker[w].batch[k]] # None
    BY <1>7 DEF IInv, RequestOK
  <2>2. \A w \in Workers : \A k \in DOMAIN worker[w].batch :
           draft'[worker[w].batch[k]] # None
    BY <1>6, <2>1
  <2> QED
    BY <1>2, <2>2 DEF IInv, RequestOK
<1>10. DraftOK'
  BY <1>2, <1>5 DEF IInv, DraftOK
<1>11. StoredAsResolved'
  <2> SUFFICES ASSUME NEW i \in DOMAIN log
               PROVE  /\ draft'[log[i].mutation] # None
                      /\ log[i].record  = draft'[log[i].mutation].record
                      /\ log[i].owner   = MutationOwner[log[i].mutation]
                      /\ log[i].payload = Resolve(draft'[log[i].mutation], log[i].base)
    BY <1>2 DEF StoredAsResolved, Resolve, PayloadAt
  <2>1. log[i] \in Version /\ log[i].mutation \in Mutations
    <3>1. log[i] \in Version
      BY DEF IInv, TypeOK
    <3> QED
      BY <3>1 DEF Version
  <2>2. draft'[log[i].mutation] = draft[log[i].mutation]
    BY <1>6, <2>1 DEF IInv, StoredAsResolved
  <2> QED
    BY <2>2 DEF IInv, StoredAsResolved
<1>12. AnswersTrueIn(log', draft', worker')
  <2> SUFFICES ASSUME NEW w \in Workers, NEW k \in DOMAIN worker[w].results
               PROVE  TrueIn(log, draft', worker[w].batch[k], worker[w].results[k])
    BY <1>2 DEF AnswersTrueIn
  <2>1. k \in DOMAIN worker[w].batch
    BY <1>7
  <2>2. worker[w].batch[k] \in Mutations /\ draft[worker[w].batch[k]] # None
    BY <1>7, <2>1 DEF IInv, RequestOK
  <2>3. draft'[worker[w].batch[k]] = draft[worker[w].batch[k]]
    BY <1>6, <2>2
  <2>4. TrueIn(log, draft, worker[w].batch[k], worker[w].results[k])
    BY TruthfulResultsDef DEF IInv, AnswersTrueIn
  <2> QED
    BY <2>3, <2>4 DEF TrueIn
<1> QED
  BY <1>8, <1>9, <1>10, <1>11, <1>12, TruthfulResultsDef DEF IInv

(* The conditional INSERT is where the log grows: the version read earlier *)
(* is still current and the mutation has no version yet.                   *)
LEMMA AppendVersionStep ==
  ASSUME IInv, NEW w \in Workers, AppendVersion(w)
  PROVE  IInv'
<1> DEFINE e      == Inserted(w)
           n      == Len(log) + 1
           status == IF worker[w].current = Input(w).base THEN "applied" ELSE "merged"
           res    == [status |-> status, revision |-> n]
<1>1. /\ worker[w].phase = "append"
      /\ IsCurrent(MutationOwner[At(w)], Input(w).record, worker[w].current)
      /\ ~Accepted(At(w))
      /\ log' = Append(log, e)
      /\ PushResult(w, status, n)
      /\ draft' = draft /\ acked' = acked
  BY DEF AppendVersion, InsertApplies
<1>2. /\ At(w) \in Mutations
      /\ Input(w) \in Draft
      /\ Input(w).base \in {NoRevision} \cup DOMAIN log
      /\ Input(w) = draft[At(w)]
      /\ Input(w) # None
  <2>1. Len(worker[w].results) + 1 \in DOMAIN worker[w].batch
    BY <1>1, AtMutation
  <2>2. Input(w) # None
    BY <2>1 DEF IInv, RequestOK, At, Input
  <2> QED
    BY <1>1, <2>2, AtMutation DEF Input
<1>3. worker[w].current \in {NoRevision} \cup DOMAIN log
  BY <1>1 DEF IsCurrent, IsLastBefore
<1>4. log \in Seq(Version) /\ worker[w].current \in Nat
  BY <1>3 DEF IInv, TypeOK, NoRevision
<1>5. e \in Version
  <2>1. Resolve(Input(w), worker[w].current) \in Payload \cup {None}
    BY <1>2, <1>3, <1>4, ResolveType
  <2>2. MutationOwner[At(w)] \in Owners
    BY <1>2, OwnerAssumption
  <2> QED
    BY <1>2, <1>4, <2>1, <2>2 DEF Inserted, Version, Draft
<1>6. /\ e.owner = MutationOwner[At(w)] /\ e.record = Input(w).record
      /\ e.mutation = At(w) /\ e.base = worker[w].current
      /\ e.payload = Resolve(Input(w), worker[w].current)
  BY DEF Inserted
<1> HIDE DEF e
<1>7. /\ log' \in Seq(Version)
      /\ Len(log) \in Nat
      /\ DOMAIN log = 1..Len(log)
      /\ DOMAIN log' = DOMAIN log \cup {n}
      /\ \A i \in DOMAIN log : log'[i] = log[i]
      /\ log'[n] = e
      /\ n \notin DOMAIN log
  BY <1>1, <1>4, <1>5, AppendExtends
<1>8. res \in Result
  BY <1>7 DEF Result
<1>9. /\ worker' \in [Workers -> Request]
      /\ worker'[w].batch = worker[w].batch
      /\ \A v \in Workers \ {w} : worker'[v] = worker[v]
      /\ \A v \in Workers :
              /\ worker'[v].phase # "idle" => Len(worker'[v].batch) > 0
              /\ worker'[v].phase \in {"find", "read", "append", "recheck"}
                   => Len(worker'[v].results) < Len(worker'[v].batch)
              /\ worker'[v].phase = "done"
                   => Len(worker'[v].results) = Len(worker'[v].batch)
              /\ Len(worker'[v].results) <= Len(worker'[v].batch)
  BY <1>1, <1>8, PushResultOK
<1>10. TypeOK'
  BY <1>1, <1>7, <1>9 DEF IInv, TypeOK
<1>11. RequestOK'
  BY <1>1, <1>9 DEF IInv, RequestOK
<1>12. DraftOK'
  BY <1>1, <1>7 DEF IInv, DraftOK
<1>13. ExactlyOnce'
  BY <1>1, <1>6, <1>7 DEF IInv, ExactlyOnce, Accepted
<1>14. LinearHistory'
  <2>1. ASSUME NEW i \in DOMAIN log
        PROVE  LastBeforeIn(log', log'[i].owner, log'[i].record, log'[i].base, i)
    <3>1. LastBeforeIn(log, log[i].owner, log[i].record, log[i].base, i)
      BY LinearHistoryDef DEF IInv
    <3>2. \A j \in DOMAIN log' : j < i => j \in DOMAIN log
      BY <1>7
    <3> QED
      BY <1>7, <3>1, <3>2 DEF LastBeforeIn
  <2>2. LastBeforeIn(log', e.owner, e.record, e.base, n)
    BY <1>1, <1>6, <1>7 DEF IsCurrent, IsLastBefore, VersionOf, LastBeforeIn
  <2>3. \A i \in DOMAIN log' :
           LastBeforeIn(log', log'[i].owner, log'[i].record, log'[i].base, i)
    BY <1>7, <2>1, <2>2
  <2> QED
    BY <2>3, LinearHistoryDef
<1>15. ASSUME NEW d \in Draft, d.base \in {NoRevision} \cup DOMAIN log,
              NEW k \in {NoRevision} \cup DOMAIN log
       PROVE  ResolveIn(log', d, k) = ResolveIn(log, d, k)
  <2>1. \A h \in {NoRevision} \cup DOMAIN log : PayloadIn(log', h) = PayloadIn(log, h)
    BY <1>7 DEF PayloadIn
  <2> QED
    BY <1>15, <2>1 DEF ResolveIn
<1>16. StoredAsResolved'
  <2>1. ASSUME NEW i \in DOMAIN log
        PROVE  MergedIn(log', draft', i)
    <3>1. log[i] \in Version /\ log[i].mutation \in Mutations
      <4>1. log[i] \in Version
        BY <1>4
      <4> QED
        BY <4>1 DEF Version
    <3>2. MergedIn(log, draft, i)
      BY MergedDef DEF IInv
    <3>3. draft[log[i].mutation] \in Draft
      BY <3>1, <3>2 DEF IInv, TypeOK, MergedIn
    <3>4. draft[log[i].mutation].base \in {NoRevision} \cup DOMAIN log
      BY <3>1, <3>2 DEF IInv, DraftOK, MergedIn
    <3>5. log[i].base \in {NoRevision} \cup DOMAIN log
      BY DEF IInv, LinearHistory, IsLastBefore
    <3>6. ResolveIn(log', draft[log[i].mutation], log[i].base)
            = ResolveIn(log, draft[log[i].mutation], log[i].base)
      BY <1>15, <3>3, <3>4, <3>5
    <3> QED
      BY <1>1, <1>7, <3>2, <3>6 DEF MergedIn
  <2>2. MergedIn(log', draft', n)
    <3>1. e.payload = ResolveIn(log', Input(w), worker[w].current)
      BY <1>2, <1>3, <1>6, <1>15 DEF Resolve, ResolveIn, PayloadAt, PayloadIn
    <3> QED
      BY <1>1, <1>2, <1>6, <1>7, <3>1 DEF MergedIn
  <2>3. \A i \in DOMAIN log' : MergedIn(log', draft', i)
    BY <1>7, <2>1, <2>2
  <2> QED
    BY <2>3, MergedDef
<1>17. \A m \in Mutations, result \in Result :
         TrueIn(log, draft, m, result) => TrueIn(log', draft', m, result)
  BY <1>1, <1>7 DEF TrueIn
<1>18. TrueIn(log', draft', At(w), res)
  BY <1>1, <1>2, <1>6, <1>7 DEF TrueIn
<1>19. TruthfulResults'
  BY <1>1, <1>8, <1>17, <1>18, PushResultTrue
<1>20. TruthfulAcks'
  BY <1>1, <1>7 DEF IInv, TruthfulAcks
<1> QED
  BY <1>10, <1>11, <1>12, <1>13, <1>14, <1>16, <1>19, <1>20 DEF IInv

(* Every step of a request keeps the inductive invariant. *)
LEMMA ServeStep ==
  ASSUME IInv, NEW w \in Workers, Serve(w)
  PROVE  IInv'
<1>1. CASE Reject(w)
  <2>1. acked' \in [Mutations -> Nat] /\ TruthfulAcks'
    BY <1>1 DEF Reject, logVars, IInv, TypeOK, TruthfulAcks
  <2> QED
    BY <1>1, <2>1, IdleStep DEF Reject, logVars
<1> QED
  BY <1>1, FindStep, ReadCurrentStep, AppendVersionStep, AppendNothingStep, RecheckStep,
     RespondStep DEF Serve

(* Every step keeps the inductive invariant. *)
LEMMA NextIInv == IInv /\ [Next]_vars => IInv'
<1> SUFFICES ASSUME IInv, [Next]_vars PROVE IInv'
  OBVIOUS
<1>1. ASSUME NEW m \in Mutations, Compose(m) PROVE IInv'
  BY <1>1, ComposeStep
<1>2. ASSUME NEW w \in Workers, Receive(w) PROVE IInv'
  BY <1>2, ReceiveStep
<1>3. ASSUME NEW w \in Workers, Serve(w) PROVE IInv'
  BY <1>3, ServeStep
<1>4. ASSUME NEW w \in Workers, Crash(w) PROVE IInv'
  <2>1. acked' \in [Mutations -> Nat] /\ TruthfulAcks'
    BY <1>4 DEF Crash, logVars, IInv, TypeOK, TruthfulAcks
  <2> QED
    BY <1>4, <2>1, IdleStep DEF Crash, logVars
<1>5. CASE UNCHANGED vars
  <2>1. UNCHANGED <<log, draft, acked, worker>>
    BY <1>5 DEF vars, logVars
  <2>2. TypeOK' /\ RequestOK' /\ TruthfulAcks'
    BY <2>1 DEF IInv, TypeOK, RequestOK, TruthfulAcks
  <2>3. TruthfulResults'
    BY <2>1, TruthfulResultsDef DEF IInv, AnswersTrueIn, TrueIn
  <2> QED
    BY <2>1, <2>2, <2>3, LogUnchanged DEF IInv
<1> QED
  BY <1>1, <1>2, <1>3, <1>4, <1>5 DEF Next

(***************************************************************************)
(* The inductive invariant holds in every reachable state.                 *)
(***************************************************************************)
THEOREM Invariance == Spec => []IInv
BY InitIInv, NextIInv, PTL DEF Spec

(* The server's state is always well formed. *)
THEOREM TypeCorrect == Spec => []TypeOK
<1>1. IInv => TypeOK
  BY DEF IInv
<1> QED
  BY <1>1, Invariance, PTL

(***************************************************************************)
(* A mutation identity never becomes two versions, for any number of       *)
(* concurrent, repeated, crashed and retried requests.                     *)
(***************************************************************************)
THEOREM ExactlyOnceHolds == Spec => []ExactlyOnce
<1>1. IInv => ExactlyOnce
  BY DEF IInv
<1> QED
  BY <1>1, Invariance, PTL

(* A version has one predecessor. *)
LEMMA OnePredecessor ==
  ASSUME IInv, NEW owner, NEW record, NEW n \in DOMAIN log, NEW i, NEW j,
         IsLastBefore(owner, record, i, n), IsLastBefore(owner, record, j, n)
  PROVE  i = j
<1>1. log \in Seq(Version)
  BY DEF IInv, TypeOK
<1>2. DOMAIN log \subseteq Nat /\ n \in Nat
  BY <1>1
<1>3. CASE i = NoRevision \/ j = NoRevision
  BY <1>2, <1>3 DEF IsLastBefore, NoRevision
<1>4. CASE i # NoRevision /\ j # NoRevision
  <2>1. /\ i \in DOMAIN log /\ i < n /\ VersionOf(owner, record, i)
        /\ j \in DOMAIN log /\ j < n /\ VersionOf(owner, record, j)
        /\ ~(i < j) /\ ~(j < i)
    BY <1>4 DEF IsLastBefore
  <2> QED
    BY <1>2, <2>1
<1> QED
  BY <1>3, <1>4

(***************************************************************************)
(* The versions of every record form one chain, and each carries the merge *)
(* of its device's content with the version that precedes it in the log,   *)
(* although its request merged with one it had read statements before.     *)
(***************************************************************************)
THEOREM NoLostUpdate == Spec => [](LinearHistory /\ MergedOntoPredecessor)
<1>1. IInv => LinearHistory /\ MergedOntoPredecessor
  <2> SUFFICES ASSUME IInv PROVE MergedOntoPredecessor
    BY DEF IInv
  <2> SUFFICES ASSUME NEW i \in DOMAIN log, NEW j \in {NoRevision} \cup DOMAIN log,
                      IsLastBefore(log[i].owner, log[i].record, j, i)
               PROVE  log[i].payload = Resolve(draft[log[i].mutation], j)
    BY DEF MergedOntoPredecessor
  <2>1. IsLastBefore(log[i].owner, log[i].record, log[i].base, i)
    BY DEF IInv, LinearHistory
  <2>2. log[i].base = j
    BY <2>1, OnePredecessor
  <2> QED
    BY <2>2 DEF IInv, StoredAsResolved
<1> QED
  BY <1>1, Invariance, PTL

(***************************************************************************)
(* Everything a device is told (results and acknowledgements) is so.       *)
(***************************************************************************)
THEOREM AnswersHold == Spec => [](TruthfulResults /\ TruthfulAcks)
<1>1. IInv => TruthfulResults /\ TruthfulAcks
  BY DEF IInv
<1> QED
  BY <1>1, Invariance, PTL

-----------------------------------------------------------------------------
(* The conditional INSERT is the abstract server's accepting step.         *)
LEMMA AppendAccepts ==
  ASSUME IInv, NEW w \in Workers, AppendVersion(w)
  PROVE  LogAccept(At(w))
<1>1. /\ worker[w].phase = "append"
      /\ IsCurrent(MutationOwner[At(w)], Input(w).record, worker[w].current)
      /\ ~Accepted(At(w))
      /\ log' = Append(log, Inserted(w))
      /\ UNCHANGED <<draft, acked>>
  BY DEF AppendVersion, InsertApplies
<1>2. Input(w) = draft[At(w)] /\ Input(w) # None
  <2>1. Len(worker[w].results) + 1 \in DOMAIN worker[w].batch
    BY <1>1, AtMutation
  <2> QED
    BY <2>1 DEF IInv, RequestOK, At, Input
<1>3. worker[w].current \in {NoRevision} \cup DOMAIN log
  BY <1>1 DEF IsCurrent, IsLastBefore
<1> QED
  BY <1>1, <1>2, <1>3 DEF LogAccept, Inserted

(* A response is the abstract server's acknowledging step.                 *)
LEMMA RespondAcknowledges ==
  ASSUME IInv, NEW w \in Workers, Respond(w)
  PROVE  LogAcknowledge
<1>1. IInv'
  BY RespondStep
<1>2. UNCHANGED <<log, draft>>
  BY DEF Respond
<1>3. ASSUME NEW m \in Mutations
      PROVE  /\ acked'[m] \in {NoRevision} \cup DOMAIN log
             /\ acked'[m] # NoRevision => log[acked'[m]].mutation = m
  BY <1>1, <1>2 DEF IInv, TruthfulAcks
<1>4. acked' \in [Mutations -> {NoRevision} \cup DOMAIN log]
  BY <1>1, <1>3 DEF IInv, TypeOK
<1>5. ASSUME NEW m \in Mutations, acked'[m] # acked[m]
      PROVE  acked'[m] # NoRevision
  <2> DEFINE batch == worker[w].batch
             results == worker[w].results
  <2>1. /\ worker[w] \in Request
        /\ Len(results) = Len(batch)
    BY DEF Respond, IInv, TypeOK, RequestOK
  <2>2. DOMAIN results = DOMAIN batch /\ results \in Seq(Result)
    BY <2>1 DEF Request
  <2>3. \E k \in DOMAIN batch : batch[k] = m
    BY <1>5 DEF Respond
  <2> DEFINE k == CHOOSE j \in DOMAIN batch : batch[j] = m
  <2>4. k \in DOMAIN batch
    BY <2>3
  <2>5. acked'[m] = results[k].revision
    BY <2>3 DEF Respond
  <2> HIDE DEF k
  <2>6. TrueIn(log, draft, batch[k], results[k])
    BY <2>2, <2>4, TruthfulResultsDef DEF IInv, AnswersTrueIn
  <2>7. 0 \notin DOMAIN log
    BY DEF IInv, TypeOK
  <2> QED
    BY <2>5, <2>6, <2>7 DEF TrueIn, NoRevision
<1> QED
  BY <1>2, <1>3, <1>4, <1>5 DEF LogAcknowledge

(***************************************************************************)
(* The server implements the abstract log: although every request is many  *)
(* statements that interleave with others, what devices can observe is     *)
(* that each mutation is merged and stored in one atomic step.             *)
(***************************************************************************)
THEOREM Refinement == Spec => LogSpec
<1>1. Init => LogInit
  BY DEF Init
<1>2. IInv /\ [Next]_vars => [LogNext]_logVars
  <2> SUFFICES ASSUME IInv, [Next]_vars PROVE [LogNext]_logVars
    OBVIOUS
  <2>1. ASSUME NEW m \in Mutations, Compose(m) PROVE LogNext
    BY <2>1 DEF Compose, LogNext
  <2>2. ASSUME NEW w \in Workers, Receive(w) PROVE UNCHANGED logVars
    BY <2>2 DEF Receive
  <2>3. ASSUME NEW w \in Workers, Crash(w) PROVE UNCHANGED logVars
    BY <2>3 DEF Crash
  <2>4. ASSUME NEW w \in Workers, AppendVersion(w) PROVE LogNext
    <3>1. At(w) \in Mutations
      BY <2>4, AtMutation DEF AppendVersion
    <3> QED
      BY <2>4, <3>1, AppendAccepts DEF LogNext
  <2>5. ASSUME NEW w \in Workers, Respond(w) PROVE LogNext
    BY <2>5, RespondAcknowledges DEF LogNext
  <2>6. ASSUME NEW w \in Workers,
               Find(w) \/ ReadCurrent(w) \/ AppendNothing(w) \/ Recheck(w) \/ Reject(w)
        PROVE  UNCHANGED logVars
    BY <2>6 DEF Find, ReadCurrent, AppendNothing, Recheck, Reject
  <2>7. CASE UNCHANGED vars
    BY <2>7 DEF vars
  <2> QED
    BY <2>1, <2>2, <2>3, <2>4, <2>5, <2>6, <2>7 DEF Next, Serve
<1> QED
  BY <1>1, <1>2, Invariance, PTL DEF Spec, LogSpec

=============================================================================
