----------------------------- MODULE MCLiveness -----------------------------
(***************************************************************************)
(* What must eventually happen, in the feed, on the devices, in the timers *)
(* of the Flutter controller and in the erasure of deleted accounts: each  *)
(* component from its own initial states and under its own fairness, a     *)
(* behaviour stays in the component it began with.  The devices have an    *)
(* instance of their own of what SyncFeed.tla extends.                     *)
(***************************************************************************)
EXTENDS SyncFeed, SyncController, TLC

CONSTANTS
  o1, o2, r1, m1, m2, fa, d1, d2,                         \* feed and devices
  s1, a1, a2, production, sandbox, q1, cron,              \* accounts
  NoAccount, NoSubject, NoDevice, NoEnvironment

(* The values that stand for nothing are not among the others. *)
ASSUME ModelAssumption ==
  /\ r1 \in Records
  /\ None \notin {m1, m2}
  /\ NoAccount \notin {a1, a2} /\ NoSubject # s1 /\ NoDevice # d1
  /\ NoEnvironment \notin {production, sandbox}

VARIABLES
  component,
  serverLog, drafts, acks, device, engine, sent, latest,  \* of the devices
  status, subject, cleanup, rows, billing, sessions, process, registrant, issued, erased

(* Two accounts in the feed's log. *)
TwoOwners == [m \in Mutations |-> IF m = m2 THEN o2 ELSE o1]

ReadersOfOne == [c \in Readers |-> o1]

(* Two devices of one account, with one edit each. *)
Client ==
  INSTANCE SyncClient WITH
    Owners <- {o1}, Records <- {r1}, Mutations <- {m1, m2},
    MutationOwner <- [m \in {m1, m2} |-> o1],
    Devices <- {d1, d2}, DeviceOwner <- [d \in {d1, d2} |-> o1],
    MutationDevice <- [m \in {m1, m2} |-> IF m = m1 THEN d1 ELSE d2],
    PageSize <- 1, BatchSize <- 1,
    log <- serverLog, draft <- drafts, acked <- acks

(* An identity with an account, and room for a replacement. *)
Life ==
  INSTANCE AccountLifecycle WITH
    Subjects <- {s1}, Devices <- {d1}, DeviceSubject <- [d \in {d1} |-> s1],
    Accounts <- {a1, a2}, LegacyAccount <- [s \in {s1} |-> a1],
    Environments <- {production, sandbox}, Requests <- {q1}, Crons <- {cron}

clientVars == <<serverLog, drafts, acks, device, engine, sent, latest>>
lifeVars ==
  <<status, subject, cleanup, rows, billing, sessions, process, registrant, issued, erased>>
allVars == <<component, vars, clientVars, controllerVars, lifeVars>>

LiveInit ==
  /\ component \in {"feed", "client", "controller", "accounts"}
  /\ Init /\ Client!Init /\ ControllerInit /\ Life!Init
  /\ component # "controller" => ~signedIn
  /\ status[a1] = "active" /\ (component # "accounts" => billing = {})

InFeed == component = "feed" /\ UNCHANGED <<component, clientVars, controllerVars, lifeVars>>
InClient == component = "client" /\ UNCHANGED <<component, vars, controllerVars, lifeVars>>
InController == component = "controller" /\ UNCHANGED <<component, vars, clientVars, lifeVars>>
InAccounts == component = "accounts" /\ UNCHANGED <<component, vars, clientVars, controllerVars>>

LiveNext ==
  \/ InFeed /\ Next
  \/ InClient /\ Client!Next
  \/ InController /\ ControllerNext
  \/ InAccounts /\ Life!Next

(* The fairness of each module, for its component. *)
LiveFairness ==
  /\ \A c \in Readers : WF_allVars(InFeed /\ Pull(c))
  /\ \A d \in {d1, d2} : WF_allVars(InClient /\ Client!Run(d))
  /\ \A m \in {m1, m2} : WF_allVars(InClient /\ Client!Accept(m))
  /\ WF_allVars(InController /\ TimerFires)
  /\ WF_allVars(InController /\ (RunEnds \/ RunErases \/ EraseFails \/ RunFails))
  /\ WF_allVars(InAccounts /\ Life!Cron(cron))
  /\ WF_allVars(InAccounts /\ Life!Cleanup(cron))
  /\ \A x \in {a1, a2} : WF_allVars(InAccounts /\ Life!Tick(x))

LiveSpec == LiveInit /\ [][LiveNext]_allVars /\ LiveFairness

-----------------------------------------------------------------------------
(* The state of every part is well typed. *)
LivenessTypeOK ==
  /\ component = "feed" => TypeOK
  /\ component = "client" => Client!TypeOK
  /\ ControllerTypeOK /\ Life!TypeOK

(* The steps that fail: those that are no step of the normal course too,   *)
(* as the end of a run is when its last page was empty.                    *)
Fails ==
  \/ \E d \in {d1, d2} : Client!Stop(d) /\ ~Client!Run(d)
  \/ (RunFails \/ EraseFails) /\ ~RunEnds
  \/ \E p \in {q1, cron} :
       /\ Life!Fail(p) \/ Life!Crash(p)
       /\ ~(Life!Open(p) \/ Life!Use(p) \/ Life!Cleanup(p))

(***************************************************************************)
(* Once steps stop failing, work settles: readers have the whole feed,     *)
(* devices and server agree, scheduled synchronizations are answered and   *)
(* deleted accounts are erased, again and again however often new work     *)
(* comes.                                                                  *)
(***************************************************************************)
Settled ==
  CASE component = "feed"       -> CaughtUp
    [] component = "client"     -> Client!Synchronized
    [] component = "controller" -> Answered
    [] component = "accounts"   -> Life!NothingToErase

WorkSettles == <>[][~Fails]_allVars => []<>Settled

=============================================================================
