---------------------------- MODULE LocalAccount ----------------------------
(***************************************************************************)
(* The accounts of one device: what its database keeps of each             *)
(* (packages/appbase_drift/lib/src/drift_persistence.dart) while the       *)
(* engine signs in, synchronizes, erases and signs out                     *)
(* (packages/appbase_client/lib/src/sync_engine.dart) and the product      *)
(* commits edits.                                                          *)
(*                                                                         *)
(* Transactions are actions, and an await between two of them lets the     *)
(* others in; a crash loses the memory and keeps the database.  Adapters   *)
(* clear the projection of an account they deactivate.  The calls of the   *)
(* user interface come one at a time.  Seeds are left out; what pages and  *)
(* edits say is in SyncClient.tla.                                         *)
(***************************************************************************)
EXTENDS Integers, FiniteSets

CONSTANTS
  Accounts,   \* as (issuer, storage key)
  Edits,
  MaxPages,   \* bound: pages the server has for an account
  MaxTurns,   \* bound: calls of the user interface and crashes
  NoAccount

ASSUME LocalAssumption == NoAccount \notin Accounts /\ MaxPages \in Nat

VARIABLES
  session,    \* AppBaseSession.account()
  active,     \* sync_state: the account with active = 1
  row,        \* sync_state: the last page the checkpoint covers, or NoRow
  projected,  \* the pages that are in the product's tables
  outbox,     \* the edits that wait, per account
  fenced,     \* _deletedAccounts
  suspended,  \* _deletionStarted
  run,        \* the task of _activeRun
  ui,         \* the task of the user interface
  edit,       \* per edit, what commit() has come to
  turns,
  erased,     \* history: accounts erased by this process and not activated since
  away        \* history: accounts whose projection a switch has cleared

database == <<active, row, projected, outbox>>
memory   == <<fenced, suspended, edit>>
history  == <<erased, away>>
localVars == <<session, database, memory, run, ui, turns, history>>

NoRow == -1

(* next: the checkpoint in the task's hands. *)
Task(phase, account, next) == [phase |-> phase, account |-> account, next |-> next]

Idle == Task("idle", NoAccount, NoRow)

LocalInit ==
  /\ session \in Accounts \cup {NoAccount} /\ active = NoAccount
  /\ row = [a \in Accounts |-> NoRow]
  /\ projected = [a \in Accounts |-> {}] /\ outbox = [a \in Accounts |-> {}]
  /\ fenced = {} /\ suspended = FALSE
  /\ run = Idle /\ ui = Idle /\ edit = [e \in Edits |-> Idle]
  /\ turns = 0 /\ erased = {} /\ away = {}

(***************************************************************************)
(* saveAccount, for a run or a call: what was active and the checkpoint    *)
(* are read and an old account is deactivated; the switch itself is        *)
(* another transaction.                                                    *)
(***************************************************************************)
Deactivates(task, task1) ==
  LET a == task.account
      switches == active \notin {a, NoAccount}
  IN  /\ task.phase = "save"
      /\ task1 = Task("activate", a, IF switches \/ row[a] = NoRow THEN 0 ELSE row[a])
      /\ projected' = IF switches THEN [projected EXCEPT ![active] = {}] ELSE projected
      /\ away' = IF switches THEN away \cup {active} ELSE away
      /\ UNCHANGED <<active, row, outbox, erased>>

Activates(task, task1, then) ==
  /\ task.phase = "activate"
  /\ task1 = IF then = "idle" THEN Idle ELSE [task EXCEPT !.phase = then]
  /\ active' = task.account /\ row' = [row EXCEPT ![task.account] = task.next]
  /\ erased' = erased \ {task.account}
  /\ UNCHANGED <<projected, outbox, away>>

(* deleteAccount of the persistence and the sign-out after it: the fence,  *)
(* the adapters, the rows in a transaction, the session.  Each part but    *)
(* the first may fail, which ends the task. *)
Fences(task, task1) ==
  /\ task.phase = "erase"
  /\ task1 = [task EXCEPT !.phase = "clear"]
  /\ fenced' = fenced \cup {task.account}
  /\ UNCHANGED <<database, session, history>>

ErasesProjection(task, task1) ==
  /\ task.phase = "clear"
  /\ task1 = [task EXCEPT !.phase = "purge"]
  /\ projected' = [projected EXCEPT ![task.account] = {}]
  /\ UNCHANGED <<active, row, outbox, fenced, session, history>>

ErasesRows(task, task1) ==
  /\ task.phase = "purge"
  /\ task1 = [task EXCEPT !.phase = "leave"]
  /\ outbox' = [outbox EXCEPT ![task.account] = {}]
  /\ row' = [row EXCEPT ![task.account] = NoRow]
  /\ active' = IF active = task.account THEN NoAccount ELSE active
  /\ erased' = erased \cup {task.account} /\ away' = away \ {task.account}
  /\ UNCHANGED <<projected, fenced, session>>

EndsSession(task, task1) ==
  /\ task.phase = "leave" /\ task1 = Idle
  /\ session' = NoAccount
  /\ UNCHANGED <<database, fenced, history>>

Erases(task, task1) ==
  \/ Fences(task, task1) \/ ErasesProjection(task, task1)
  \/ ErasesRows(task, task1) \/ EndsSession(task, task1)

(* syncNow *)
RunStarts ==
  /\ run = Idle /\ ~suspended /\ session # NoAccount
  /\ run' = Task("save", session, NoRow)
  /\ UNCHANGED <<session, database, memory, ui, turns, history>>

RunSaves ==
  /\ Deactivates(run, run') \/ Activates(run, run', "pull")
  /\ UNCHANGED <<session, memory, ui, turns>>

(* A page goes to the projection with the checkpoint, in one transaction;  *)
(* the next page is asked for with the checkpoint in hand.                 *)
RunPulls ==
  /\ run.phase = "pull" /\ run.next < MaxPages
  /\ run' = [run EXCEPT !.next = run.next + 1]
  /\ projected' = [projected EXCEPT ![run.account] = @ \cup {run.next + 1}]
  /\ row' = IF row[run.account] = NoRow THEN row
            ELSE [row EXCEPT ![run.account] = run.next + 1]
  /\ UNCHANGED <<session, active, outbox, memory, ui, turns, history>>

RunAcknowledges ==
  /\ run.phase = "pull"
  /\ \E pushed \in (SUBSET outbox[run.account]) \ {{}} :
       outbox' = [outbox EXCEPT ![run.account] = @ \ pushed]
  /\ UNCHANGED <<session, active, row, projected, memory, run, ui, turns, history>>

(* The end, a failure, an erasure that could not be finished. *)
RunStops ==
  /\ run # Idle /\ run' = Idle
  /\ UNCHANGED <<session, database, memory, ui, turns, history>>

(* The account is deleted, or its session has expired in the meantime. *)
RunRefused ==
  /\ run.phase = "pull"
  /\ run' = [run EXCEPT !.phase = "erase"] /\ suspended' = TRUE
  /\ UNCHANGED <<session, database, fenced, edit, ui, turns, history>>

RunErases ==
  /\ Erases(run, run')
  /\ UNCHANGED <<suspended, edit, ui, turns>>

Turn == turns < MaxTurns /\ turns' = turns + 1

(* restore *)
Restores ==
  /\ ui = Idle /\ Turn /\ session # NoAccount
  /\ ui' = Task("save", session, NoRow)
  /\ UNCHANGED <<session, database, memory, run, history>>

(* signIn and registerAccount *)
SignsIn ==
  /\ ui = Idle /\ Turn
  /\ suspended' = FALSE
  /\ ui' = Task("dialog", NoAccount, NoRow)
  /\ UNCHANGED <<session, database, fenced, edit, run, history>>

Enters(a) ==
  /\ ui.phase = "dialog"
  /\ session' = a /\ ui' = Task("save", a, NoRow)
  /\ UNCHANGED <<database, memory, run, turns, history>>

CallSaves ==
  /\ \/ Deactivates(ui, ui')
     \/ Activates(ui, ui', "idle")
  /\ UNCHANGED <<session, memory, run, turns>>

(* signOut and deleteAccount await the run. *)
Leaves ==
  /\ ui = Idle /\ Turn /\ session # NoAccount
  /\ \/ ui' = Task("await", NoAccount, NoRow) /\ UNCHANGED suspended
     \/ ui' = Task("awaiterase", NoAccount, NoRow) /\ suspended' = TRUE
  /\ UNCHANGED <<session, database, fenced, edit, run, history>>

RunOver ==
  /\ run = Idle /\ ui.phase \in {"await", "awaiterase"}
  /\ ui' = IF session = NoAccount THEN Idle
             ELSE Task(IF ui.phase = "await" THEN "leave" ELSE "erase", session, NoRow)
  /\ UNCHANGED <<session, database, memory, run, turns, history>>

CallErases ==
  /\ Erases(ui, ui')
  /\ UNCHANGED <<suspended, edit, run, turns>>

(* No dialog, no answer, an adapter that cannot erase. *)
CallFails ==
  /\ ui.phase \notin {"idle", "save", "activate"} /\ ui' = Idle
  /\ UNCHANGED <<session, database, memory, run, turns, history>>

(* commit reads the account before its transaction. *)
CommitReads(e) ==
  /\ edit[e] = Idle /\ session # NoAccount
  /\ edit' = [edit EXCEPT ![e] = Task("reading", session, NoRow)]
  /\ UNCHANGED <<session, database, fenced, suspended, run, ui, turns, history>>

Committed(e, refused) ==
  /\ edit[e].phase = "reading"
  /\ edit' = [edit EXCEPT ![e].phase = "done"]
  /\ outbox' = IF refused THEN outbox
               ELSE [outbox EXCEPT ![edit[e].account] = @ \cup {e}]
  /\ UNCHANGED <<session, active, row, projected, fenced, suspended, run, ui, turns, history>>

(* Mutant: the account is compared with the session of the present. *)
CommitComparing(e) == Committed(e, session \notin {edit[e].account, NoAccount})

(* The transaction throws for an account that was erased. *)
Commits(e) == Committed(e, edit[e].account \in fenced)

Crash ==
  /\ Turn
  /\ fenced' = {} /\ suspended' = FALSE /\ run' = Idle /\ ui' = Idle /\ erased' = {}
  /\ edit' = [e \in Edits |-> IF edit[e].phase = "reading" THEN Idle ELSE edit[e]]
  /\ UNCHANGED <<session, database, away>>

RunStep ==
  \/ RunStarts \/ RunSaves \/ RunPulls \/ RunAcknowledges
  \/ RunStops \/ RunRefused \/ RunErases

UiStep ==
  \/ Restores \/ SignsIn \/ (\E a \in Accounts : Enters(a)) \/ CallSaves
  \/ Leaves \/ RunOver \/ CallErases \/ CallFails

LocalNext ==
  \/ RunStep \/ UiStep \/ Crash
  \/ \E e \in Edits : CommitReads(e) \/ Commits(e)

LocalSpec == LocalInit /\ [][LocalNext]_localVars

(***************************************************************************)
(* Behaviours in which nothing comes between the two transactions of       *)
(* saveAccount, or between what the adapters and the rows lose in an       *)
(* erasure, and the user does not change accounts during a run.            *)
(***************************************************************************)
Undisturbed ==
  /\ run.phase = "activate" => RunSaves
  /\ ui.phase = "activate" => CallSaves
  /\ run.phase = "purge" => RunErases
  /\ ui.phase = "purge" => CallErases
  /\ ui.phase = "save" /\ ui'.phase = "activate" =>
       run = Idle \/ active \in {ui.account, NoAccount}

UndisturbedSpec == LocalInit /\ [][LocalNext /\ Undisturbed]_localVars

-----------------------------------------------------------------------------
LocalTypeOK ==
  /\ {session, active} \subseteq Accounts \cup {NoAccount}
  /\ row \in [Accounts -> NoRow..MaxPages]
  /\ projected \in [Accounts -> SUBSET (1..MaxPages)] /\ outbox \in [Accounts -> SUBSET Edits]
  /\ fenced \cup erased \cup away \subseteq Accounts /\ suspended \in BOOLEAN
  /\ run.account \in Accounts \cup {NoAccount} /\ run.next \in NoRow..MaxPages
  /\ ui.account \in Accounts \cup {NoAccount} /\ ui.next \in NoRow..MaxPages

(***************************************************************************)
(* An account that this process has erased stays erased, although a        *)
(* callback of the product may have read the session before: "A callback   *)
(* may have captured the old session before deletion/sign-out"             *)
(* (drift_persistence.dart line 284).                                      *)
(***************************************************************************)
ErasedStaysEmpty ==
  \A a \in erased : outbox[a] = {} /\ row[a] = NoRow

(***************************************************************************)
(* "Account switching calls every adapter's deactivate method before       *)
(* activating the new account. ... The next pull starts from an empty      *)
(* checkpoint." (docs/flutter-integration.md): when nothing is going on,   *)
(* an account that a switch cleared and that is in use again has every     *)
(* page that the server will not send again.                               *)
(***************************************************************************)
SwitchesStartEmpty ==
  (run = Idle /\ ui = Idle /\ session = active /\ active \in away) =>
    1..row[active] \subseteq projected[active]

=============================================================================
