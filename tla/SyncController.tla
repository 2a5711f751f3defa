--------------------------- MODULE SyncController ---------------------------
(***************************************************************************)
(* When a Flutter product synchronizes (packages/appbase_flutter/lib/src/  *)
(* sync_controller.dart): one timer that retries, signals and local writes *)
(* set again and that sign-out, deletion and invalidation cancel, above an *)
(* engine that runs once at a time (packages/appbase_client/lib/src/       *)
(* sync_engine.dart).                                                      *)
(*                                                                         *)
(* How long a delay is (backoff, jitter, Retry-After) is left out: a timer *)
(* that is set fires some time later.                                      *)
(***************************************************************************)
VARIABLES
  timer,        \* _timer is pending
  run,          \* _activeRun
  waiting,      \* who awaits it: "sync" (the timer's syncNow), "user", "leave"
  user,         \* the call of the user interface in progress, or "none"
  signedIn,     \* session.account() is not null
  invalidated,  \* _sessionInvalidated
  deletion,     \* _deletionStarted
  disposed,     \* _disposed
  asked         \* history: a synchronization was scheduled and is not answered

controllerVars ==
  <<timer, run, waiting, user, signedIn, invalidated, deletion, disposed, asked>>

ControllerInit ==
  /\ timer = FALSE /\ run = FALSE /\ waiting = {} /\ user = "none"
  /\ signedIn \in BOOLEAN
  /\ invalidated = FALSE /\ deletion = FALSE /\ disposed = FALSE /\ asked = FALSE

(* scheduleSync replaces the timer. *)
Schedules == timer' = ~disposed /\ asked' = (asked \/ ~disposed)

(* _timer?.cancel() of signOut and deleteAccount: what was scheduled is    *)
(* given up, also when the call fails later and leaves the session.        *)
Cancels == timer' = FALSE /\ asked' = ("sync" \in waiting)

(* A run that ended has answered whoever scheduled it. *)
Answers == asked' = (asked /\ "sync" \notin waiting)

(* Mutant of Joins: a call during a run returns at once. *)
JoinsNoRun(caller) == run' = TRUE /\ waiting' = IF run THEN waiting ELSE {caller}

(* engine.syncNow: a run that is active serves the caller as well. *)
Joins(caller) == run' = TRUE /\ waiting' = waiting \cup {caller}

(* Retry signals, restore of an account, and products on a local write.    *)
Signal ==
  /\ Schedules
  /\ UNCHANGED <<run, waiting, user, signedIn, invalidated, deletion, disposed>>

(* syncNow of the controller; once a deletion has begun the engine returns *)
(* at once. *)
TimerFires ==
  /\ timer /\ timer' = FALSE
  /\ asked' = ~deletion
  /\ IF deletion THEN UNCHANGED <<run, waiting>> ELSE Joins("sync")
  /\ UNCHANGED <<user, signedIn, invalidated, deletion, disposed>>

(* The calls of the user interface that awaited the run go on. *)
Resumes(failed) ==
  user' = CASE user = "signing in" /\ "user" \in waiting -> "none"
            [] user = "draining" /\ "user" \in waiting   -> "opening"
            [] user = "leaving" /\ "leave" \in waiting   -> IF failed THEN "none" ELSE "going"
            [] user = "deleting" /\ "leave" \in waiting  -> "erasing"
            [] OTHER                                     -> user

(* A run ends well, or by a failure that no retry mends; without an        *)
(* account it ends at once.                                                *)
RunEnds ==
  /\ run /\ run' = FALSE /\ waiting' = {}
  /\ \E failed \in {FALSE, signedIn} : Resumes(failed)
  /\ Answers
  /\ UNCHANGED <<timer, signedIn, invalidated, deletion, disposed>>

(* The identity announces that nobody is signed in any more. *)
SessionOver ==
  signedIn' = FALSE /\ invalidated' = TRUE /\ timer' = FALSE /\ asked' = FALSE

Retries == IF "sync" \in waiting /\ ~invalidated THEN Schedules ELSE Answers /\ UNCHANGED timer

(* The server has deleted the account: the engine suppresses further runs  *)
(* until the next sign-in, erases the account and signs out.               *)
RunErases ==
  /\ run /\ signedIn /\ run' = FALSE /\ waiting' = {}
  /\ deletion' = TRUE
  /\ Resumes(TRUE)
  /\ SessionOver
  /\ UNCHANGED disposed

(* The erasure failed; the retry it leads to will do nothing. *)
EraseFails ==
  /\ run /\ signedIn /\ run' = FALSE /\ waiting' = {}
  /\ deletion' = TRUE
  /\ Resumes(TRUE)
  /\ Retries
  /\ UNCHANGED <<signedIn, invalidated, disposed>>

(* A failure that may pass: the controller, if it awaited the run, retries *)
(* unless the session is over. *)
RunFails ==
  /\ run /\ signedIn /\ run' = FALSE /\ waiting' = {}
  /\ Resumes(TRUE)
  /\ Retries
  /\ UNCHANGED <<signedIn, invalidated, deletion, disposed>>

(* The identity's credentials were withdrawn. *)
Invalidated ==
  /\ signedIn /\ SessionOver
  /\ UNCHANGED <<run, waiting, user, deletion, disposed>>

(* signInAndSync: a run of the account before is awaited first. *)
SignInAndSync ==
  /\ user = "none" /\ ~disposed
  /\ IF invalidated /\ ~deletion THEN user' = "draining" /\ Joins("user")
                                 ELSE user' = "opening" /\ UNCHANGED <<run, waiting>>
  /\ UNCHANGED <<timer, signedIn, invalidated, deletion, disposed, asked>>

RegisterAccount ==
  /\ user = "none" /\ ~disposed /\ user' = "opening"
  /\ UNCHANGED <<timer, run, waiting, signedIn, invalidated, deletion, disposed, asked>>

(* engine.signIn lifts the fence of a deletion and opens the dialog. *)
OpenDialog ==
  /\ user = "opening" /\ user' = "dialog"
  /\ invalidated' = FALSE /\ deletion' = FALSE
  /\ UNCHANGED <<timer, run, waiting, signedIn, disposed, asked>>

(* The dialog is over; the controller does not retry the first run. *)
Entered ==
  /\ user = "dialog"
  /\ \/ user' = "none" /\ UNCHANGED <<signedIn, run, waiting>>
     \/ /\ signedIn' = TRUE
        /\ IF deletion THEN user' = "none" /\ UNCHANGED <<run, waiting>>
                       ELSE user' = "signing in" /\ Joins("user")
  /\ UNCHANGED <<timer, invalidated, deletion, disposed, asked>>

(* signOut and deleteAccount cancel the timer and await the active run.    *)
Leave(call, next) ==
  /\ user = "none" /\ signedIn /\ ~disposed
  /\ Cancels
  /\ IF run THEN user' = call /\ waiting' = waiting \cup {"leave"}
            ELSE user' = next /\ UNCHANGED waiting
  /\ deletion' = (deletion \/ call = "deleting")
  /\ UNCHANGED <<run, signedIn, invalidated, disposed>>

SignOut       == Leave("leaving", "going")
DeleteAccount == Leave("deleting", "erasing")

(* The rest of either call, which may fail and leave the session as it is; *)
(* the synchronization it cancelled is not scheduled again.                *)
Left ==
  /\ user \in {"going", "erasing"} /\ user' = "none"
  /\ SessionOver \/ (signedIn' \in {FALSE, signedIn} /\ UNCHANGED <<timer, invalidated, asked>>)
  /\ UNCHANGED <<run, waiting, deletion, disposed>>

Dispose ==
  /\ ~disposed /\ disposed' = TRUE
  /\ timer' = FALSE /\ asked' = FALSE
  /\ UNCHANGED <<run, waiting, user, signedIn, invalidated, deletion>>

UserCalls ==
  \/ SignInAndSync \/ RegisterAccount \/ OpenDialog \/ Entered
  \/ SignOut \/ DeleteAccount \/ Left

ControllerNext ==
  \/ Signal \/ TimerFires \/ RunEnds \/ RunErases \/ EraseFails \/ RunFails
  \/ Invalidated \/ UserCalls \/ Dispose

(* Timers fire; requests have a deadline, so that a run ends. *)
ControllerFairness ==
  /\ WF_controllerVars(TimerFires)
  /\ WF_controllerVars(RunEnds \/ RunErases \/ EraseFails \/ RunFails)

ControllerSpec == ControllerInit /\ [][ControllerNext]_controllerVars /\ ControllerFairness

-----------------------------------------------------------------------------
ControllerTypeOK ==
  /\ {timer, run, signedIn, invalidated, deletion, disposed, asked} \subseteq BOOLEAN
  /\ waiting \subseteq {"sync", "user", "leave"} /\ (waiting # {} => run)
  /\ user \in {"none", "draining", "opening", "dialog", "signing in", "leaving", "going",
               "deleting", "erasing"}

(***************************************************************************)
(* A synchronization that was scheduled and not given up is not forgotten: *)
(* its timer is pending, or it awaits the run in progress, although one    *)
(* timer serves all, a run began by another call answers it, and signals,  *)
(* sign-in, invalidation and dispose come in between.  It is given up when *)
(* the session ends or a sign-out or deletion begins (Cancels): if that    *)
(* fails, the session goes on without it until the next signal.            *)
(***************************************************************************)
ScheduledIsPending == asked => timer \/ "sync" \in waiting

(* What the timers come to, again and again, once runs stop failing: every *)
(* synchronization that was scheduled is answered by a run, unless it was  *)
(* given up: the session ended, or a sign-out or deletion began.  Timers   *)
(* replace each other and fire during runs that others began, and a        *)
(* failure such a timer shared is retried ("Transient transport and 5xx    *)
(* failures ... use bounded exponential backoff").                         *)
Answered == ~asked

=============================================================================
