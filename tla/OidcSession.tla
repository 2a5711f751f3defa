---------------------------- MODULE OidcSession ----------------------------
(***************************************************************************)
(* The identity session of a device: AppBaseOidcSession (packages/         *)
(* appbase_flutter/lib/src/oidc_session.dart) and the manager it makes     *)
(* anew when a deadline has retired the one before (oidc_manager.dart).    *)
(*                                                                         *)
(* Sign-ins, refreshes and sign-outs overlap.  A deadline gives up on an   *)
(* exchange without stopping it, so that its answer may still come.  The   *)
(* library underneath (package:oidc) is external: it stores or clears the  *)
(* credentials in one step, in the turn in which it is asked to.           *)
(***************************************************************************)
EXTENDS Integers

CONSTANTS
  Tasks,        \* calls in progress
  MaxManagers,  \* bound: managers made
  NoTask

ASSUME OidcAssumption == MaxManagers \in Nat /\ NoTask \notin Tasks

VARIABLES
  stored,    \* the store of the device has credentials
  user,      \* currentUser of the manager: its token's age, or "none"
  manager,   \* the manager's number
  live,      \* not isDisposed
  refresh,   \* _refresh of the manager
  task,
  closed,  \* _disposed of the session
  entered    \* history: of sign-in and sign-out, a sign-in succeeded last

oidcVars == <<stored, user, manager, live, refresh, task, closed, entered>>

(* awaits: the refresh that a sign-out waits for. *)
Step(phase, of, awaits) == [phase |-> phase, manager |-> of, awaits |-> awaits]

NoStep == Step("quiet", 0, NoTask)

Ages == {"fresh", "expiring", "expired"}

OidcInit ==
  /\ stored \in BOOLEAN /\ entered = stored
  /\ user = "none" /\ manager = 0 /\ live = FALSE /\ refresh = NoTask
  /\ task = [c \in Tasks |-> NoStep]
  /\ closed = FALSE

(* The call goes on; who waited for its exchange does so too. *)
Proceeds(c, next) ==
  task' = [d \in Tasks |->
             IF d = c THEN next
             ELSE IF task[d].awaits = c THEN [task[d] EXCEPT !.awaits = NoTask]
             ELSE task[d]]

(* A runtime for whoever calls: the manager loads what is stored. *)
Initializes ==
  /\ ~live /\ ~closed /\ manager < MaxManagers
  /\ manager' = manager + 1 /\ live' = TRUE /\ refresh' = NoTask
  /\ user' \in IF stored THEN Ages ELSE {"none"}
  /\ UNCHANGED <<stored, task, closed, entered>>

UserTokenAges ==
  /\ \/ user = "fresh" /\ user' = "expiring"
     \/ user = "expiring" /\ user' = "expired"
  /\ UNCHANGED <<stored, manager, live, refresh, task, closed, entered>>

SignIn(c) ==
  /\ task[c] = NoStep /\ live
  /\ Proceeds(c, Step("login", manager, NoTask))
  /\ UNCHANGED <<stored, user, manager, live, refresh, closed, entered>>

(* getAccessToken near the token's end, the timers at its end; another     *)
(* call for the token takes part in the exchange.                          *)
Refresh(c) ==
  /\ task[c] = NoStep /\ live
  /\ user \in {"expiring", "expired"} /\ refresh = NoTask
  /\ refresh' = c
  /\ Proceeds(c, Step("refresh", manager, NoTask))
  /\ UNCHANGED <<stored, user, manager, live, closed, entered>>

Ends(c) == Proceeds(c, NoStep) /\ refresh' = IF refresh = c THEN NoTask ELSE refresh

(* Mutant: a manager that is retired stores what comes late. *)
Always(m) == TRUE

(* saveUser throws in a manager that is retired. *)
MaySave(m) == live /\ m = manager

(* The tokens have come, perhaps after the deadline. *)
Answered(c) ==
  /\ task[c].phase \in {"login", "refresh", "late"}
  /\ IF MaySave(task[c].manager)
     THEN /\ stored' = TRUE
          /\ user' = IF task[c].manager = manager THEN "fresh" ELSE user
          /\ entered' = (entered \/ task[c].phase = "login")
     ELSE UNCHANGED <<stored, user, entered>>
  /\ Ends(c)
  /\ UNCHANGED <<manager, live, closed>>

(* The provider withdraws the grant (invalid_grant), or has no refresh     *)
(* grants and the token's time is over.                                    *)
Refused(c) ==
  /\ task[c].phase = "refresh" /\ MaySave(task[c].manager)
  /\ stored' = FALSE /\ user' = "none"
  /\ Ends(c)
  /\ UNCHANGED <<manager, live, closed, entered>>

(* Cancelled, unreachable, or no refresh grants while the token lasts. *)
Failed(c) ==
  /\ task[c].phase \in {"login", "refresh", "late"}
  /\ Ends(c)
  /\ UNCHANGED <<stored, user, manager, live, closed, entered>>

(* _bounded: the caller gets an error and the manager is retired, which    *)
(* closes the connections of its other exchanges.                          *)
TimesOut(c) ==
  /\ task[c].phase \in {"login", "refresh"}
  /\ live' = FALSE /\ refresh' = NoTask
  /\ task' = [d \in Tasks |->
       IF d = c THEN [task[c] EXCEPT !.phase = "late"]
       ELSE IF task[d].phase \in {"login", "refresh"} THEN NoStep
       ELSE [task[d] EXCEPT !.awaits = NoTask]]
  /\ UNCHANGED <<stored, user, manager, closed, entered>>

(* signOut, forgetUser: the exchange in progress comes first. *)
SignOut(c) ==
  /\ task[c] = NoStep /\ live
  /\ Proceeds(c, Step("forget", manager, refresh))
  /\ UNCHANGED <<stored, user, manager, live, refresh, closed, entered>>

(* Then the library forgets; a manager that the awaited exchange's         *)
(* deadline has retired may clear the store or throw.                      *)
Clearing(c) == task[c].phase = "forget" /\ task[c].awaits = NoTask

Forgets(c) ==
  /\ Clearing(c)
  /\ \/ /\ stored' = FALSE /\ entered' = FALSE
        /\ user' = IF MaySave(task[c].manager) THEN "none" ELSE user
     \/ ~MaySave(task[c].manager) /\ UNCHANGED <<stored, user, entered>>
  /\ Proceeds(c, NoStep)
  /\ UNCHANGED <<manager, live, refresh, closed>>

Disposes ==
  /\ ~closed /\ closed' = TRUE /\ live' = FALSE /\ refresh' = NoTask
  /\ UNCHANGED <<stored, user, manager, task, entered>>

OidcCall(c) ==
  \/ SignIn(c) \/ Refresh(c) \/ SignOut(c)
  \/ Answered(c) \/ Refused(c) \/ Failed(c) \/ TimesOut(c)

OidcNext ==
  IF \E c \in Tasks : Clearing(c)
  THEN \E c \in Tasks : Forgets(c)
  ELSE Initializes \/ UserTokenAges \/ Disposes \/ \E c \in Tasks : OidcCall(c)

OidcSpec == OidcInit /\ [][OidcNext]_oidcVars

-----------------------------------------------------------------------------
OidcTypeOK ==
  /\ {stored, live, closed, entered} \subseteq BOOLEAN
  /\ user \in Ages \cup {"none"} /\ manager \in 0..MaxManagers
  /\ refresh \in Tasks \cup {NoTask}
  /\ task \in [Tasks -> [phase : {"quiet", "login", "refresh", "late", "forget"},
                         manager : 0..MaxManagers, awaits : Tasks \cup {NoTask}]]

(***************************************************************************)
(* "A completed refresh must never resurrect a session after explicit      *)
(* logout" and "no late response may save credentials for the abandoned    *)
(* operation" (oidc_manager.dart lines 99 and 148): the device has         *)
(* credentials only since a sign-in that succeeded, with no sign-out after *)
(* it.                                                                     *)
(***************************************************************************)
NotRevived == stored => entered

=============================================================================
