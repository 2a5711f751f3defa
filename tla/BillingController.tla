------------------------- MODULE BillingController -------------------------
(***************************************************************************)
(* The billing page of a device: BillingController (packages/              *)
(* appbase_billing/lib/appbase_billing.dart) above the store's SDK         *)
(* (packages/appbase_revenuecat/lib/appbase_revenuecat.dart).              *)
(*                                                                         *)
(* Work for an account queues and goes on, step by step, only while the    *)
(* account is the one it was begun for; the account changes at any time.   *)
(* The SDK has one identity for all.  clearAccount waits for the queue and *)
(* then logs the SDK out beside it.  The API answers for the account that  *)
(* the work is for: the product changes the account with the session.      *)
(***************************************************************************)
EXTENDS Integers, Sequences

CONSTANTS
  AppAccounts,
  MaxSwitches,  \* bound: changes of the account
  Anonymous     \* no account, and the SDK's identity without one

ASSUME ControlAssumption == MaxSwitches \in Nat

VARIABLES
  account,      \* _account
  switches,     \* _generation
  phase,        \* _phase
  purchases,    \* _purchases: [of, enabled], or Anonymous
  work,         \* _tail: the work that is queued, the first in progress
  sdkIdentity,  \* who the SDK is logged in as
  clears,       \* clearAccount in progress: the work before its logout
  disposed

controlVars == <<account, switches, phase, purchases, work, sdkIdentity, clears, disposed>>

(* at: what the work does next. *)
Work(kind) == [kind |-> kind, for |-> account', of |-> switches', at |-> "start"]

Kinds == {"set", "purchase", "restore", "refresh", "availability"}

ControlInit ==
  /\ account = Anonymous /\ switches = 0
  /\ phase = "idle" /\ purchases = Anonymous
  /\ work = <<>> /\ sdkIdentity \in AppAccounts \cup {Anonymous}
  /\ clears = <<>> /\ disposed = FALSE

Publish(to) == phase' = to

Busy == phase \in {"loading", "purchasing", "restoring", "synchronizing"}

Current(w) == ~disposed /\ w.of = switches /\ account # Anonymous

setAccount(a) ==
  /\ ~disposed /\ account # a /\ switches < MaxSwitches
  /\ account' = a /\ switches' = switches + 1 /\ purchases' = Anonymous
  /\ Publish(IF a = Anonymous THEN "idle" ELSE "loading")
  /\ work' = IF a = Anonymous THEN work ELSE Append(work, Work("set"))
  /\ UNCHANGED <<sdkIdentity, clears, disposed>>

clearAccount ==
  /\ ~disposed /\ switches < MaxSwitches
  /\ account' = Anonymous /\ switches' = switches + 1 /\ purchases' = Anonymous
  /\ Publish("idle")
  /\ clears' = Append(clears, Len(work))
  /\ UNCHANGED <<work, sdkIdentity, disposed>>

(* clearIdentity, once the work it waited for is over. *)
ClearIdentity ==
  /\ clears # <<>> /\ Head(clears) = 0
  /\ sdkIdentity' = Anonymous /\ clears' = Tail(clears)
  /\ UNCHANGED <<account, switches, phase, purchases, work, disposed>>

(* purchase and manage, restore, refresh, refreshAvailability. *)
Asked(kind) ==
  /\ ~disposed /\ account # Anonymous /\ ~Busy
  /\ kind = "availability" \/ phase # "idle"
  /\ UNCHANGED <<account, switches>>
  /\ Publish(CASE kind = "purchase" -> "purchasing" [] kind = "restore" -> "restoring"
               [] kind = "refresh" -> "synchronizing" [] OTHER -> "loading")
  /\ work' = Append(work, Work(kind))
  /\ UNCHANGED <<purchases, sdkIdentity, clears, disposed>>

(* The first of the queue is over; ready or failed if it is current. *)
Done(result) ==
  /\ work' = Tail(work)
  /\ clears' = [i \in DOMAIN clears |-> IF clears[i] = 0 THEN 0 ELSE clears[i] - 1]
  /\ IF Current(Head(work)) THEN Publish(result) ELSE UNCHANGED phase

Continues(at) ==
  /\ work' = <<[Head(work) EXCEPT !.at = at]>> \o Tail(work)
  /\ UNCHANGED clears

Now(at) == work # <<>> /\ Head(work).at = at

(* Its turn has come: api.account() is asked unless the account changed. *)
Starts ==
  /\ Now("start")
  /\ IF Current(Head(work))
     THEN /\ Continues("account") /\ UNCHANGED phase
          /\ purchases' = IF Head(work).kind = "set" THEN purchases ELSE Anonymous
     ELSE Done("ready") /\ UNCHANGED purchases
  /\ UNCHANGED <<account, switches, sdkIdentity, disposed>>

(* Mutant: the account is not looked at after api.account(). *)
PolicyUnchecked ==
  /\ Now("account")
  /\ \E enabled \in BOOLEAN : purchases' = [of |-> Head(work).for, enabled |-> enabled]
  /\ IF Head(work).kind = "availability" THEN Done("ready")
     ELSE Continues("identify") /\ UNCHANGED phase
  /\ UNCHANGED <<account, switches, sdkIdentity, disposed>>

(* api.account() has answered: whether the account may buy. *)
ReadPolicy ==
  /\ Now("account")
  /\ IF ~Current(Head(work)) THEN Done("ready") /\ UNCHANGED purchases
     ELSE \E enabled \in BOOLEAN :
            /\ purchases' = [of |-> Head(work).for, enabled |-> enabled]
            /\ IF \/ Head(work).kind = "availability"
                  \/ Head(work).kind = "purchase" /\ ~enabled
               THEN Done("ready")
               ELSE Continues("identify") /\ UNCHANGED phase
  /\ UNCHANGED <<account, switches, sdkIdentity, disposed>>

(* ui.identify has logged the SDK in; then the store's own pages. *)
Identifies ==
  /\ Now("identify")
  /\ sdkIdentity' = Head(work).for
  /\ IF ~Current(Head(work)) THEN Done("ready")
     ELSE IF Head(work).kind \in {"purchase", "restore"}
          THEN Continues("operate") /\ UNCHANGED phase
          ELSE Continues("synchronize") /\ Publish("synchronizing")
  /\ UNCHANGED <<account, switches, purchases, disposed>>

(* Completed or, for a purchase, cancelled. *)
Operated ==
  /\ Now("operate")
  /\ \/ Done("ready")
     \/ Current(Head(work)) /\ Continues("synchronize") /\ Publish("synchronizing")
  /\ UNCHANGED <<account, switches, purchases, sdkIdentity, disposed>>

(* api.synchronize() and refreshMembership(). *)
Synchronized ==
  /\ Now("synchronize")
  /\ IF Current(Head(work)) THEN Continues("membership") /\ UNCHANGED phase ELSE Done("ready")
  /\ UNCHANGED <<account, switches, purchases, sdkIdentity, disposed>>

Refreshed ==
  /\ Now("membership")
  /\ Done("ready")
  /\ UNCHANGED <<account, switches, purchases, sdkIdentity, disposed>>

(* Mutant: a failure ends the work and tells nobody. *)
FailsQuietly ==
  /\ work # <<>> /\ Head(work).at # "start"
  /\ work' = Tail(work)
  /\ clears' = [i \in DOMAIN clears |-> IF clears[i] = 0 THEN 0 ELSE clears[i] - 1]
  /\ UNCHANGED <<account, switches, phase, purchases, sdkIdentity, disposed>>

WorkFails ==
  /\ work # <<>> /\ Head(work).at # "start"
  /\ Done("failed")
  /\ UNCHANGED <<account, switches, purchases, sdkIdentity, disposed>>

(* The product does not call the controller any more. *)
Dispose ==
  /\ ~disposed /\ disposed' = TRUE /\ switches < MaxSwitches
  /\ switches' = switches + 1
  /\ UNCHANGED <<account, phase, purchases, work, sdkIdentity, clears>>

ControlNext ==
  \/ (\E a \in AppAccounts \cup {Anonymous} : setAccount(a)) \/ clearAccount \/ ClearIdentity
  \/ (\E kind \in Kinds \ {"set"} : Asked(kind))
  \/ Starts \/ ReadPolicy \/ Identifies \/ Operated \/ Synchronized \/ Refreshed \/ WorkFails
  \/ Dispose

ControlSpec == ControlInit /\ [][ControlNext]_controlVars

-----------------------------------------------------------------------------
ControlTypeOK ==
  /\ {account, sdkIdentity} \subseteq AppAccounts \cup {Anonymous}
  /\ switches \in 0..MaxSwitches /\ disposed \in BOOLEAN
  /\ phase \in {"idle", "loading", "ready", "purchasing", "restoring", "synchronizing",
                "failed"}
  /\ purchases \in [of : AppAccounts, enabled : BOOLEAN] \cup {Anonymous}
  /\ clears \in Seq(Nat)
  /\ work \in Seq([kind : Kinds, for : AppAccounts, of : 0..MaxSwitches,
                   at : {"start", "account", "identify", "operate", "synchronize",
                         "membership"}])

(***************************************************************************)
(* "Serializes SDK identity and UI operations; generation checks isolate   *)
(* app accounts" and "no purchase can use an older SDK identity"           *)
(* (appbase_billing.dart lines 145 and 267): whether buying is enabled is  *)
(* shown for the account in use, and while the store's pages are open the  *)
(* SDK is not logged in as anybody else, though a logout may come between. *)
(***************************************************************************)
AccountsStayApart ==
  /\ purchases # Anonymous => purchases.of = account
  /\ Now("operate") => sdkIdentity \in {Head(work).for, Anonymous}

(***************************************************************************)
(* The page never stays busy, with its buttons disabled, for nothing: work *)
(* of the account in use is queued and will publish its end.               *)
(***************************************************************************)
BusyHasWork ==
  (Busy /\ ~disposed) => \E i \in DOMAIN work : work[i].of = switches

=============================================================================
