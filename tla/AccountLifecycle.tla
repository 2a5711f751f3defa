-------------------------- MODULE AccountLifecycle --------------------------
(***************************************************************************)
(* Application accounts (packages/server/src/usecases/accounts.ts and      *)
(* account_deletion.ts over adapters/d1_accounts.ts, with the triggers of  *)
(* migrations/0008_application_accounts.sql).                              *)
(*                                                                         *)
(* An identity registers an account, opens device sessions for it, writes  *)
(* to it and deletes it; deletion erases the account's rows at once and    *)
(* its billing customers later, from the request or from the cron job,     *)
(* and then the identity may register a replacement.  Every request and    *)
(* every cron run is a process: one action per awaited statement, all      *)
(* processes interleaved, any of them cut short at any point.              *)
(***************************************************************************)
EXTENDS Naturals

CONSTANTS
  Subjects,       \* identities of the identity provider
  Devices,        \* devices that hold tokens
  DeviceSubject,  \* the identity each device is signed in with
  Accounts,       \* account ids
  LegacyAccount,  \* the migrated account of an identity, NoAccount if it has none
  Environments,   \* billing environments
  Requests,       \* HTTP requests served at the same time
  Crons,          \* runs of the scheduled handler at the same time
  NoAccount, NoSubject, NoDevice, NoEnvironment

Processes == Requests \cup Crons

ASSUME NoneAssumption ==
  /\ NoAccount \notin Accounts
  /\ NoSubject \notin Subjects
  /\ NoDevice \notin Devices
  /\ NoEnvironment \notin Environments
ASSUME DeviceAssumption == DeviceSubject \in [Devices -> Subjects]
ASSUME LegacyAssumption ==
  /\ LegacyAccount \in [Subjects -> Accounts \cup {NoAccount}]
  /\ \A s, t \in Subjects : LegacyAccount[s] = LegacyAccount[t]
                              => s = t \/ LegacyAccount[s] = NoAccount

VARIABLES
  status,      \* appbase_accounts.status, "unused" for an id without a row
  subject,     \* appbase_accounts.subject
  cleanup,     \* next_cleanup_at: "never" (NULL), "later" or "due"
  rows,        \* accounts with rows in records, user keys, grants or usage
  billing,     \* appbase_billing_accounts, as (account, environment) pairs
  sessions,    \* unexpired rows of appbase_devices, as (device, account) pairs
  process,     \* what each request and each cron run is doing
  registrant,  \* history: who registered each account
  issued,      \* history: every pair that was ever in billing
  erased       \* the pairs whose deletion the billing provider has accepted

tables == <<status, subject, cleanup, rows, billing, sessions>>
history == <<registrant, issued, erased>>
vars == <<tables, process, history>>

(***************************************************************************)
(* phase of a request       what it runs next                              *)
(*   "signIn", "register"   open: find or current                          *)
(*   "insert", "reread"     register: the INSERT, and current after it     *)
(*   "session"              saveSession                                    *)
(*   "check", "write"       requireActive, and a write of the business API *)
(*   "identity"             the INSERT of a billing identity               *)
(*   "request"              begin, in DELETE account                       *)
(* phase of a cleanup, in the background of DELETE account or from cron:   *)
(*   "begin" "pending" "provider" "forget" "complete", or "postpone"       *)
(* pinned is the accountId of an open request, account the account the     *)
(* process works on; left holds the identities a cleanup has yet to erase, *)
(* identity the one it has just erased, queue the accounts a cron run has  *)
(* yet to visit.                                                           *)
(***************************************************************************)
RequestPhases == {"signIn", "register", "insert", "reread", "session",
                  "check", "write", "identity", "request"}
CleanupPhases == {"begin", "pending", "provider", "forget", "complete"}
Phases == {"free", "postpone"} \cup RequestPhases \cup CleanupPhases

Process == [phase    : Phases,
            device   : Devices \cup {NoDevice},
            pinned   : Accounts \cup {NoAccount},
            account  : Accounts \cup {NoAccount},
            left     : SUBSET Environments,
            identity : Environments \cup {NoEnvironment},
            queue    : SUBSET Accounts]

Run(phase, device, pinned, account) ==
  [phase |-> phase, device |-> device, pinned |-> pinned, account |-> account,
   left |-> {}, identity |-> NoEnvironment, queue |-> {}]

Clean(phase, account, left, identity, queue) ==
  [phase |-> phase, device |-> NoDevice, pinned |-> NoAccount, account |-> account,
   left |-> left, identity |-> identity, queue |-> queue]

Free == Run("free", NoDevice, NoAccount, NoAccount)

Becomes(p, state) == process' = [process EXCEPT ![p] = state]

(* Migration 0008: a legacy account is active, or already on its way out.  *)
Legacy == {a \in Accounts : \E s \in Subjects : LegacyAccount[s] = a}

Init ==
  /\ status \in [Accounts -> {"unused", "active", "deleting"}]
  /\ \A a \in Accounts : status[a] = "unused" <=> a \notin Legacy
  /\ subject = [a \in Accounts |->
       IF a \in Legacy THEN CHOOSE s \in Subjects : LegacyAccount[s] = a ELSE NoSubject]
  /\ cleanup = [a \in Accounts |-> IF status[a] = "deleting" THEN "due" ELSE "never"]
  /\ rows = {a \in Legacy : status[a] = "active"}
  /\ billing \in SUBSET (Legacy \X Environments)
  /\ sessions = {}
  /\ process = [p \in Processes |-> Free]
  /\ registrant = subject
  /\ issued = billing
  /\ erased = {}

(* SELECT ... WHERE subject=? *)
Current(s) == {a \in Accounts : subject[a] = s}

(* The condition of the triggers that guard the owner's tables. *)
Fenced(a) == status[a] \notin {"unused", "active"}

-----------------------------------------------------------------------------
(* POST account and POST account/sessions.  The identity is the device's;  *)
(* the accountId is whatever the device sends.                             *)
ArriveOpen(p) ==
  /\ process[p].phase = "free"
  /\ \E d \in Devices, pinned \in Accounts \cup {NoAccount}, phase \in {"signIn", "register"} :
       Becomes(p, Run(phase, d, pinned, NoAccount))
  /\ UNCHANGED <<tables, history>>

Found(p) ==
  IF process[p].pinned # NoAccount
  THEN {a \in {process[p].pinned} : status[a] # "unused"}
  ELSE Current(DeviceSubject[process[p].device])

(* Mutant of Usable: a pinned account is taken without looking whose it is. *)
UsableByAnyone(p, a) == status[a] = "active"

(* open, up to the registration: an account that is not active, one of     *)
(* another identity, one that exists when the device registers and one     *)
(* that is missing when it does not are refused.                           *)
Usable(p, a) ==
  /\ status[a] = "active"
  /\ process[p].pinned # NoAccount => subject[a] = DeviceSubject[process[p].device]

OpenExisting(p) ==
  /\ process[p].phase = "signIn"
  /\ \E a \in Found(p) :
       /\ Usable(p, a)
       /\ Becomes(p, Run("session", process[p].device, process[p].pinned, a))
  /\ UNCHANGED <<tables, history>>

OpenNew(p) ==
  /\ process[p].phase = "register"
  /\ process[p].pinned = NoAccount
  /\ Found(p) = {}
  /\ Becomes(p, Run("insert", process[p].device, NoAccount, NoAccount))
  /\ UNCHANGED <<tables, history>>

OpenRefused(p) ==
  /\ \/ process[p].phase = "signIn" /\ ~\E a \in Found(p) : Usable(p, a)
     \/ process[p].phase = "register" /\ (process[p].pinned # NoAccount \/ Found(p) # {})
  /\ Becomes(p, Free)
  /\ UNCHANGED <<tables, history>>

(* register: INSERT ... ON CONFLICT DO NOTHING under the unique index on   *)
(* subject, with a fresh id.                                               *)
Insert(p) ==
  LET s == DeviceSubject[process[p].device]
  IN  /\ process[p].phase = "insert"
      /\ \/ /\ Current(s) = {}
            /\ \E a \in Accounts :
                 /\ status[a] = "unused"
                 /\ status' = [status EXCEPT ![a] = "active"]
                 /\ subject' = [subject EXCEPT ![a] = s]
                 /\ registrant' = [registrant EXCEPT ![a] = s]
         \/ /\ Current(s) # {}
            /\ UNCHANGED <<status, subject, registrant>>
      /\ Becomes(p, Run("reread", process[p].device, NoAccount, NoAccount))
      /\ UNCHANGED <<cleanup, rows, billing, sessions, issued, erased>>

Reread(p) ==
  LET s == DeviceSubject[process[p].device]
  IN  /\ process[p].phase = "reread"
      /\ \/ \E a \in Current(s) :
              /\ status[a] = "active"
              /\ Becomes(p, Run("session", process[p].device, NoAccount, a))
         \/ /\ ~\E a \in Current(s) : status[a] = "active"
            /\ Becomes(p, Free)
      /\ UNCHANGED <<tables, history>>

(* saveSession: the trigger of appbase_devices wants an active account.    *)
SaveSession(p) ==
  /\ process[p].phase = "session"
  /\ sessions' = IF status[process[p].account] = "active"
                 THEN sessions \cup {<<process[p].device, process[p].account>>}
                 ELSE sessions
  /\ Becomes(p, Free)
  /\ UNCHANGED <<status, subject, cleanup, rows, billing, history>>

(* The token expires, or the device signs out (DELETE .../current). *)
EndSession(session) ==
  /\ sessions' = sessions \ {session}
  /\ UNCHANGED <<status, subject, cleanup, rows, billing, process, history>>

-----------------------------------------------------------------------------
(* A request with a device token: authenticate has found its session.      *)
(* Sync and membership routes go on to requireAccount; billing routes do   *)
(* not, and DELETE account must not.                                       *)
ArriveWithSession(p) ==
  /\ process[p].phase = "free"
  /\ \E session \in sessions, phase \in {"check", "identity", "request"} :
       Becomes(p, Run(phase, NoDevice, NoAccount, session[2]))
  /\ UNCHANGED <<tables, history>>

(* A request with a bare identity token, in requireAccount: the account    *)
(* whose id is the identity, if it was migrated and is still its own.      *)
ArriveLegacy(p) ==
  /\ process[p].phase = "free"
  /\ \E s \in Subjects :
       /\ LegacyAccount[s] # NoAccount
       /\ status[LegacyAccount[s]] = "active"
       /\ subject[LegacyAccount[s]] = s
       /\ Becomes(p, Run("write", NoDevice, NoAccount, LegacyAccount[s]))
  /\ UNCHANGED <<tables, history>>

(* requireActive *)
Check(p) ==
  /\ process[p].phase = "check"
  /\ Becomes(p, IF Fenced(process[p].account) THEN Free
                ELSE Run("write", NoDevice, NoAccount, process[p].account))
  /\ UNCHANGED <<tables, history>>

(* Mutant of Write: no triggers, the check before was all there is. *)
WriteUnfenced(p) ==
  /\ process[p].phase = "write"
  /\ rows' = rows \cup {process[p].account}
  /\ UNCHANGED <<status, subject, cleanup, billing, sessions, process, history>>

(* One INSERT or UPDATE of an owner's row, or the abort of its trigger.    *)
Write(p) ==
  /\ process[p].phase = "write"
  /\ \/ ~Fenced(process[p].account) /\ rows' = rows \cup {process[p].account} /\ UNCHANGED process
     \/ Fenced(process[p].account) /\ Becomes(p, Free) /\ UNCHANGED rows
  /\ UNCHANGED <<status, subject, cleanup, billing, sessions, history>>

Finish(p) ==
  /\ process[p].phase = "write"
  /\ Becomes(p, Free)
  /\ UNCHANGED <<tables, history>>

(* Mutant of Identity: no trigger on appbase_billing_accounts. *)
IdentityUnfenced(p) ==
  /\ process[p].phase = "identity"
  /\ \E e \in Environments :
       /\ billing' = billing \cup {<<process[p].account, e>>}
       /\ issued' = issued \cup {<<process[p].account, e>>}
  /\ Becomes(p, Free)
  /\ UNCHANGED <<status, subject, cleanup, rows, sessions, registrant, erased>>

(* identity of d1_billing_repository.ts, or the abort of its trigger.      *)
Identity(p) ==
  /\ process[p].phase = "identity"
  /\ \/ /\ ~Fenced(process[p].account)
        /\ \E e \in Environments :
             /\ billing' = billing \cup {<<process[p].account, e>>}
             /\ issued' = issued \cup {<<process[p].account, e>>}
     \/ /\ Fenced(process[p].account)
        /\ UNCHANGED <<billing, issued>>
  /\ Becomes(p, Free)
  /\ UNCHANGED <<status, subject, cleanup, rows, sessions, registrant, erased>>

-----------------------------------------------------------------------------
(* Mutants of Begin: the identity is set free at once; the UPDATE has no    *)
(* condition on the status.                                                *)
BeginDetaching(p) ==
  LET a == process[p].account
  IN  /\ process[p].phase \in {"request", "begin"}
      /\ status[a] = "active"
      /\ status' = [status EXCEPT ![a] = "deleting"]
      /\ subject' = [subject EXCEPT ![a] = NoSubject]
      /\ cleanup' = [cleanup EXCEPT ![a] = "due"]
      /\ rows' = rows \ {a}
      /\ Becomes(p, Clean("pending", a, {}, NoEnvironment, process[p].queue))
      /\ UNCHANGED <<billing, sessions, history>>

BeginAgain(p) ==
  LET a == process[p].account
  IN  /\ process[p].phase \in {"request", "begin"}
      /\ status' = [status EXCEPT ![a] = "deleting"]
      /\ cleanup' = [cleanup EXCEPT ![a] = "due"]
      /\ rows' = rows \ {a}
      /\ Becomes(p, Clean(IF process[p].phase = "request" THEN "begin" ELSE "pending",
                          a, {}, NoEnvironment, process[p].queue))
      /\ UNCHANGED <<subject, billing, sessions, history>>

(* begin: one batch, once for the 202 answer and once more in process.     *)
Begin(p) ==
  LET a == process[p].account
  IN  /\ process[p].phase \in {"request", "begin"}
      /\ \/ /\ status[a] = "active"
            /\ status' = [status EXCEPT ![a] = "deleting"]
            /\ cleanup' = [cleanup EXCEPT ![a] = "due"]
         \/ /\ status[a] # "active"
            /\ UNCHANGED <<status, cleanup>>
      /\ rows' = rows \ {a}
      /\ Becomes(p, Clean(IF process[p].phase = "request" THEN "begin" ELSE "pending",
                          a, {}, NoEnvironment, process[p].queue))
      /\ UNCHANGED <<subject, billing, sessions, history>>

(* pendingBillingIdentities, after the product's own data is gone. *)
Pending(p) ==
  LET a == process[p].account
      left == {e \in Environments : <<a, e>> \in billing}
  IN  /\ process[p].phase = "pending"
      /\ Becomes(p, Clean(IF left = {} THEN "complete" ELSE "provider",
                          a, left, NoEnvironment, process[p].queue))
      /\ UNCHANGED <<tables, history>>

(* The provider accepts the deletion of a customer (or knows none: 404).   *)
Provider(p) ==
  /\ process[p].phase = "provider"
  /\ \E e \in process[p].left :
       /\ erased' = erased \cup {<<process[p].account, e>>}
       /\ Becomes(p, Clean("forget", process[p].account, process[p].left \ {e}, e,
                           process[p].queue))
  /\ UNCHANGED <<tables, registrant, issued>>

(* completeBillingIdentity *)
Forget(p) ==
  /\ process[p].phase = "forget"
  /\ billing' = billing \ {<<process[p].account, process[p].identity>>}
  /\ Becomes(p, Clean(IF process[p].left = {} THEN "complete" ELSE "provider",
                      process[p].account, process[p].left, NoEnvironment,
                      process[p].queue))
  /\ UNCHANGED <<status, subject, cleanup, rows, sessions, history>>

(* processDue goes to the next account of its list, or is through. *)
Continue(p, queue) ==
  \/ queue = {} /\ Becomes(p, Free)
  \/ \E a \in queue : Becomes(p, Clean("begin", a, {}, NoEnvironment, queue \ {a}))

Complete(p) ==
  LET a == process[p].account
      final == status[a] = "deleting" /\ ~\E e \in Environments : <<a, e>> \in billing
  IN  /\ process[p].phase = "complete"
      /\ status' = IF final THEN [status EXCEPT ![a] = "deleted"] ELSE status
      /\ subject' = IF final THEN [subject EXCEPT ![a] = NoSubject] ELSE subject
      /\ cleanup' = IF final THEN [cleanup EXCEPT ![a] = "never"] ELSE cleanup
      /\ Continue(p, process[p].queue)
      /\ UNCHANGED <<rows, billing, sessions, history>>

(* A step of the cleanup throws: the product's store or the provider is    *)
(* unavailable, a statement fails.                                         *)
Fail(p) ==
  /\ process[p].phase \in CleanupPhases
  /\ Becomes(p, Clean("postpone", process[p].account, {}, NoEnvironment,
                      process[p].queue))
  /\ UNCHANGED <<tables, history>>

(* postpone: another attempt a minute to an hour from now. *)
Postpone(p) ==
  LET a == process[p].account
  IN  /\ process[p].phase = "postpone"
      /\ cleanup' = IF status[a] = "deleting" THEN [cleanup EXCEPT ![a] = "later"] ELSE cleanup
      /\ Continue(p, process[p].queue)
      /\ UNCHANGED <<status, subject, rows, billing, sessions, history>>

(* The scheduled handler: processDue reads the accounts that are due. *)
Cron(p) ==
  /\ process[p].phase = "free"
  /\ \E a \in Accounts : status[a] = "deleting" /\ cleanup[a] = "due"
  /\ Continue(p, {a \in Accounts : status[a] = "deleting" /\ cleanup[a] = "due"})
  /\ UNCHANGED <<tables, history>>

(* Time passes next_cleanup_at. *)
Tick(a) ==
  /\ cleanup[a] = "later"
  /\ cleanup' = [cleanup EXCEPT ![a] = "due"]
  /\ UNCHANGED <<status, subject, rows, billing, sessions, process, history>>

Crash(p) ==
  /\ process[p].phase # "free"
  /\ Becomes(p, Free)
  /\ UNCHANGED <<tables, history>>

Arrive(p) == ArriveOpen(p) \/ ArriveWithSession(p) \/ ArriveLegacy(p)

Open(p) ==
  OpenExisting(p) \/ OpenNew(p) \/ OpenRefused(p) \/ Insert(p) \/ Reread(p) \/ SaveSession(p)

Use(p) == Check(p) \/ Write(p) \/ Finish(p) \/ Identity(p)

Cleanup(p) ==
  \/ Begin(p) \/ Pending(p) \/ Provider(p) \/ Forget(p) \/ Complete(p) \/ Postpone(p)

Next ==
  \/ \E p \in Requests : Arrive(p) \/ Open(p) \/ Use(p)
  \/ \E p \in Crons : Cron(p)
  \/ \E p \in Processes : Cleanup(p) \/ Fail(p) \/ Crash(p)
  \/ \E session \in sessions : EndSession(session)
  \/ \E a \in Accounts : Tick(a)

Spec == Init /\ [][Next]_vars

-----------------------------------------------------------------------------
(* The state of the deployment is well formed. *)
TypeOK ==
  /\ status \in [Accounts -> {"unused", "active", "deleting", "deleted"}]
  /\ subject \in [Accounts -> Subjects \cup {NoSubject}]
  /\ cleanup \in [Accounts -> {"never", "later", "due"}]
  /\ rows \in SUBSET Accounts
  /\ billing \in SUBSET (Accounts \X Environments)
  /\ sessions \in SUBSET (Devices \X Accounts)
  /\ process \in [Processes -> Process]
  /\ registrant \in [Accounts -> Subjects \cup {NoSubject}]
  /\ issued \in SUBSET (Accounts \X Environments)
  /\ erased \in SUBSET (Accounts \X Environments)

(***************************************************************************)
(* From the moment a deletion is accepted the account has no synchronized  *)
(* data, no keys, no grants and no usage, although requests that passed    *)
(* requireActive before it are still writing ("fences stale writers").     *)
(***************************************************************************)
DataFenced == \A a \in Accounts : Fenced(a) => a \notin rows

(***************************************************************************)
(* A billing identity that was ever given to a client keeps its row until  *)
(* the provider has accepted its deletion, and a deleted account has none  *)
(* left: whatever two cleanups of the same account, failures between their *)
(* steps and billing requests in flight do, no customer is forgotten.      *)
(***************************************************************************)
CustomersErased ==
  /\ issued \subseteq billing \cup erased
  /\ \A a \in Accounts, e \in Environments :
       status[a] = "deleted" /\ <<a, e>> \in issued => <<a, e>> \in erased \ billing

(***************************************************************************)
(* An identity gets another account only after all it had before are       *)
(* deleted: registration "is blocked until cleanup finishes", also for     *)
(* two devices that register at the same time.                             *)
(***************************************************************************)
OneLiveAccount ==
  \A a, b \in Accounts :
    a # b /\ registrant[a] = registrant[b] /\ registrant[a] # NoSubject
      => status[a] = "deleted" \/ status[b] = "deleted"

(***************************************************************************)
(* A session opens the account of the identity it was issued to, and a     *)
(* renewal the very account it is pinned to, never the replacement the     *)
(* same identity has registered since.                                     *)
(***************************************************************************)
SessionsBelong ==
  /\ \A d \in Devices, a \in Accounts :
       <<d, a>> \in sessions => registrant[a] = DeviceSubject[d]
  /\ \A p \in Processes :
       process[p].phase = "session" =>
         /\ registrant[process[p].account] = DeviceSubject[process[p].device]
         /\ process[p].pinned \in {NoAccount, process[p].account}

(***************************************************************************)
(* Deletion is a one-way street: a cleanup that is late, a DELETE that is  *)
(* sent again or a second processor never brings an account back.  (The    *)
(* registry below implies it; it is proved on its own, too.)               *)
(***************************************************************************)
DeletionIsFinal ==
  [][\A a \in Accounts :
       /\ status[a] = "deleting" => status'[a] \in {"deleting", "deleted"}
       /\ status[a] = "deleted" => status'[a] = "deleted"]_vars

(***************************************************************************)
(* Whatever requests and cron runs interleave, fail and crash, the tables  *)
(* behave like a registry in which each of these things happens in one     *)
(* step (AccountRegistry.tla); a customer is owed to the provider's        *)
(* deletion from its creation until the provider has accepted it.          *)
(***************************************************************************)
Registry == INSTANCE AccountRegistry WITH holder <- registrant, owed <- issued \ erased

ImplementsRegistry == Registry!RegistrySpec

(***************************************************************************)
(* The scheduled handler runs again and again, a run goes on once started, *)
(* and time passes.                                                        *)
(***************************************************************************)
Fairness ==
  /\ \A p \in Crons : WF_vars(Cron(p)) /\ WF_vars(Cleanup(p))
  /\ \A a \in Accounts : WF_vars(Tick(a))

FairSpec == Spec /\ Fairness

(* What cleanup comes to, once it stops failing: the server "retries       *)
(* failed provider cleanup without requiring a client", so that every      *)
(* accepted deletion completes, even when no request ever comes again.     *)
NothingToErase == \A a \in Accounts : status[a] # "deleting"

=============================================================================
