--------------------------- MODULE AccountRegistry ---------------------------
(***************************************************************************)
(* What the server promises about application accounts                     *)
(* (packages/server/src/usecases/accounts.ts, account_deletion.ts), with   *)
(* every request done in one step and no process in sight: an identity has *)
(* one account at a time, an account goes from registration to deletion    *)
(* and never back, whatever belongs to it is written while it is active,   *)
(* and it is deleted only when the billing provider knows none of its      *)
(* customers any more.  AccountLifecycle.tla implements this registry.     *)
(***************************************************************************)
CONSTANTS
  Subjects,       \* identities
  Devices,
  DeviceSubject,  \* the identity each device is signed in with
  Accounts,
  Environments,   \* billing environments
  NoSubject

VARIABLES
  status,    \* of each account
  holder,    \* the identity that registered it, also after it is deleted
  rows,      \* accounts that have data
  sessions,  \* of devices, as (device, account) pairs
  owed       \* customers the provider has yet to delete, as (account, environment) pairs

registryVars == <<status, holder, rows, sessions, owed>>

(* A registry that was migrated, with deletions that were under way. *)
RegistryInit ==
  /\ status \in [Accounts -> {"unused", "active", "deleting"}]
  /\ holder \in [Accounts -> Subjects \cup {NoSubject}]
  /\ \A a \in Accounts : holder[a] = NoSubject <=> status[a] = "unused"
  /\ \A a, b \in Accounts : holder[a] = holder[b] /\ holder[a] # NoSubject => a = b
  /\ rows \subseteq {a \in Accounts : status[a] = "active"}
  /\ sessions = {}
  /\ owed \subseteq {a \in Accounts : status[a] # "unused"} \X Environments

(* An identity registers when all accounts it had are deleted. *)
Register(s, a) ==
  /\ status[a] = "unused"
  /\ \A b \in Accounts : holder[b] = s => status[b] = "deleted"
  /\ status' = [status EXCEPT ![a] = "active"]
  /\ holder' = [holder EXCEPT ![a] = s]
  /\ UNCHANGED <<rows, sessions, owed>>

(* A device opens the account of its identity. *)
OpenSession(d, a) ==
  /\ status[a] = "active" /\ holder[a] = DeviceSubject[d]
  /\ sessions' = sessions \cup {<<d, a>>}
  /\ UNCHANGED <<status, holder, rows, owed>>

CloseSession(session) ==
  /\ sessions' = sessions \ {session}
  /\ UNCHANGED <<status, holder, rows, owed>>

WriteRows(a) ==
  /\ status[a] = "active"
  /\ rows' = rows \cup {a}
  /\ UNCHANGED <<status, holder, sessions, owed>>

(* The account becomes a customer of the provider. *)
BecomeCustomer(a, e) ==
  /\ status[a] = "active"
  /\ owed' = owed \cup {<<a, e>>}
  /\ UNCHANGED <<status, holder, rows, sessions>>

(* From the acceptance of a deletion on there are no data. *)
AcceptDeletion(a) ==
  /\ status[a] = "active"
  /\ status' = [status EXCEPT ![a] = "deleting"]
  /\ rows' = rows \ {a}
  /\ UNCHANGED <<holder, sessions, owed>>

EraseCustomer(a, e) ==
  /\ status[a] = "deleting"
  /\ owed' = owed \ {<<a, e>>}
  /\ UNCHANGED <<status, holder, rows, sessions>>

CompleteDeletion(a) ==
  /\ status[a] = "deleting"
  /\ \A e \in Environments : <<a, e>> \notin owed
  /\ status' = [status EXCEPT ![a] = "deleted"]
  /\ UNCHANGED <<holder, rows, sessions, owed>>

RegistryNext ==
  \/ \E s \in Subjects, a \in Accounts : Register(s, a)
  \/ \E d \in Devices, a \in Accounts : OpenSession(d, a)
  \/ \E session \in sessions : CloseSession(session)
  \/ \E a \in Accounts : WriteRows(a) \/ AcceptDeletion(a) \/ CompleteDeletion(a)
  \/ \E a \in Accounts, e \in Environments : BecomeCustomer(a, e) \/ EraseCustomer(a, e)

RegistrySpec == RegistryInit /\ [][RegistryNext]_registryVars

=============================================================================
