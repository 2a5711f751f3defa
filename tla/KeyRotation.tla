----------------------------- MODULE KeyRotation -----------------------------
(***************************************************************************)
(* Envelope encryption under rotating master keys (packages/server/src/    *)
(* adapters/envelope_secret_codec.ts), operated as docs/key-rotation.md    *)
(* says.                                                                   *)
(*                                                                         *)
(* Every payload is sealed with its owner's user key of the master key     *)
(* version in the worker's keyring; user keys are created when first used. *)
(* A worker keeps the keyring it started with.  Requests seal and append   *)
(* records while administrators re-encrypt the records of an old version   *)
(* in batches and then retire the user keys of that version; both may end  *)
(* at any statement.  A random user key is named after the worker that     *)
(* generated it.                                                           *)
(***************************************************************************)
EXTENDS Integers, FiniteSets

CONSTANTS
  Users,
  Slots,        \* records, by sequence; each is written once
  Writers,      \* requests in progress
  Rotators,     \* administrators' scripts in progress
  BatchLimit,   \* the limit of reencryptBatch
  MaxVersion,   \* bound: master keys ever made
  NoKey

Workers == Writers \cup Rotators
Versions == 1..MaxVersion

ASSUME KeyAssumption ==
  /\ MaxVersion \in Nat \ {0} /\ NoKey \notin Workers
  /\ NoKey \notin [user : Users, version : Versions, key : Workers]

VARIABLES
  userKeys,   \* appbase_user_keys: the key of a user and version, or NoKey
  records,    \* appbase_records: the envelope of each slot, or NoKey
  current,    \* currentVersion of the newest keyring
  serving,    \* the versions of the keyrings workers still start with
  retained,   \* the master keys that were not removed
  worker

keyVars == <<userKeys, records, current, serving, retained, worker>>

Envelope(user, version, key) == [user |-> user, version |-> version, key |-> key]

(* version  currentVersion of the worker's keyring                         *)
(* batch    slots still to rotate, with the envelopes that were selected   *)
(* from     the version being rotated away                                 *)
(* key      the user key in hand                                           *)
Idle == [phase |-> "idle", version |-> 1, slot |-> 0, user |-> NoKey, from |-> 0,
         batch |-> {}, key |-> NoKey]

KeyInit ==
  /\ userKeys = [u \in Users |-> [v \in Versions |-> NoKey]]
  /\ records = [s \in Slots |-> NoKey]
  /\ current = 1 /\ serving = {1} /\ retained = {1}
  /\ worker = [w \in Workers |-> Idle]

Turns(w, to) == worker' = [worker EXCEPT ![w] = to]
Moves(w, phase) == Turns(w, [worker[w] EXCEPT !.phase = phase])

(* A key is added and deployed; requests go on under the old keyring until *)
(* every worker runs the new one.                                          *)
Deploy ==
  /\ current < MaxVersion /\ serving = {current}
  /\ current' = current + 1
  /\ serving' = {current, current + 1}
  /\ retained' = retained \cup {current + 1}
  /\ UNCHANGED <<userKeys, records, worker>>

DeployedEverywhere ==
  /\ serving # {current}
  /\ serving' = {current}
  /\ UNCHANGED <<userKeys, records, current, retained, worker>>

(* Mutant: nobody looks whether the previous deployment still serves. *)
RemoveWhileServing(v) ==
  /\ v \in retained \ {current}
  /\ \A s \in Slots : records[s] # NoKey => records[s].version # v
  /\ retained' = retained \ {v}
  /\ UNCHANGED <<userKeys, records, current, serving, worker>>

(* Step 5 of the procedure: keyUsage shows nothing of the version.         *)
RemoveMasterKey(v) ==
  /\ v \in retained \ {current} /\ serving = {current}
  /\ \A s \in Slots : records[s] # NoKey => records[s].version # v
  /\ \A u \in Users : userKeys[u][v] = NoKey
  /\ \A w \in Workers : worker[w].phase # "idle" => worker[w].version = current
  /\ retained' = retained \ {v}
  /\ UNCHANGED <<userKeys, records, current, serving, worker>>

(* A request that stores a payload of the user. *)
Write(w, s, u, v) ==
  /\ worker[w].phase = "idle" /\ w \in Writers
  /\ records[s] = NoKey /\ (\A x \in Workers : worker[x].slot # s)
  /\ v \in serving
  /\ Turns(w, [Idle EXCEPT !.phase = "find", !.version = v, !.slot = s, !.user = u])
  /\ UNCHANGED <<userKeys, records, current, serving, retained>>

(* userKey for sealing: SELECT, and if there is none ... *)
FindKey(w) ==
  LET found == userKeys[worker[w].user][worker[w].version]
  IN  /\ worker[w].phase = "find"
      /\ Turns(w, [worker[w] EXCEPT !.phase = IF found = NoKey THEN "create" ELSE "store",
                                    !.key = found])
      /\ UNCHANGED <<userKeys, records, current, serving, retained>>

(* Mutant: the worker goes on with the key it generated. *)
CreateOwnKey(w) ==
  LET u == worker[w].user  v == worker[w].version
  IN  /\ worker[w].phase = "create"
      /\ userKeys' = IF userKeys[u][v] = NoKey THEN [userKeys EXCEPT ![u][v] = w] ELSE userKeys
      /\ Turns(w, [worker[w] EXCEPT !.phase = "store", !.key = w])
      /\ UNCHANGED <<records, current, serving, retained>>

(* ... INSERT OR IGNORE a new one, and read again. *)
CreateKey(w) ==
  LET u == worker[w].user  v == worker[w].version
  IN  /\ worker[w].phase = "create"
      /\ userKeys' = IF userKeys[u][v] = NoKey THEN [userKeys EXCEPT ![u][v] = w] ELSE userKeys
      /\ Moves(w, "find")
      /\ UNCHANGED <<records, current, serving, retained>>

(* The sealed payload is appended by a request. *)
AppendRecord(w) ==
  /\ worker[w].phase = "store" /\ w \in Writers
  /\ records' = [records EXCEPT ![worker[w].slot] =
                   Envelope(worker[w].user, worker[w].version, worker[w].key)]
  /\ Turns(w, Idle)
  /\ UNCHANGED <<userKeys, current, serving, retained>>

(* Step 4 of the procedure: no worker has the previous keyring any more.   *)
Paused == /\ serving = {current}
          /\ \A w \in Workers : worker[w].phase # "idle" => worker[w].version = current

Rotate(w, v) ==
  /\ worker[w].phase = "idle" /\ w \in Rotators
  /\ v \in retained \ {current} /\ Paused
  /\ Turns(w, [Idle EXCEPT !.phase = "select", !.version = current, !.from = v])
  /\ UNCHANGED <<userKeys, records, current, serving, retained>>

(* reencryptBatch selects the first rows of the version. *)
Selected(v) == {s \in Slots : records[s] # NoKey /\ records[s].version = v}

SelectBatch(w) ==
  LET rows  == Selected(worker[w].from)
      first == {s \in rows : Cardinality({r \in rows : r < s}) < BatchLimit}
  IN  /\ worker[w].phase = "select"
      /\ Turns(w, [worker[w] EXCEPT !.phase = "open",
                                    !.batch = {<<s, records[s]>> : s \in first}])
      /\ UNCHANGED <<userKeys, records, current, serving, retained>>

(* The next row is opened with its own key; without it the batch fails.    *)
OpenRow(w) ==
  /\ worker[w].phase = "open"
  /\ \E row \in worker[w].batch :
       /\ \A other \in worker[w].batch : row[1] <= other[1]
       /\ Turns(w, IF userKeys[row[2].user][worker[w].from] # row[2].key THEN Idle
                   ELSE [worker[w] EXCEPT !.phase = "find", !.slot = row[1], !.user = row[2].user])
  /\ UNCHANGED <<userKeys, records, current, serving, retained>>

(* The row is replaced only if it still holds the envelope selected. *)
UpdateRow(w) ==
  /\ worker[w].phase = "store" /\ w \in Rotators
  /\ \E row \in worker[w].batch :
       /\ row[1] = worker[w].slot
       /\ records' = IF records[row[1]] = row[2]
                     THEN [records EXCEPT ![row[1]] =
                             Envelope(worker[w].user, worker[w].version, worker[w].key)]
                     ELSE records
       /\ Turns(w, [worker[w] EXCEPT !.phase = "open", !.batch = @ \ {row},
                                     !.slot = 0, !.user = NoKey, !.key = NoKey])
  /\ UNCHANGED <<userKeys, current, serving, retained>>

(* remaining: another batch, or retireUserKeys ... *)
Remaining(w) ==
  /\ worker[w].phase = "open" /\ worker[w].batch = {}
  /\ Moves(w, IF Selected(worker[w].from) = {} THEN "count" ELSE "select")
  /\ UNCHANGED <<userKeys, records, current, serving, retained>>

(* ... which refuses while envelopes need the keys ... *)
CountEnvelopes(w) ==
  /\ worker[w].phase = "count"
  /\ IF Selected(worker[w].from) = {} THEN Moves(w, "retire") ELSE Turns(w, Idle)
  /\ UNCHANGED <<userKeys, records, current, serving, retained>>

RetireUserKeys(w) ==
  /\ worker[w].phase = "retire"
  /\ userKeys' = [u \in Users |-> [userKeys[u] EXCEPT ![worker[w].from] = NoKey]]
  /\ Turns(w, Idle)
  /\ UNCHANGED <<records, current, serving, retained>>

StopWorker(w) ==
  /\ worker[w].phase # "idle"
  /\ Turns(w, Idle)
  /\ UNCHANGED <<userKeys, records, current, serving, retained>>

Work(w) ==
  \/ \E s \in Slots, u \in Users, v \in Versions : Write(w, s, u, v)
  \/ \E v \in Versions : Rotate(w, v)
  \/ FindKey(w) \/ CreateKey(w) \/ AppendRecord(w)
  \/ SelectBatch(w) \/ OpenRow(w) \/ UpdateRow(w)
  \/ Remaining(w) \/ CountEnvelopes(w) \/ RetireUserKeys(w) \/ StopWorker(w)

KeyNext ==
  \/ Deploy \/ DeployedEverywhere
  \/ \E v \in Versions : RemoveMasterKey(v)
  \/ \E w \in Workers : Work(w)

KeySpec == KeyInit /\ [][KeyNext]_keyVars

-----------------------------------------------------------------------------
Envelopes == [user : Users, version : Versions, key : Workers]

KeyTypeOK ==
  /\ userKeys \in [Users -> [Versions -> Workers \cup {NoKey}]]
  /\ records \in [Slots -> Envelopes \cup {NoKey}]
  /\ current \in retained /\ retained \subseteq Versions /\ serving \subseteq retained
  /\ worker \in [Workers ->
       [phase : {"idle", "find", "create", "store", "select", "open", "count", "retire"},
        version : Versions, slot : Slots \cup {0}, user : Users \cup {NoKey},
        from : Versions \cup {0}, batch : SUBSET (Slots \X Envelopes),
        key : Workers \cup {NoKey}]]

(***************************************************************************)
(* Every stored envelope can be opened: the key that sealed it is the one  *)
(* in the table, and its master key is retained ("Deleting an old key      *)
(* before verification causes permanent data loss", key-rotation.md).      *)
(***************************************************************************)
StoredOpens ==
  \A s \in Slots : records[s] # NoKey =>
    /\ userKeys[records[s].user][records[s].version] = records[s].key
    /\ records[s].version \in retained

=============================================================================
