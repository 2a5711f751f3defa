------------------------------- MODULE SyncLog -------------------------------
(***************************************************************************)
(* What the sync server promises, with every request taken as one step.    *)
(*                                                                         *)
(* The server keeps one log of immutable record versions.  A device gives  *)
(* a mutation an identity and a content once; the server accepts it at     *)
(* most once, on top of whatever version of the record is current at that  *)
(* moment, and only tells a device about versions it has accepted.         *)
(*                                                                         *)
(* SyncServer.tla is the server as the code runs it: several requests at a *)
(* time, each one a sequence of database statements.  It implements this   *)
(* specification (LogSpec is a PROPERTY of its runs).                      *)
(***************************************************************************)
EXTENDS SyncMerge, FiniteSets

CONSTANTS
  Owners,        \* account ids ("owner_sub" of a record)
  Records,       \* (collection, recordId) pairs
  Mutations,     \* (owner, deviceId, mutationId) triples
  MutationOwner  \* the account each mutation belongs to

ASSUME OwnerAssumption == MutationOwner \in [Mutations -> Owners]

VARIABLES
  log,    \* the rows of appbase_records; the position of a row is its sequence
  draft,  \* what each device stored under a mutation identity, None before that
  acked   \* per mutation, the version a device was told of, NoRevision before that

logVars == <<log, draft, acked>>

(***************************************************************************)
(* A revision is a fresh UUID.  The model names a version by its position  *)
(* in the log, which no other version has either.                          *)
(***************************************************************************)
NoRevision == 0

Draft == [record : Records, base : Nat, payload : Payload \cup {None}]

ASSUME DraftAssumption == None \notin Draft

Version == [owner : Owners, record : Records, mutation : Mutations,
            base : Nat, payload : Payload \cup {None}]

VersionOf(owner, record, i) == log[i].owner = owner /\ log[i].record = record

(* i is the last version of the record below position n, NoRevision if none. *)
IsLastBefore(owner, record, i, n) ==
  \/ /\ i = NoRevision
     /\ \A j \in DOMAIN log : j < n => ~VersionOf(owner, record, j)
  \/ /\ i \in DOMAIN log
     /\ i < n
     /\ VersionOf(owner, record, i)
     /\ \A j \in DOMAIN log : i < j /\ j < n => ~VersionOf(owner, record, j)

(* ORDER BY sequence DESC LIMIT 1 *)
IsCurrent(owner, record, i) == IsLastBefore(owner, record, i, Len(log) + 1)

PayloadAt(i) == IF i = NoRevision THEN None ELSE log[i].payload

Accepted(m) == \E i \in DOMAIN log : log[i].mutation = m

(***************************************************************************)
(* The payload mutation m gets when it is stored right after version i.    *)
(***************************************************************************)
Resolve(d, i) ==
  IF i = d.base THEN d.payload
  ELSE defaultThreeWayMerge(PayloadAt(d.base), PayloadAt(i), d.payload)

LogInit ==
  /\ log = <<>>
  /\ draft = [m \in Mutations |-> None]
  /\ acked = [m \in Mutations |-> NoRevision]

(***************************************************************************)
(* A device composes a mutation: it picks a record, a base revision it may *)
(* have seen at any time in the past, and a payload (None is a delete).    *)
(***************************************************************************)
LogCompose(m) ==
  /\ draft[m] = None
  /\ \E record \in Records, payload \in Payload \cup {None},
        base \in {NoRevision} \cup DOMAIN log :
       /\ base # NoRevision => VersionOf(MutationOwner[m], record, base)
       /\ draft' = [draft EXCEPT ![m] =
                      [record |-> record, base |-> base, payload |-> payload]]
  /\ UNCHANGED <<log, acked>>

LogAccept(m) ==
  /\ draft[m] # None
  /\ ~Accepted(m)
  /\ \E i \in {NoRevision} \cup DOMAIN log :
       /\ IsCurrent(MutationOwner[m], draft[m].record, i)
       /\ log' = Append(log, [owner    |-> MutationOwner[m],
                              record   |-> draft[m].record,
                              mutation |-> m,
                              base     |-> i,
                              payload  |-> Resolve(draft[m], i)])
  /\ UNCHANGED <<draft, acked>>

(* A response reaches its device: it names, for some accepted mutations,   *)
(* the version each of them became.                                        *)
LogAcknowledge ==
  /\ acked' \in [Mutations -> {NoRevision} \cup DOMAIN log]
  /\ \A m \in Mutations :
       acked'[m] # acked[m] => /\ acked'[m] # NoRevision
                               /\ log[acked'[m]].mutation = m
  /\ UNCHANGED <<log, draft>>

LogNext ==
  \/ \E m \in Mutations : LogCompose(m) \/ LogAccept(m)
  \/ LogAcknowledge

LogSpec == LogInit /\ [][LogNext]_logVars

=============================================================================
