----------------------------- MODULE BillingSync -----------------------------
(***************************************************************************)
(* Subscription snapshots pulled from the payment provider                 *)
(* (packages/server/src/usecases/billing.ts over adapters/                 *)
(* d1_billing_repository.ts and adapters/revenuecat.ts).                   *)
(*                                                                         *)
(* A device asks for a synchronization, or the provider announces a change *)
(* by an event that names customers; either way the server fetches the     *)
(* customer's whole state and stores it.  Every await of a request is a    *)
(* step; requests overlap, fail and are repeated by the provider until one *)
(* of them is answered.                                                    *)
(***************************************************************************)
EXTENDS Integers, Sequences, FiniteSets

CONSTANTS
  Customers,   \* app user ids the provider knows
  Home,        \* the billing environment whose accounts hold the id
  Contexts,    \* webhookServices: the environments served by one webhook, in order
  Callers,     \* requests in progress at a time
  MaxChanges,  \* bound: changes at the provider
  MaxClock,    \* bound: the provider's clock
  NoSnapshot

ASSUME BillingAssumption ==
  /\ MaxChanges \in Nat /\ MaxClock \in Nat
  /\ Len(Contexts) \in Nat \ {0} /\ DOMAIN Contexts = 1..Len(Contexts)
  /\ NoSnapshot \notin [version : 0..MaxChanges, observedAt : 0..MaxClock]

VARIABLES
  changes,    \* the provider's changes: the customers each event names
  clock,      \* the provider's request_date, coarse enough to repeat
  known,      \* customers with a billing account, by the last change before it
  latest,     \* generation: the caller that last began a synchronization
  stored,     \* state_json: the last committed snapshot
  processed,  \* appbase_billing_events, as <<environment, event>>
  caller

billingVars == <<changes, clock, known, latest, stored, processed, caller>>

Unknown == -1
Nobody == "nobody"

(* event 0: a synchronization its owner asked for. *)
Working(phase, event, context, todo, customer, snapshot) ==
  [phase |-> phase, event |-> event, context |-> context, todo |-> todo,
   customer |-> customer, snapshot |-> snapshot]

Ready == Working("ready", 0, 1, {}, Nobody, NoSnapshot)

BillingInit ==
  /\ changes = <<>>
  /\ clock = 0
  /\ known = [c \in Customers |-> Unknown]
  /\ latest = [c \in Customers |-> Nobody]
  /\ stored = [c \in Customers |-> NoSnapshot]
  /\ processed = {}
  /\ caller = [r \in Callers |-> Ready]

Goes(r, to) == caller' = [caller EXCEPT ![r] = to]

(* A purchase, renewal or transfer at the provider. *)
Change(ids) ==
  /\ Len(changes) < MaxChanges
  /\ changes' = Append(changes, ids)
  /\ UNCHANGED <<clock, known, latest, stored, processed, caller>>

Advance ==
  /\ clock < MaxClock
  /\ clock' = clock + 1
  /\ UNCHANGED <<changes, known, latest, stored, processed, caller>>

(* identity: INSERT unless there is one. *)
Identified(c) ==
  known' = IF known[c] = Unknown THEN [known EXCEPT ![c] = Len(changes)] ELSE known

(* GET account gives the device its app user id. *)
Account(c) ==
  /\ known[c] = Unknown
  /\ Identified(c)
  /\ UNCHANGED <<changes, clock, latest, stored, processed, caller>>

(* POST synchronizations. *)
Synchronize(r, c) ==
  /\ caller[r] = Ready
  /\ Goes(r, Working("identity", 0, 1, {}, c, NoSnapshot))
  /\ UNCHANGED <<changes, clock, known, latest, stored, processed>>

(* The provider delivers an event, for the first time or again. *)
Notify(r, e) ==
  /\ caller[r] = Ready
  /\ Goes(r, Working("check", e, 1, {}, Nobody, NoSnapshot))
  /\ UNCHANGED <<changes, clock, known, latest, stored, processed>>

Context(r) == Contexts[caller[r].context]

(* The next context, or the answer 204. *)
NextContext(r) ==
  Goes(r, IF caller[r].context < Len(Contexts)
          THEN [caller[r] EXCEPT !.context = @ + 1, !.phase = "check"]
          ELSE Ready)

(* Mutant: the event is marked before its customers are synchronized. *)
CheckMarking(r) ==
  /\ caller[r].phase = "check"
  /\ IF <<Context(r), caller[r].event>> \in processed
     THEN NextContext(r)
     ELSE Goes(r, [caller[r] EXCEPT !.phase = "owner", !.todo = changes[caller[r].event]])
  /\ processed' = processed \cup {<<Context(r), caller[r].event>>}
  /\ UNCHANGED <<changes, clock, known, latest, stored>>

(* eventProcessed *)
CheckEvent(r) ==
  /\ caller[r].phase = "check"
  /\ IF <<Context(r), caller[r].event>> \in processed
     THEN NextContext(r)
     ELSE Goes(r, [caller[r] EXCEPT !.phase = "owner", !.todo = changes[caller[r].event]])
  /\ UNCHANGED <<changes, clock, known, latest, stored, processed>>

(* owner: an id without an account in this environment is passed over. *)
Owner(r, c) ==
  /\ caller[r].phase = "owner" /\ c \in caller[r].todo
  /\ Goes(r, IF known[c] = Unknown \/ Home[c] # Context(r)
             THEN [caller[r] EXCEPT !.todo = @ \ {c}]
             ELSE [caller[r] EXCEPT !.todo = @ \ {c}, !.phase = "identity", !.customer = c])
  /\ UNCHANGED <<changes, clock, known, latest, stored, processed>>

(* markEventProcessed, after the last id. *)
Mark(r) ==
  /\ caller[r].phase = "owner" /\ caller[r].todo = {}
  /\ processed' = processed \cup {<<Context(r), caller[r].event>>}
  /\ NextContext(r)
  /\ UNCHANGED <<changes, clock, known, latest, stored>>

Identify(r) ==
  /\ caller[r].phase = "identity"
  /\ Identified(caller[r].customer)
  /\ Goes(r, [caller[r] EXCEPT !.phase = "begin"])
  /\ UNCHANGED <<changes, clock, latest, stored, processed>>

BeginSync(r) ==
  /\ caller[r].phase = "begin"
  /\ latest' = [latest EXCEPT ![caller[r].customer] = r]
  /\ Goes(r, [caller[r] EXCEPT !.phase = "subscriber"])
  /\ UNCHANGED <<changes, clock, known, stored, processed>>

(* The provider answers with all it knows at its request_date. *)
Subscriber(r) ==
  /\ caller[r].phase = "subscriber"
  /\ Goes(r, [caller[r] EXCEPT !.phase = "commit",
                               !.snapshot = [version |-> Len(changes), observedAt |-> clock]])
  /\ UNCHANGED <<changes, clock, known, latest, stored, processed>>

(* Mutant: only the provider's date decides which snapshot is newer. *)
CommitsByDate(r) ==
  LET old == stored[caller[r].customer]
  IN  old = NoSnapshot \/ old.observedAt <= caller[r].snapshot.observedAt

(* The condition of commitSync's UPDATE. *)
Commits(r) ==
  LET old == stored[caller[r].customer]
  IN  /\ latest[caller[r].customer] = r
      /\ old = NoSnapshot \/ old.observedAt <= caller[r].snapshot.observedAt

(* A superseded synchronization ends the request, also one of a webhook:   *)
(* the event stays unmarked and is delivered again.                        *)
CommitSync(r) ==
  /\ caller[r].phase = "commit"
  /\ IF Commits(r)
     THEN /\ stored' = [stored EXCEPT ![caller[r].customer] = caller[r].snapshot]
          /\ Goes(r, IF caller[r].event = 0 THEN Ready
                     ELSE [caller[r] EXCEPT !.phase = "owner", !.customer = Nobody,
                                            !.snapshot = NoSnapshot])
     ELSE Goes(r, Ready) /\ UNCHANGED stored
  /\ UNCHANGED <<changes, clock, known, latest, processed>>

(* The catalog is missing, the provider fails or refuses (timeout, other   *)
(* environment's purchases, invalid answer), or the request is cut off.    *)
Fail(r) ==
  /\ caller[r] # Ready
  /\ Goes(r, Ready)
  /\ UNCHANGED <<changes, clock, known, latest, stored, processed>>

Request(r) ==
  \/ \E c \in Customers : Synchronize(r, c) \/ Owner(r, c)
  \/ \E e \in DOMAIN changes : Notify(r, e)
  \/ CheckEvent(r) \/ Mark(r) \/ Identify(r) \/ BeginSync(r)
  \/ Subscriber(r) \/ CommitSync(r) \/ Fail(r)

BillingNext ==
  \/ \E ids \in (SUBSET Customers) \ {{}} : Change(ids)
  \/ Advance
  \/ \E c \in Customers : Account(c)
  \/ \E r \in Callers : Request(r)

BillingSpec == BillingInit /\ [][BillingNext]_billingVars

-----------------------------------------------------------------------------
Snapshots == [version : 0..MaxChanges, observedAt : 0..MaxClock] \cup {NoSnapshot}

BillingTypeOK ==
  /\ changes \in Seq(SUBSET Customers) /\ Len(changes) <= MaxChanges
  /\ clock \in 0..MaxClock
  /\ known \in [Customers -> {Unknown} \cup (0..MaxChanges)]
  /\ latest \in [Customers -> Callers \cup {Nobody}]
  /\ stored \in [Customers -> Snapshots]
  /\ processed \subseteq {Contexts[i] : i \in DOMAIN Contexts} \X DOMAIN changes
  /\ caller \in [Callers ->
       [phase : {"ready", "check", "owner", "identity", "begin", "subscriber", "commit"},
        event : 0..MaxChanges, context : DOMAIN Contexts, todo : SUBSET Customers,
        customer : Customers \cup {Nobody}, snapshot : Snapshots]]

(***************************************************************************)
(* "An event is acknowledged only after all contexts succeed"              *)
(* (docs/billing.md): once an event is marked, every customer it names     *)
(* that had an account before the change has a stored state that includes  *)
(* the change, whatever overlapped, failed or was delivered twice; and no  *)
(* later state lacks it.                                                   *)
(***************************************************************************)
EventsReflected ==
  \A mark \in processed : \A c \in changes[mark[2]] :
    (Home[c] = mark[1] /\ known[c] # Unknown /\ (known[c] < mark[2] \/ stored[c] # NoSnapshot))
    => stored[c] # NoSnapshot /\ stored[c].version >= mark[2]

(***************************************************************************)
(* A stored state is never replaced by one the provider gave out earlier,  *)
(* however synchronizations of the customer overlap (commitSync's          *)
(* generation and date).                                                   *)
(***************************************************************************)
SnapshotsAdvance ==
  [][\A c \in Customers : stored[c] # NoSnapshot => stored'[c].version >= stored[c].version]_billingVars

=============================================================================
