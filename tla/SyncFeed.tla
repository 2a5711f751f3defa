------------------------------ MODULE SyncFeed ------------------------------
(***************************************************************************)
(* Devices that traverse GET changes page by page (pullChanges in          *)
(* packages/server/src/usecases/sync.ts, listChanges in                    *)
(* adapters/d1_sync_repository.ts) while the log grows under them.         *)
(*                                                                         *)
(* The log is the abstract one of SyncLog.tla, which SyncServer.tla        *)
(* implements: listChanges is a single statement and sees whole versions.  *)
(***************************************************************************)
EXTENDS SyncLog, FiniteSetsExt

CONSTANTS
  Readers,      \* devices that pull
  ReaderOwner,  \* the account each of them is signed in to
  PageSize      \* the pageSize query

ASSUME ReaderAssumption == ReaderOwner \in [Readers -> Owners]
ASSUME PageAssumption   == PageSize \in Nat \ {0}

VARIABLE reader  \* per reader: checkpoint, whether to go on, and projection

vars == <<logVars, reader>>

Init ==
  /\ LogInit
  /\ reader = [c \in Readers |->
                 [cursor |-> 0, more |-> TRUE,
                  replica |-> [r \in Records |-> NoRevision]]]

(* The rows of the account after a checkpoint. *)
After(owner, cursor) == {i \in DOMAIN log : i > cursor /\ log[i].owner = owner}

(* ORDER BY sequence ASC LIMIT limit *)
listChanges(owner, cursor, limit) ==
  {i \in After(owner, cursor) :
     Cardinality({j \in After(owner, cursor) : j <= i}) <= limit}

(* Mutants of pullChanges: the checkpoint is that of the extra row; a page  *)
(* with one more row is taken for the last; an empty page has no cursor.    *)
PullToExtraRow(owner, cursor) ==
  LET versions == listChanges(owner, cursor, PageSize + 1)
      page     == {i \in versions : Cardinality({j \in versions : j <= i}) <= PageSize}
  IN  [changes |-> page,
       cursor  |-> IF page = {} THEN cursor ELSE Max(versions),
       hasMore |-> Cardinality(versions) > PageSize]

PullEndsEarly(owner, cursor) ==
  LET versions == listChanges(owner, cursor, PageSize + 1)
      page     == {i \in versions : Cardinality({j \in versions : j <= i}) <= PageSize}
  IN  [changes |-> page,
       cursor  |-> IF page = {} THEN cursor ELSE Max(page),
       hasMore |-> Cardinality(versions) > PageSize + 1]

PullWithoutCursor(owner, cursor) ==
  LET versions == listChanges(owner, cursor, PageSize + 1)
      page     == {i \in versions : Cardinality({j \in versions : j <= i}) <= PageSize}
  IN  [changes |-> page,
       cursor  |-> IF page = {} THEN None ELSE Max(page),
       hasMore |-> Cardinality(versions) > PageSize]

(***************************************************************************)
(* pullChanges reads one row more than the page to learn whether there is  *)
(* another page; the checkpoint is the last row of the page itself, or the *)
(* one that was supplied when the page is empty.                           *)
(***************************************************************************)
pullChanges(owner, cursor) ==
  LET versions == listChanges(owner, cursor, PageSize + 1)
      page     == {i \in versions : Cardinality({j \in versions : j <= i}) <= PageSize}
  IN  [changes |-> page,
       cursor  |-> IF page = {} THEN cursor ELSE Max(page),
       hasMore |-> Cardinality(versions) > PageSize]

(* A device applies a page and keeps its checkpoint in one transaction.  A *)
(* response that is lost changes nothing on either side.                   *)
Pull(c) ==
  LET page  == pullChanges(ReaderOwner[c], reader[c].cursor)
      Of(r) == {i \in page.changes : log[i].record = r}
  IN  /\ reader' = [reader EXCEPT ![c] =
           [cursor  |-> page.cursor,
            more    |-> page.hasMore,
            replica |-> [r \in Records |->
                           IF Of(r) = {} THEN reader[c].replica[r] ELSE Max(Of(r))]]]
      /\ UNCHANGED logVars

(* A pull reads neither drafts nor acknowledgements: LogAcknowledge is left *)
(* out of the writers' steps.                                              *)
Write(m) == (LogCompose(m) \/ LogAccept(m)) /\ UNCHANGED reader

Next ==
  \/ \E m \in Mutations : Write(m)
  \/ \E c \in Readers : Pull(c)

(* A signed-in device keeps pulling. *)
Fairness == \A c \in Readers : WF_vars(Pull(c))

Spec == Init /\ [][Next]_vars /\ Fairness

-----------------------------------------------------------------------------
(* The state of the readers is well formed. *)
TypeOK ==
  reader \in [Readers -> [cursor : Nat, more : BOOLEAN, replica : [Records -> Nat]]]

(***************************************************************************)
(* A reader's projection is exactly the state of its account at its        *)
(* checkpoint: page boundaries and rows of other accounts in between skip  *)
(* no version and apply none out of order (semantics.md: a checkpoint      *)
(* "represents every item included in that response").                     *)
(***************************************************************************)
CheckpointCoversReplica ==
  \A c \in Readers, r \in Records :
    IsLastBefore(ReaderOwner[c], r, reader[c].replica[r], reader[c].cursor + 1)

(***************************************************************************)
(* A page without a next page really is the last one: the device that      *)
(* stops its pull loop there has everything committed at that moment.      *)
(***************************************************************************)
NoPrematureEnd ==
  [][\A c \in Readers :
       reader'[c] # reader[c] /\ ~reader'[c].more
         => After(ReaderOwner[c], reader'[c].cursor) = {}]_vars

(* What every reader comes to, once the log stops growing (Mutations is     *)
(* finite, so it does): it has the account's latest versions and knows so. *)
CaughtUp ==
  \A c \in Readers : After(ReaderOwner[c], reader[c].cursor) = {} /\ ~reader[c].more

=============================================================================
