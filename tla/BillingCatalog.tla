--------------------------- MODULE BillingCatalog ---------------------------
(***************************************************************************)
(* The versioned catalog of plans (packages/server/src/usecases/billing.ts *)
(* administrationCatalog and replaceCatalog, domain/billing.ts             *)
(* validateCatalog, adapters/d1_billing_repository.ts).                    *)
(*                                                                         *)
(* Editors read the catalog, send a replacement with the revision they     *)
(* read, and the server reads it again, validates the replacement against  *)
(* what it read and replaces it on condition.  Membership grants of the    *)
(* past name plans of the catalog.                                         *)
(***************************************************************************)
EXTENDS Integers, FiniteSets, Functions

CONSTANTS
  Editors,
  Proposals,    \* catalogs editors send, sensible or not
  Declared,     \* the host declares its capabilities in code
  Initial,      \* otherwise: the catalog the host was built with
  MaxRevision,  \* bound
  Undefined     \* also: no limit, no policy, no catalog

(* A catalog: the plan that is free, the limit of each plan, the paid plan *)
(* of each entitlement and the purchase policy.  Names are left out, and   *)
(* every plan has the one capability.                                      *)
Plans(catalog) == DOMAIN catalog.limits
PaidPlans(catalog) == Plans(catalog) \ {catalog.free}

(* Catalogs that may be stored: those that are proposed, as they are or    *)
(* with the policy of another, and the one the host was built with.        *)
Supplied == Proposals \cup IF Declared THEN {} ELSE {Initial}

Catalogs ==
  Supplied \cup {[catalog EXCEPT !.purchases = other.purchases] :
                   catalog \in Proposals, other \in Supplied}

ASSUME CatalogAssumption ==
  /\ MaxRevision \in Nat
  /\ \A catalog \in Supplied : DOMAIN catalog = {"free", "limits", "entitled", "purchases"}
  /\ Undefined \notin [revision : 0..MaxRevision, catalog : Catalogs]

VARIABLES
  catalogRow,  \* appbase_billing_catalog: [revision, catalog] or Undefined
  grants,      \* plans that appbase_membership_grants names
  editor       \* what each editor holds

catalogVars == <<catalogRow, grants, editor>>

(* administrationCatalog *)
Current ==
  IF catalogRow = Undefined /\ ~Declared THEN [revision |-> 0, catalog |-> Initial] ELSE catalogRow

Revision == IF Current = Undefined THEN 0 ELSE Current.revision

Editing(phase, revision, catalog) == [phase |-> phase, revision |-> revision, catalog |-> catalog]

Away == Editing("away", 0, Undefined)

CatalogInit ==
  /\ catalogRow = Undefined
  /\ grants = {}
  /\ editor = [e \in Editors |-> Away]

(* GET catalog: the revision is the ETag to send with the replacement. *)
LoadCatalog(e) ==
  /\ editor[e].phase = "away"
  /\ editor' = [editor EXCEPT ![e] = Editing("editing", Revision, Undefined)]
  /\ UNCHANGED <<catalogRow, grants>>

(* Older administrators do not know the policy: it is kept. *)
WithPolicy(catalog) ==
  IF catalog.purchases = Undefined /\ Current # Undefined
  THEN [catalog EXCEPT !.purchases = Current.catalog.purchases]
  ELSE catalog

(* validateCatalog against the catalog that was read. *)
Valid(catalog) ==
  /\ \A key \in DOMAIN catalog.entitled : catalog.entitled[key] \in PaidPlans(catalog)
  /\ \A plan \in Plans(catalog) : catalog.limits[plan] \in Nat \cup {Undefined}
  /\ Current # Undefined =>
       /\ catalog.free = Current.catalog.free
       /\ Declared \/ Plans(Current.catalog) \subseteq Plans(catalog)
       /\ DOMAIN Current.catalog.entitled \subseteq DOMAIN catalog.entitled

(* replaceCatalog up to the conditional statement: 412, 422 or go on. *)
SendCatalog(e, catalog) ==
  /\ editor[e].phase = "editing"
  /\ editor' = [editor EXCEPT ![e] =
       IF editor[e].revision = Revision /\ Valid(catalog)
       THEN Editing("replacing", Revision, WithPolicy(catalog))
       ELSE Away]
  /\ UNCHANGED <<catalogRow, grants>>

(* Mutant: the revision was compared before. *)
ReplacesUnconditionally(revision, catalog) ==
  IF revision = 0 THEN TRUE ELSE catalogRow # Undefined /\ grants \subseteq Plans(catalog)

(* INSERT ... DO NOTHING, or UPDATE where the revision is the same and no  *)
(* grant names a plan that is gone.                                        *)
Replaces(revision, catalog) ==
  IF revision = 0 THEN catalogRow = Undefined
  ELSE /\ catalogRow # Undefined /\ catalogRow.revision = revision
       /\ grants \subseteq Plans(catalog)

ReplaceCatalog(e) ==
  /\ editor[e].phase = "replacing"
  /\ editor' = [editor EXCEPT ![e] = Away]
  /\ IF Replaces(editor[e].revision, editor[e].catalog)
     THEN /\ Revision < MaxRevision
          /\ catalogRow' = [revision |-> IF catalogRow = Undefined THEN 1 ELSE catalogRow.revision + 1,
                            catalog |-> editor[e].catalog]
     ELSE UNCHANGED catalogRow
  /\ UNCHANGED grants

(* putGrant, for a plan the host finds in the catalog. *)
PutGrant(plan) ==
  /\ Current # Undefined /\ plan \in Plans(Current.catalog)
  /\ grants' = grants \cup {plan}
  /\ UNCHANGED <<catalogRow, editor>>

Edit(e) == LoadCatalog(e) \/ (\E catalog \in Proposals : SendCatalog(e, catalog)) \/ ReplaceCatalog(e)

AllPlans == UNION {Plans(catalog) : catalog \in Proposals} \cup
            IF Declared THEN {} ELSE Plans(Initial)

CatalogNext == (\E e \in Editors : Edit(e)) \/ (\E plan \in AllPlans : PutGrant(plan))

CatalogSpec == CatalogInit /\ [][CatalogNext]_catalogVars

-----------------------------------------------------------------------------
(***************************************************************************)
(* Whoever edits at the same time, a replacement is the next revision of   *)
(* the very catalog it was validated against: the free plan stays, the     *)
(* entitlements of the past stay, a purchase policy once set stays set;    *)
(* and it keeps the plans that grants name, also of a grant given while it *)
(* was on its way.                                                         *)
(***************************************************************************)
CatalogHistory ==
  [][catalogRow' # catalogRow =>
       /\ catalogRow'.revision = Revision + 1
       /\ Current # Undefined =>
            /\ catalogRow'.catalog.free = Current.catalog.free
            /\ DOMAIN Current.catalog.entitled \subseteq DOMAIN catalogRow'.catalog.entitled
            /\ Current.catalog.purchases # Undefined => catalogRow'.catalog.purchases # Undefined
       /\ grants \subseteq Plans(catalogRow'.catalog)
    ]_catalogVars

=============================================================================
