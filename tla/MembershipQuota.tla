--------------------------- MODULE MembershipQuota ---------------------------
(***************************************************************************)
(* Unique usage of one capability by one account                           *)
(* (packages/server/src/usecases/membership.ts, adapters/                  *)
(* d1_membership_repository.ts, usecases/billing_membership_repository.ts),*)
(* over the catalog of BillingCatalog.tla, which editors replace at the    *)
(* same time.  A claim finds the account's plan, then the limit of that    *)
(* plan in a catalog it reads anew, then inserts on condition; the month   *)
(* it counts in is the one in which it began.                              *)
(***************************************************************************)
EXTENDS BillingCatalog

CONSTANTS
  Entitlements,  \* what the provider may report
  Items,
  Requests,
  Monthly,       \* the capability's period: utc_month or lifetime
  MaxMonth       \* bound

ASSUME QuotaAssumption ==
  /\ MaxMonth \in Nat /\ Undefined \notin Int
  /\ \A catalog \in Supplied : IsFiniteSet(Plans(catalog))
  /\ Declared \/ \A plan \in Plans(Initial) : Initial.limits[plan] \in Int \cup {Undefined}

VARIABLES
  granted,   \* the plan of the stored grant that is active, or Undefined
  entitled,  \* entitlements of the last stored subscription snapshot
  month,
  usage,     \* appbase_membership_usage, as <<period, item>>
  request,
  ceiling    \* history: the highest limit any plan has had

quotaVars == <<catalogVars, granted, entitled, month, usage, request, ceiling>>

AtRest == [phase |-> "rest", claims |-> FALSE, item |-> Undefined, month |-> 0,
           plan |-> Undefined, limit |-> Undefined]

Highest(catalog, floor) ==
  LET limits == (Range(catalog.limits) \ {Undefined}) \cup {floor}
  IN  CHOOSE n \in limits : \A other \in limits : other <= n

QuotaInit ==
  /\ CatalogInit
  /\ granted = Undefined /\ entitled = {}
  /\ month = 0 /\ usage = {}
  /\ request = [q \in Requests |-> AtRest]
  /\ ceiling = IF Declared THEN 0 ELSE Highest(Initial, 0)

catalogOnly == <<granted, entitled, month, usage, request>>

EditQuota(e) ==
  /\ Edit(e)
  /\ ceiling' = IF catalogRow' = Undefined THEN ceiling ELSE Highest(catalogRow'.catalog, ceiling)
  /\ UNCHANGED catalogOnly

Grant(plan) ==
  /\ PutGrant(plan) /\ granted' = plan
  /\ UNCHANGED <<entitled, month, usage, request, ceiling>>

GrantEnds ==
  /\ granted # Undefined /\ granted' = Undefined
  /\ UNCHANGED <<catalogVars, entitled, month, usage, request, ceiling>>

(* commitSync stores another snapshot (BillingSync.tla). *)
Entitle(keys) ==
  /\ keys # entitled /\ entitled' = keys
  /\ UNCHANGED <<catalogVars, granted, month, usage, request, ceiling>>

NextMonth ==
  /\ month < MaxMonth /\ month' = month + 1
  /\ UNCHANGED <<catalogVars, granted, entitled, usage, request, ceiling>>

Answers(q, to) ==
  /\ request' = [request EXCEPT ![q] = to]
  /\ UNCHANGED <<catalogVars, granted, entitled, month, ceiling>>

(* claimUnique or releaseUnique; now is read once. *)
Call(q, claims, item) ==
  /\ request[q].phase = "rest"
  /\ Answers(q, [AtRest EXCEPT !.phase = "grant", !.claims = claims, !.item = item, !.month = month])
  /\ UNCHANGED usage

(* billingGrant: a plan the entitlements stand for, else the stored grant. *)
Entitling(catalog) == {catalog.entitled[key] : key \in entitled \cap DOMAIN catalog.entitled}

ActiveGrant(q) ==
  /\ request[q].phase = "grant"
  /\ \/ /\ Current = Undefined  \* CONFIGURATION_MISSING
        /\ Answers(q, AtRest)
     \/ /\ Current # Undefined
        /\ \E plan \in IF Entitling(Current.catalog) = {} THEN {granted} ELSE Entitling(Current.catalog) :
             Answers(q, [request[q] EXCEPT !.phase = "plan", !.plan = plan])
  /\ UNCHANGED usage

(* planFor reads the catalog again: a plan that is gone by now is an error *)
(* and a plan without a limit is not counted.                              *)
PlanFor(q) ==
  LET plan == IF request[q].plan = Undefined THEN Current.catalog.free ELSE request[q].plan
  IN  /\ request[q].phase = "plan"
      /\ Answers(q, IF plan \notin Plans(Current.catalog) \/ Current.catalog.limits[plan] = Undefined
                    THEN AtRest
                    ELSE [request[q] EXCEPT !.phase = "usage", !.limit = Current.catalog.limits[plan]])
      /\ UNCHANGED usage

Period(q) == IF Monthly THEN request[q].month ELSE 0

Used(period) == {item \in Items : <<period, item>> \in usage}

(* Mutant: the comparison lets one more in. *)
AdmitsOneMore(q) ==
  \/ <<Period(q), request[q].item>> \in usage
  \/ Cardinality(Used(Period(q))) <= request[q].limit

(* The WHERE of claimUniqueUsage; the count and the row that it reads      *)
(* afterwards only word the answer.                                        *)
Admits(q) ==
  \/ <<Period(q), request[q].item>> \in usage
  \/ Cardinality(Used(Period(q))) < request[q].limit

ClaimUsage(q) ==
  /\ request[q].phase = "usage" /\ request[q].claims
  /\ usage' = IF Admits(q) THEN usage \cup {<<Period(q), request[q].item>>} ELSE usage
  /\ Answers(q, AtRest)

ReleaseUsage(q) ==
  /\ request[q].phase = "usage" /\ ~request[q].claims
  /\ usage' = usage \ {<<Period(q), request[q].item>>}
  /\ Answers(q, AtRest)

Serve(q) ==
  \/ \E claims \in BOOLEAN, item \in Items : Call(q, claims, item)
  \/ ActiveGrant(q) \/ PlanFor(q) \/ ClaimUsage(q) \/ ReleaseUsage(q)

QuotaNext ==
  \/ \E e \in Editors : EditQuota(e)
  \/ \E plan \in AllPlans : Grant(plan)
  \/ \E keys \in SUBSET Entitlements : Entitle(keys)
  \/ GrantEnds \/ NextMonth
  \/ \E q \in Requests : Serve(q)

QuotaSpec == QuotaInit /\ [][QuotaNext]_quotaVars

-----------------------------------------------------------------------------
(* Plans a request may carry: those of catalogs, and whatever the catalog  *)
(* the host was built with, which nothing validates, gives an entitlement. *)
NamedPlans == AllPlans \cup IF Declared THEN {} ELSE Range(Initial.entitled)

QuotaTypeOK ==
  /\ catalogRow = Undefined \/ catalogRow.revision \in 1..MaxRevision
  /\ grants \subseteq AllPlans /\ granted \in grants \cup {Undefined}
  /\ \A e \in Editors : editor[e].phase \in {"away", "editing", "replacing"}
  /\ entitled \subseteq Entitlements /\ month \in 0..MaxMonth
  /\ usage \subseteq (0..MaxMonth) \X Items
  /\ request \in [Requests ->
       [phase : {"rest", "grant", "plan", "usage"}, claims : BOOLEAN, item : Items \cup {Undefined},
        month : 0..MaxMonth, plan : NamedPlans \cup {Undefined}, limit : Int \cup {Undefined}]]
  /\ ceiling \in Nat

(***************************************************************************)
(* No interleaving of claims, releases, plan changes, catalog edits and    *)
(* month ends counts more items in a period than the highest limit that    *)
(* was ever offered (claimUniqueUsage counts and inserts in one statement).*)
(***************************************************************************)
LimitKept == \A period \in 0..MaxMonth : Cardinality(Used(period)) <= ceiling

=============================================================================
