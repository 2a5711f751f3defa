----------------------------- MODULE MCServices -----------------------------
(***************************************************************************)
(* Parts of the server that share no table, each checked from its own      *)
(* initial states: a behaviour stays in the component it began with.       *)
(* Quotas run over the catalog they read; the catalog is checked once more *)
(* by itself, with two editors.                                            *)
(***************************************************************************)
EXTENDS BillingSync, MembershipQuota, KeyRotation, AdminLogin, AdminTabs, MCSyncMerge, TLC

CONSTANTS c1, c2, free, pro, max, gold, i1, i2, e1, w1, w2, k1, k2

BothInProduction == [c \in Customers |-> "production"]

SandboxFirst == <<"sandbox", "production">>

(* Catalogs without and with paid plans, one that drops a plan, one that   *)
(* takes the free plan's place.                                            *)
Catalog(freePlan, limits, entitlementPlans, purchases) ==
  [free |-> freePlan, limits |-> limits, entitled |-> entitlementPlans, purchases |-> purchases]

SomeCatalogs ==
  {Catalog(free, free :> 1, <<>>, Undefined),
   Catalog(free, free :> 0 @@ pro :> 1, gold :> pro, "on"),
   Catalog(free, free :> 1 @@ max :> Undefined, gold :> max, Undefined),
   Catalog(pro, pro :> 1, <<>>, Undefined)}

(* The two members of a set change places; in sets of different components *)
(* they do so at the same time, to keep the group small. *)
Exchange(S) == CHOOSE swap \in Permutations(S) : \A x \in S : swap[x] # x

Interchangeable ==
  Permutations({e1}) \cup
  {Exchange(Callers) @@ Exchange(Requests) @@ Exchange(Writers) @@ Exchange(Callbacks) @@ Exchange(Tabs),
   Exchange(Customers) @@ Exchange(Items) @@ Exchange(Rotators) @@ Exchange(Attempts)}

VARIABLE component

(* Once the month has changed the editor rests, entitlements stay and no   *)
(* plan is granted for the first time; without these bounds the states of  *)
(* catalogs and subscriptions multiply those of the claims.                *)
OneEditor ==
  /\ \A e \in Editors : (e # e1 \/ month' > 0) => editor'[e] = Away
  /\ month > 0 => UNCHANGED <<entitled, grants>>

keepMerge == <<ancestor, server, client, merged, pending>>
quotaOnly == <<granted, entitled, month, usage, request, ceiling>>

NoMerge == ancestor = None /\ server = None /\ client = None /\ merged = None /\ pending = FALSE

Init ==
  /\ component \in {"billing", "catalog", "quota", "keys", "login", "tabs", "merge"}
  /\ BillingInit /\ QuotaInit /\ KeyInit /\ LoginInit /\ TabsInit
  /\ IF component = "merge" THEN MergeInit ELSE NoMerge

BillingPart == component = "billing" /\ BillingNext /\
  UNCHANGED <<component, quotaVars, keyVars, loginVars, tabVars, keepMerge>>
CatalogPart == component = "catalog" /\ CatalogNext /\
  UNCHANGED <<component, quotaOnly, billingVars, keyVars, loginVars, tabVars, keepMerge>>
QuotaPart == component = "quota" /\ QuotaNext /\ OneEditor /\
  UNCHANGED <<component, billingVars, keyVars, loginVars, tabVars, keepMerge>>
KeyPart == component = "keys" /\ KeyNext /\
  UNCHANGED <<component, billingVars, quotaVars, loginVars, tabVars, keepMerge>>
LoginPart == component = "login" /\ LoginNext /\
  UNCHANGED <<component, billingVars, quotaVars, keyVars, tabVars, keepMerge>>
TabsPart == component = "tabs" /\ TabsNext /\
  UNCHANGED <<component, billingVars, quotaVars, keyVars, loginVars, keepMerge>>
MergePart == component = "merge" /\ Merge /\
  UNCHANGED <<component, billingVars, quotaVars, keyVars, loginVars, tabVars>>

Next == BillingPart \/ CatalogPart \/ QuotaPart \/ KeyPart \/ LoginPart \/ TabsPart \/ MergePart

serviceVars == <<component, billingVars, quotaVars, keyVars, loginVars, tabVars, keepMerge>>

Spec == Init /\ [][Next]_serviceVars

(* The state of every part is well typed. *)
ServicesTypeOK ==
  /\ component = "billing" => BillingTypeOK
  /\ component \in {"catalog", "quota"} => QuotaTypeOK
  /\ component = "keys" => KeyTypeOK
  /\ component = "login" => LoginTypeOK
  /\ component = "tabs" => TabsTypeOK

=============================================================================
