------------------------------ MODULE MCDevice ------------------------------
(***************************************************************************)
(* Parts of a device that share no state, each checked from its own        *)
(* initial states: a behaviour stays in the component it began with.       *)
(***************************************************************************)
EXTENDS AccountSession, LocalAccount, OidcSession, ResourceTokens, BillingController, TLC

CONSTANTS p1, p2, a1, a2, app1, app2, user1, user2, c1, c2, t1, t2, t3

(* Every set whose members may change places gets a generator; those of    *)
(* the same component change at the same time, to keep the group small.    *)
Exchange(x, y) == x :> y @@ y :> x

Interchangeable ==
  Permutations({t3}) \cup
  {Exchange(p1, p2) @@ Exchange(a1, a2) @@ Exchange(app1, app2) @@ Exchange(user1, user2),
   Exchange(c1, c2) @@ Exchange(t1, t2)}

VARIABLE component

Init ==
  /\ component \in {"session", "local", "oidc", "tokens", "billing"}
  /\ SessionInit /\ LocalInit /\ OidcInit /\ TokensInit /\ ControlInit
  /\ component # "local" => session = NoAccount
  /\ component # "oidc" => ~stored
  /\ component # "billing" => sdkIdentity = Anonymous

SessionPart == component = "session" /\ SessionNext /\
  UNCHANGED <<component, localVars, oidcVars, resourceVars, controlVars>>
LocalPart == component = "local" /\ LocalNext /\
  UNCHANGED <<component, sessionVars, oidcVars, resourceVars, controlVars>>
OidcPart == component = "oidc" /\ OidcNext /\
  UNCHANGED <<component, sessionVars, localVars, resourceVars, controlVars>>
TokensPart == component = "tokens" /\ TokensNext /\
  UNCHANGED <<component, sessionVars, localVars, oidcVars, controlVars>>
BillingPart == component = "billing" /\ ControlNext /\
  UNCHANGED <<component, sessionVars, localVars, oidcVars, resourceVars>>

Next == SessionPart \/ LocalPart \/ OidcPart \/ TokensPart \/ BillingPart

deviceVars == <<component, sessionVars, localVars, oidcVars, resourceVars, controlVars>>

Spec == Init /\ [][Next]_deviceVars

(* The state of every part is well typed. *)
DeviceTypeOK ==
  /\ SessionTypeOK /\ LocalTypeOK /\ OidcTypeOK /\ TokensTypeOK /\ ControlTypeOK

=============================================================================
