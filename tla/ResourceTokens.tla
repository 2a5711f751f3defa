--------------------------- MODULE ResourceTokens ---------------------------
(***************************************************************************)
(* One authorization grant for several resources: AppBaseOidcGrant         *)
(* (packages/appbase_flutter/lib/src/oidc_session.dart) keeps an access    *)
(* token per resource and has one refresh token, so that exchanges queue.  *)
(* A sign-out waits for the manager's exchange (oidc_manager.dart).        *)
(***************************************************************************)
EXTENDS Sequences, SequencesExt

CONSTANTS
  Subjects, Resources, TokenResource, Askers,
  RefreshGrants,  \* the provider gives refresh tokens
  Nobody

ASSUME TokensAssumption ==
  /\ TokenResource \in Resources /\ Nobody \notin Resources
  /\ Nobody \notin [of : Subjects, resource : Resources]
  /\ Nobody \notin [of : Subjects, audience : Resources, usable : BOOLEAN]

VARIABLES
  held,       \* the token of the manager's currentUser, or NoOne
  tokens,     \* _tokens: [of, audience, usable], or NoOne
  tail,       \* _refreshTail: the calls that wait for each other
  asks,       \* per call, the resource it wants a token for, or NoOne
  exchange,   \* the manager's _refresh: [of, resource], or NoOne
  joined,     \* the calls it serves
  signingOut  \* forgetUser waits for the exchange

resourceVars == <<held, tokens, tail, asks, exchange, joined, signingOut>>

TokensInit ==
  /\ held = Nobody
  /\ tokens = [r \in Resources |-> Nobody]
  /\ tail = <<>> /\ asks = [c \in Askers |-> Nobody]
  /\ exchange = Nobody /\ joined = {} /\ signingOut = FALSE

Token(of, resource) == [of |-> of, audience |-> resource, usable |-> TRUE]

Usable(token) == token # Nobody /\ token.usable

(* _initializedManager puts the manager's token where its audience says. *)
Remembered == IF held = Nobody THEN tokens ELSE [tokens EXCEPT ![held.audience] = held]

(* Mutant: a call that returns does not let the next one go on. *)
ReturnHoldingQueue(calls) ==
  UNCHANGED tail /\ asks' = [c \in Askers |-> IF c \in calls THEN Nobody ELSE asks[c]]

(* The call at the head leaves the queue, with or without a token. *)
Return(calls) ==
  /\ tail' = IF tail # <<>> /\ Head(tail) \in calls THEN Tail(tail) ELSE tail
  /\ asks' = [c \in Askers |-> IF c \in calls THEN Nobody ELSE asks[c]]

GrantSignIn(p) ==
  /\ held = Nobody
  /\ held' = Token(p, TokenResource)
  /\ tokens' = [tokens EXCEPT ![TokenResource] = held']
  /\ UNCHANGED <<tail, asks, exchange, joined, signingOut>>

(* A token comes to within a minute of its end. *)
TokenEnds(token) ==
  /\ Usable(token)
  /\ LET Ended(other) == IF other = token THEN [token EXCEPT !.usable = FALSE] ELSE other
     IN  held' = Ended(held) /\ tokens' = [r \in Resources |-> Ended(tokens[r])]
  /\ UNCHANGED <<tail, asks, exchange, joined, signingOut>>

(* Without a usable token the call queues. *)
AccessToken(c, r) ==
  /\ asks[c] = Nobody /\ held # Nobody
  /\ tokens' = Remembered
  /\ IF Usable(tokens'[r]) THEN UNCHANGED <<tail, asks>>
     ELSE tail' = Append(tail, c) /\ asks' = [asks EXCEPT ![c] = r]
  /\ UNCHANGED <<held, exchange, joined, signingOut>>

(* Mutant: a call does not wait for the one before. *)
InAnyOrder(c) == c \in ToSet(tail) \ joined /\ asks[c] # Nobody

HasTurn(c) == tail # <<>> /\ Head(tail) = c /\ c \notin joined

(* _serializedRefresh: the call before may have brought a token.  The      *)
(* manager lets a call take part in the exchange that runs.                *)
Refreshes(c) ==
  /\ HasTurn(c)
  /\ IF Usable(tokens[asks[c]]) \/ held = Nobody
     THEN Return({c}) /\ UNCHANGED <<tokens, exchange, joined>>
     ELSE /\ tokens' = Remembered
          /\ joined' = joined \cup {c}
          /\ exchange' = IF exchange # Nobody THEN exchange
                         ELSE [of |-> held.of, resource |-> asks[c]]
          /\ UNCHANGED <<tail, asks>>
  /\ UNCHANGED <<held, signingOut>>

(* What the exchange brought is stored under what each call asked for, and *)
(* a sign-out that waited forgets the user.  Where there are no refresh    *)
(* tokens the manager answers with the token it has.                       *)
Exchanged ==
  LET got == IF RefreshGrants THEN Token(exchange.of, exchange.resource) ELSE held
  IN  /\ exchange # Nobody
      /\ tokens' = [r \in Resources |->
                      IF \E c \in joined : asks[c] = r THEN got ELSE tokens[r]]
      /\ Return(joined) /\ joined' = {} /\ exchange' = Nobody
      /\ held' = IF signingOut THEN Nobody ELSE got
      /\ signingOut' = FALSE

(* A failure; the grant may be withdrawn with it. *)
ExchangeFails ==
  /\ exchange # Nobody
  /\ Return(joined) /\ joined' = {} /\ exchange' = Nobody
  /\ held' \in IF signingOut THEN {Nobody} ELSE {held, Nobody}
  /\ signingOut' = FALSE
  /\ UNCHANGED tokens

(* The tokens are dropped first; forgetUser waits for the exchange. *)
GrantSignOut ==
  /\ held # Nobody /\ ~signingOut
  /\ tokens' = [r \in Resources |-> Nobody]
  /\ IF exchange = Nobody THEN held' = Nobody /\ UNCHANGED signingOut
                         ELSE signingOut' = TRUE /\ UNCHANGED held
  /\ UNCHANGED <<tail, asks, exchange, joined>>

TokensNext ==
  \/ \E p \in Subjects : GrantSignIn(p)
  \/ \E token \in {held} \cup {tokens[r] : r \in Resources} : TokenEnds(token)
  \/ \E c \in Askers, r \in Resources : AccessToken(c, r)
  \/ \E c \in Askers : Refreshes(c)
  \/ Exchanged \/ ExchangeFails \/ GrantSignOut

TokensSpec == TokensInit /\ [][TokensNext]_resourceVars

-----------------------------------------------------------------------------
TokensTypeOK ==
  LET Tokens == [of : Subjects, audience : Resources, usable : BOOLEAN] \cup {Nobody}
  IN  /\ held \in Tokens /\ tokens \in [Resources -> Tokens]
      /\ asks \in [Askers -> Resources \cup {Nobody}]
      /\ IsInjective(tail) /\ ToSet(tail) = {c \in Askers : asks[c] # Nobody}
      /\ exchange \in [of : Subjects, resource : Resources] \cup {Nobody}
      /\ joined \subseteq Askers /\ signingOut \in BOOLEAN

(***************************************************************************)
(* "Each resource session receives its own audience-restricted access      *)
(* token, while the underlying OIDC manager owns the single rotating       *)
(* refresh token" (oidc_session.dart line 118): no interleaving of calls   *)
(* for several resources, sign-outs and sign-ins files a token under       *)
(* another resource.                                                       *)
(***************************************************************************)
TokensFitTheirResource ==
  \A r \in Resources : tokens[r] # Nobody => tokens[r].audience = r

(***************************************************************************)
(* "A completed refresh must never resurrect a session after explicit      *)
(* logout" (oidc_manager.dart line 99): tokens that are kept belong to the *)
(* user who is signed in.                                                  *)
(***************************************************************************)
TokensOfTheUser ==
  held # Nobody => \A r \in Resources : tokens[r] # Nobody => tokens[r].of = held.of

=============================================================================
