----------------------------- MODULE AdminTabs -----------------------------
(***************************************************************************)
(* Provider credentials in the administration browser (packages/server/    *)
(* src/browser/admin_credentials.ts and admin_oauth.ts): one credential in *)
(* localStorage, shared by tabs under a Web Lock.  Tabs sign in, renew     *)
(* with a refresh token that the provider accepts once, sign out and are   *)
(* closed at any time.                                                     *)
(***************************************************************************)
EXTENDS Integers

CONSTANTS
  Tabs,
  MaxTokens,  \* bound: refresh tokens the provider ever issues
  NoLogin

ASSUME TabsAssumption ==
  /\ MaxTokens \in Nat /\ NoLogin \notin Tabs
  /\ NoLogin \notin [token : 1..MaxTokens, login : 1..MaxTokens, fresh : BOOLEAN]

VARIABLES
  credential,  \* localStorage: [token, login, fresh] or NoLogin
  lock,        \* the tab that holds the Web Lock, or NoLogin
  tab,
  issued,      \* tokens issued so far
  sent,        \* history: how often each token was sent to the provider
  ended        \* history: logins that were signed out

tabVars == <<credential, lock, tab, issued, sent, ended>>

(* attempt: state, nonce and verifier in the tab's sessionStorage. *)
Blank == [phase |-> "blank", attempt |-> FALSE, held |-> NoLogin]

Credential(token, login) == [token |-> token, login |-> login, fresh |-> TRUE]

TabsInit ==
  /\ credential = NoLogin /\ lock = NoLogin
  /\ tab = [t \in Tabs |-> Blank]
  /\ issued = 0 /\ sent = [n \in 1..MaxTokens |-> 0] /\ ended = {}

(* The access token is about to expire. *)
Wither ==
  /\ credential # NoLogin /\ credential.fresh
  /\ credential' = [credential EXCEPT !.fresh = FALSE]
  /\ UNCHANGED <<lock, tab, issued, sent, ended>>

(* authorizationUrl *)
Authorize(t) ==
  /\ tab[t].phase = "blank" /\ ~tab[t].attempt
  /\ tab' = [tab EXCEPT ![t].attempt = TRUE]
  /\ UNCHANGED <<credential, lock, issued, sent, ended>>

(* callback consumes the attempt and exchanges the code; a login is named  *)
(* after its first token.                                                  *)
Callback(t) ==
  /\ tab[t].phase = "blank" /\ tab[t].attempt /\ issued < MaxTokens
  /\ issued' = issued + 1
  /\ tab' = [tab EXCEPT ![t] = [phase |-> "signIn", attempt |-> FALSE,
                                held |-> Credential(issued + 1, issued + 1)]]
  /\ UNCHANGED <<credential, lock, sent, ended>>

(* An expired attempt or a refused code. *)
CallbackFails(t) ==
  /\ tab[t].phase = "blank" /\ tab[t].attempt
  /\ tab' = [tab EXCEPT ![t].attempt = FALSE]
  /\ UNCHANGED <<credential, lock, issued, sent, ended>>

SignIn(t) ==
  /\ tab[t].phase = "signIn" /\ lock = NoLogin
  /\ credential' = tab[t].held
  /\ tab' = [tab EXCEPT ![t] = Blank]
  /\ UNCHANGED <<lock, issued, sent, ended>>

AskToSignOut(t) ==
  /\ tab[t].phase = "blank"
  /\ tab' = [tab EXCEPT ![t] = [Blank EXCEPT !.phase = "signOut"]]
  /\ UNCHANGED <<credential, lock, issued, sent, ended>>

(* Logins that a sign-out ends: the one stored, and one being renewed. *)
Present ==
  {c.login : c \in ({credential} \cup {tab[t].held : t \in {t \in Tabs : tab[t].phase \in {"renew", "answer"}}})
                   \ {NoLogin}}

(* Mutant: signing out does not wait for the lock. *)
SignOutUnlocked(t) ==
  /\ tab[t].phase = "signOut"
  /\ credential' = NoLogin /\ ended' = ended \cup Present
  /\ tab' = [tab EXCEPT ![t] = Blank]
  /\ UNCHANGED <<lock, issued, sent>>

SignOut(t) ==
  /\ tab[t].phase = "signOut" /\ lock = NoLogin
  /\ credential' = NoLogin /\ ended' = ended \cup Present
  /\ tab' = [tab EXCEPT ![t] = Blank]
  /\ UNCHANGED <<lock, issued, sent>>

(* Mutant: the credential stays stored during the exchange. *)
RenewInPlace(t) ==
  /\ tab[t].phase = "blank" /\ lock = NoLogin
  /\ credential # NoLogin /\ ~credential.fresh
  /\ lock' = t
  /\ tab' = [tab EXCEPT ![t].phase = "renew", ![t].held = credential]
  /\ UNCHANGED <<credential, issued, sent, ended>>

(* accessToken with a credential that must be renewed: it leaves the       *)
(* storage before it is used.                                              *)
Renew(t) ==
  /\ tab[t].phase = "blank" /\ lock = NoLogin
  /\ credential # NoLogin /\ ~credential.fresh
  /\ lock' = t /\ credential' = NoLogin
  /\ tab' = [tab EXCEPT ![t].phase = "renew", ![t].held = credential]
  /\ UNCHANGED <<issued, sent, ended>>

SendRefresh(t) ==
  /\ tab[t].phase = "renew"
  /\ sent' = [sent EXCEPT ![tab[t].held.token] = @ + 1]
  /\ tab' = [tab EXCEPT ![t].phase = "answer"]
  /\ UNCHANGED <<credential, lock, issued, ended>>

(* A new token of the same operator is stored. *)
Renewed(t) ==
  /\ tab[t].phase = "answer" /\ issued < MaxTokens
  /\ issued' = issued + 1
  /\ credential' = Credential(issued + 1, tab[t].held.login)
  /\ lock' = NoLogin
  /\ tab' = [tab EXCEPT ![t].phase = "blank", ![t].held = NoLogin]
  /\ UNCHANGED <<sent, ended>>

(* No usable answer: the operator must sign in again. *)
RenewFails(t) ==
  /\ tab[t].phase \in {"renew", "answer"}
  /\ lock' = NoLogin
  /\ tab' = [tab EXCEPT ![t].phase = "blank", ![t].held = NoLogin]
  /\ UNCHANGED <<credential, issued, sent, ended>>

(* A closed or crashed tab gives the lock back. *)
CloseTab(t) ==
  /\ tab[t] # Blank
  /\ lock' = IF lock = t THEN NoLogin ELSE lock
  /\ tab' = [tab EXCEPT ![t] = Blank]
  /\ UNCHANGED <<credential, issued, sent, ended>>

TabsNext ==
  \/ Wither
  \/ \E t \in Tabs :
       \/ Authorize(t) \/ Callback(t) \/ CallbackFails(t) \/ SignIn(t)
       \/ AskToSignOut(t) \/ SignOut(t) \/ Renew(t) \/ SendRefresh(t) \/ Renewed(t)
       \/ RenewFails(t) \/ CloseTab(t)

TabsSpec == TabsInit /\ [][TabsNext]_tabVars

-----------------------------------------------------------------------------
Credentials == [token : 1..MaxTokens, login : 1..MaxTokens, fresh : BOOLEAN] \cup {NoLogin}

TabsTypeOK ==
  /\ credential \in Credentials /\ lock \in Tabs \cup {NoLogin}
  /\ tab \in [Tabs -> [phase : {"blank", "signIn", "signOut", "renew", "answer"},
                       attempt : BOOLEAN, held : Credentials]]
  /\ issued \in 0..MaxTokens /\ sent \in [1..MaxTokens -> Nat] /\ ended \subseteq 1..MaxTokens

(***************************************************************************)
(* "a crashed tab or an uncertain response cannot cause a rotating token   *)
(* to be reused" (docs/technology-decisions.md): no tab sends a refresh    *)
(* token that was sent before.                                             *)
(***************************************************************************)
RefreshTokenUsedOnce == \A n \in 1..MaxTokens : sent[n] <= 1

(* A login that was signed out in one tab is not brought back by a renewal *)
(* that another tab had in progress.                                       *)
SignedOutStaysOut ==
  credential # NoLogin => credential.login \notin ended

=============================================================================
