--------------------------- MODULE AccountSession ---------------------------
(***************************************************************************)
(* The application session of a device, on top of its identity session     *)
(* (packages/appbase_client/lib/src/account_session.dart).                 *)
(*                                                                         *)
(* Calls interleave at their awaits.  A binding, the account with its      *)
(* application token, is written by the queue _storage, and only if the    *)
(* generation has not changed since the binding was asked for; a sign-out  *)
(* begins with the next generation.  Subjects stand for the accounts they  *)
(* are bound to.                                                           *)
(***************************************************************************)
EXTENDS Integers, Sequences, SequencesExt

CONSTANTS
  People,         \* identity subjects
  Calls,          \* calls in progress
  MaxGeneration,  \* bound: sign-outs
  NoOne

ASSUME SessionAssumption ==
  /\ MaxGeneration \in Nat
  /\ NoOne \notin [subject : People, fresh : BOOLEAN, late : BOOLEAN]

VARIABLES
  identity,    \* who is signed in with the identity provider
  binding,     \* the store: [subject, fresh, late] or NoOne
  generation,  \* _generation
  storage,     \* _storage: the calls whose write or clear is queued
  renewal,     \* _refresh: the call that renews for all, or NoOne
  call,
  signedOut    \* history: a sign-out began, with nobody signing in then or since

sessionVars == <<identity, binding, generation, storage, renewal, call, signedOut>>

(* opened: the generation in which _open began.  late is history: a        *)
(* sign-out began while the session was being opened.                      *)
Doing(phase, subject, opened) ==
  [phase |-> phase, subject |-> subject, opened |-> opened, late |-> FALSE]

Quiet == Doing("quiet", NoOne, 0)

SessionInit ==
  /\ identity = NoOne /\ binding = NoOne
  /\ generation = 0 /\ storage = <<>> /\ renewal = NoOne
  /\ call = [c \in Calls |-> Quiet]
  /\ signedOut = FALSE

Then(c, to) == call' = [call EXCEPT ![c] = to]

(* A finished renewal lets the next one begin. *)
Returns(c) == Then(c, Quiet) /\ renewal' = IF renewal = c THEN NoOne ELSE renewal

(* account(): a binding counts for the subject that is signed in. *)
Bound == identity # NoOne /\ binding # NoOne /\ binding.subject = identity

(* The application token comes near its end. *)
TokenAges ==
  /\ binding # NoOne /\ binding.fresh
  /\ binding' = [binding EXCEPT !.fresh = FALSE]
  /\ UNCHANGED <<identity, generation, storage, renewal, call, signedOut>>

(* signIn, register and restoreLegacy up to _open: the identity provider's *)
(* dialog, its token and the state of the account at the server.           *)
Enter(c, person) ==
  /\ call[c] = Quiet
  /\ \/ identity = NoOne /\ identity' = person
     \/ identity = person /\ UNCHANGED identity
  /\ signedOut' = FALSE
  /\ Then(c, Doing("token", person, 0))
  /\ UNCHANGED <<binding, generation, storage, renewal>>

(* accessToken with a token that must be renewed, when no renewal runs     *)
(* that it could wait for.                                                 *)
Renewal(c) ==
  /\ call[c] = Quiet /\ Bound /\ ~binding.fresh /\ renewal = NoOne
  /\ renewal' = c
  /\ Then(c, Doing("token", identity, 0))
  /\ UNCHANGED <<identity, binding, generation, storage, signedOut>>

(* identity.accessToken() has answered, also when the identity is being    *)
(* signed out: its sign-out waits for the exchange that is in progress     *)
(* (oidc_manager.dart, forgetUser).  _open notes the generation and asks.  *)
BeginOpen(c) ==
  /\ call[c].phase = "token"
  /\ Then(c, Doing("open", call[c].subject, generation))
  /\ UNCHANGED <<identity, binding, generation, storage, renewal, signedOut>>

(* No token, no answer, no such account. *)
OpenFails(c) ==
  /\ call[c].phase \in {"token", "open"}
  /\ Returns(c)
  /\ UNCHANGED <<identity, binding, generation, storage, signedOut>>

(* openAccountSession has answered. *)
Opened(c) ==
  /\ call[c].phase = "open"
  /\ IF call[c].opened # generation
     THEN Returns(c) /\ UNCHANGED storage
     ELSE /\ Then(c, [call[c] EXCEPT !.phase = "write"])
          /\ storage' = Append(storage, c)
          /\ UNCHANGED renewal
  /\ UNCHANGED <<identity, binding, generation, signedOut>>

(* The queue has come to the call. *)
Dequeued(c) == storage # <<>> /\ Head(storage) = c /\ storage' = Tail(storage)

(* The queued write compares the generation again. *)
WriteBinding(c) ==
  /\ call[c].phase = "write" /\ Dequeued(c)
  /\ binding' = IF call[c].opened = generation
                THEN [subject |-> call[c].subject, fresh |-> TRUE, late |-> call[c].late]
                ELSE binding
  /\ Returns(c)
  /\ UNCHANGED <<identity, generation, signedOut>>

(* A sign-out overtakes the sessions that are being opened. *)
Overtaken(c) ==
  [d \in Calls |->
     IF d = c THEN Doing("clear", NoOne, 0)
     ELSE [call[d] EXCEPT !.late = @ \/ call[d].phase \in {"open", "write"}]]

(* Mutant: sign-outs do not count. *)
SignOutUncounted(c) ==
  /\ call[c] = Quiet
  /\ call' = Overtaken(c) /\ storage' = Append(storage, c)
  /\ UNCHANGED <<identity, binding, generation, renewal, signedOut>>

(* signOut: the generation first, then the queue. *)
SignOutSession(c) ==
  /\ call[c] = Quiet /\ generation < MaxGeneration
  /\ generation' = generation + 1
  /\ signedOut' = \A d \in Calls \ {renewal} : call[d].phase \notin {"token", "open", "write"}
  /\ call' = Overtaken(c) /\ storage' = Append(storage, c)
  /\ UNCHANGED <<identity, binding, renewal>>

ClearBinding(c) ==
  /\ call[c].phase = "clear" /\ Dequeued(c)
  /\ binding' = NoOne
  /\ Then(c, Doing("leave", NoOne, 0))
  /\ UNCHANGED <<identity, generation, renewal, signedOut>>

(* identity.signOut, and the application session is revoked if it can be.  *)
LeaveIdentity(c) ==
  /\ call[c].phase = "leave"
  /\ identity' = NoOne
  /\ Then(c, Quiet)
  /\ UNCHANGED <<binding, generation, storage, renewal, signedOut>>

SessionCall(c) ==
  \/ \E person \in People : Enter(c, person)
  \/ Renewal(c) \/ BeginOpen(c) \/ OpenFails(c) \/ Opened(c) \/ WriteBinding(c)
  \/ SignOutSession(c) \/ ClearBinding(c) \/ LeaveIdentity(c)

SessionNext == TokenAges \/ \E c \in Calls : SessionCall(c)

SessionSpec == SessionInit /\ [][SessionNext]_sessionVars

-----------------------------------------------------------------------------
SessionTypeOK ==
  /\ identity \in People \cup {NoOne}
  /\ binding \in [subject : People, fresh : BOOLEAN, late : BOOLEAN] \cup {NoOne}
  /\ generation \in 0..MaxGeneration
  /\ storage \in Seq(Calls) /\ renewal \in Calls \cup {NoOne}
  /\ call \in [Calls -> [phase : {"quiet", "token", "open", "write", "clear", "leave"},
                         subject : People \cup {NoOne}, opened : 0..MaxGeneration,
                         late : BOOLEAN]]

(* A session that was being opened when a sign-out began may be stored     *)
(* before that sign-out empties the store, never after.                    *)
LateOpensDropped ==
  (binding # NoOne /\ binding.late) => \E c \in ToSet(storage) : call[c].phase = "clear"

(***************************************************************************)
(* "late renewal cannot restore a signed-out account" (packages/           *)
(* appbase_client/test/account_session_test.dart line 110) and "Local      *)
(* logout is complete" (account_session.dart line 178): once a sign-out is *)
(* over, and nobody has signed in since, there is no binding.              *)
(***************************************************************************)
SignedOutKeepsNoBinding ==
  (signedOut /\ \A c \in Calls : call[c].phase \notin {"clear", "leave"}) => binding = NoOne

=============================================================================
