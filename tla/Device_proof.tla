---------------------------- MODULE Device_proof ----------------------------
(***************************************************************************)
(* Theorems about the parts of a device: its application session           *)
(* (AccountSession.tla), its identity session (OidcSession.tla), the       *)
(* tokens of one grant (ResourceTokens.tla), the accounts of its database  *)
(* (LocalAccount.tla) and its billing page (BillingController.tla), for    *)
(* any number of calls, accounts, resources and edits.                     *)
(***************************************************************************)
EXTENDS MCDevice, TLAPS

-----------------------------------------------------------------------------
(* The application session (AccountSession.tla)                            *)

CallState == [phase : {"quiet", "token", "open", "write", "clear", "leave"},
              subject : People \cup {NoOne}, opened : Nat, late : BOOLEAN]

(* A session whose opening a sign-out has overtaken is of a generation     *)
(* that is over, and so it is not stored.                                  *)
OpeningOK(w) ==
  /\ w.opened <= generation
  /\ w.late /\ w.phase \in {"open", "write"} => w.opened < generation

SessionInv ==
  /\ identity \in People \cup {NoOne} /\ generation \in Nat
  /\ call \in [Calls -> CallState]
  /\ \A c \in Calls : OpeningOK(call[c])
  /\ binding # NoOne => ~binding.late

(* A call at rest. *)
LEMMA QuietOK == SessionInv => Quiet \in CallState /\ OpeningOK(Quiet)
BY DEF SessionInv, Quiet, Doing, CallState, OpeningOK

(* Nobody is signed in. *)
LEMMA SessionInvInit == SessionInit => SessionInv
<1> SUFFICES ASSUME SessionInit PROVE SessionInv
  OBVIOUS
<1>1. Quiet \in CallState /\ Quiet.opened = 0 /\ ~Quiet.late
  BY DEF Quiet, Doing, CallState
<1> QED
  BY <1>1 DEF SessionInit, SessionInv, OpeningOK

(* A call goes on in the same generation. *)
LEMMA SessionMoves ==
  ASSUME SessionInv, NEW c \in Calls, NEW w \in CallState, OpeningOK(w), Then(c, w),
         identity' \in People \cup {NoOne},
         generation' = generation, binding' # NoOne => ~binding'.late
  PROVE  SessionInv'
<1>1. call' \in [Calls -> CallState]
  BY DEF SessionInv, Then
<1>2. \A d \in Calls : OpeningOK(call'[d])
  BY DEF SessionInv, Then
<1>3. \A d \in Calls : OpeningOK(call[d])'
  BY <1>2 DEF OpeningOK
<1> QED
  BY <1>1, <1>3 DEF SessionInv

(* A call ends. *)
LEMMA SessionReturns ==
  ASSUME SessionInv, NEW c \in Calls, Then(c, Quiet),
         identity' \in People \cup {NoOne},
         generation' = generation, binding' # NoOne => ~binding'.late
  PROVE  SessionInv'
BY QuietOK, SessionMoves

(* The inductive step. *)
LEMMA SessionStep == SessionInv /\ [SessionNext]_sessionVars => SessionInv'
<1> SUFFICES ASSUME SessionInv, [SessionNext]_sessionVars PROVE SessionInv'
  OBVIOUS
<1>0. /\ identity \in People \cup {NoOne} /\ generation \in Nat /\ (binding # NoOne => ~binding.late)
      /\ \A c \in Calls : call[c] \in CallState /\ OpeningOK(call[c])
  BY DEF SessionInv
<1>1. CASE TokenAges
  <2>1. /\ binding # NoOne /\ binding' = [binding EXCEPT !.fresh = FALSE]
        /\ UNCHANGED <<generation, call, identity>>
    BY <1>1 DEF TokenAges
  <2>2. binding'.late = binding.late \/ binding' = NoOne
    BY <2>1
  <2>3. binding' # NoOne => ~binding'.late
    BY <1>0, <2>1, <2>2
  <2> QED
    BY <2>1, <2>3 DEF SessionInv, OpeningOK
<1>2. ASSUME NEW c \in Calls, NEW person \in People \cup {NoOne}, Then(c, Doing("token", person, 0)),
             identity' \in People \cup {NoOne}, UNCHANGED <<generation, binding>>
      PROVE  SessionInv'
  <2> DEFINE w == Doing("token", person, 0)
  <2>1. w \in CallState /\ w.opened = 0 /\ ~w.late
    BY DEF Doing, CallState
  <2> HIDE DEF w
  <2>2. OpeningOK(w)
    BY <1>0, <2>1 DEF OpeningOK
  <2> QED
    BY <1>0, <1>2, <2>1, <2>2, SessionMoves DEF w
<1>3. ASSUME NEW c \in Calls, Renewal(c) \/ \E person \in People : Enter(c, person)
      PROVE  SessionInv'
  BY <1>0, <1>2, <1>3 DEF Renewal, Enter
<1>4. ASSUME NEW c \in Calls, BeginOpen(c) PROVE SessionInv'
  <2> DEFINE w == Doing("open", call[c].subject, generation)
  <2>1. w \in CallState /\ w.opened = generation /\ ~w.late
    BY <1>0 DEF Doing, CallState
  <2>2. Then(c, w) /\ UNCHANGED <<generation, binding, identity>>
    BY <1>4 DEF BeginOpen
  <2> HIDE DEF w
  <2>3. OpeningOK(w)
    BY <1>0, <2>1 DEF OpeningOK
  <2> QED
    BY <1>0, <2>1, <2>2, <2>3, SessionMoves
<1>5. ASSUME NEW c \in Calls, OpenFails(c) PROVE SessionInv'
  BY <1>0, <1>5, SessionReturns DEF OpenFails, Returns
<1>6. ASSUME NEW c \in Calls, Opened(c) PROVE SessionInv'
  <2> DEFINE w == [call[c] EXCEPT !.phase = "write"]
  <2>0. UNCHANGED <<generation, binding, identity>>
    BY <1>6 DEF Opened
  <2>1. CASE call[c].opened # generation
    BY <1>0, <1>6, <2>0, <2>1, SessionReturns DEF Opened, Returns
  <2>2. CASE call[c].opened = generation
    <3>1. /\ w \in CallState /\ w.phase = "write" /\ w.opened = call[c].opened
          /\ w.late = call[c].late
      BY <1>0 DEF CallState
    <3>2. Then(c, w) /\ call[c].phase = "open"
      BY <1>6, <2>2 DEF Opened
    <3> HIDE DEF w
    <3>3. OpeningOK(w)
      BY <1>0, <3>1, <3>2 DEF OpeningOK
    <3> QED
      BY <1>0, <2>0, <3>1, <3>2, <3>3, SessionMoves
  <2> QED
    BY <2>1, <2>2
<1>7. ASSUME NEW c \in Calls, WriteBinding(c) PROVE SessionInv'
  <2>0. Then(c, Quiet) /\ UNCHANGED <<generation, identity>> /\ call[c].phase = "write"
    BY <1>7 DEF WriteBinding, Returns
  <2>1. ASSUME call[c].opened = generation
        PROVE  ~binding'.late
    <3>1. ~call[c].late
      BY <1>0, <2>0, <2>1 DEF OpeningOK, CallState
    <3> QED
      BY <1>7, <2>1, <3>1 DEF WriteBinding
  <2>2. call[c].opened # generation => binding' = binding
    BY <1>7 DEF WriteBinding
  <2> QED
    BY <1>0, <2>0, <2>1, <2>2, SessionReturns
<1>8. ASSUME NEW c \in Calls, SignOutSession(c) PROVE SessionInv'
  <2>0. /\ generation' = generation + 1 /\ call' = Overtaken(c)
        /\ UNCHANGED <<identity, binding>>
    BY <1>8 DEF SignOutSession
  <2>1. ASSUME NEW d \in Calls PROVE (call[d] \in CallState /\ OpeningOK(call[d]))'
    <3>1. CASE d = c
      <4> DEFINE w == Doing("clear", NoOne, 0)
      <4>1. w \in CallState /\ w.opened = 0 /\ ~w.late
        BY DEF Doing, CallState
      <4>2. call'[d] = w
        BY <2>0, <3>1 DEF Overtaken
      <4> HIDE DEF w
      <4> QED
        BY <1>0, <2>0, <4>1, <4>2 DEF OpeningOK, CallState
    <3>2. CASE d # c
      <4> DEFINE l == call[d].late \/ call[d].phase \in {"open", "write"}
                 w == [call[d] EXCEPT !.late = l]
      <4>1. l \in BOOLEAN
        BY <1>0 DEF CallState
      <4>2. call'[d] = w
        BY <2>0, <3>2 DEF Overtaken
      <4> HIDE DEF l
      <4>3. w \in CallState /\ w.opened = call[d].opened /\ w.opened \in Nat
        BY <1>0, <4>1 DEF CallState
      <4>4. w.opened <= generation
        BY <1>0, <4>3 DEF OpeningOK
      <4> HIDE DEF w
      <4> QED
        BY <1>0, <2>0, <4>2, <4>3, <4>4 DEF OpeningOK, CallState
    <3> QED
      BY <3>1, <3>2
  <2>2. call' \in [Calls -> CallState]
    BY <2>0, <2>1 DEF Overtaken, CallState
  <2> QED
    BY <1>0, <2>0, <2>1, <2>2 DEF SessionInv
<1>9. ASSUME NEW c \in Calls, ClearBinding(c) PROVE SessionInv'
  <2> DEFINE w == Doing("leave", NoOne, 0)
  <2>1. w \in CallState /\ w.opened = 0 /\ ~w.late
    BY DEF Doing, CallState
  <2>2. Then(c, w) /\ UNCHANGED <<generation, identity>> /\ binding' = NoOne
    BY <1>9 DEF ClearBinding
  <2> HIDE DEF w
  <2>3. OpeningOK(w)
    BY <1>0, <2>1 DEF OpeningOK
  <2> QED
    BY <1>0, <2>1, <2>2, <2>3, SessionMoves
<1>10. ASSUME NEW c \in Calls, LeaveIdentity(c) PROVE SessionInv'
  BY <1>0, <1>10, SessionReturns DEF LeaveIdentity
<1>11. CASE UNCHANGED sessionVars
  BY <1>11 DEF sessionVars, SessionInv, OpeningOK
<1> QED
  BY <1>1, <1>3, <1>4, <1>5, <1>6, <1>7, <1>8, <1>9, <1>10, <1>11 DEF SessionNext, SessionCall

(***************************************************************************)
(* account_session.dart, _open and signOut: a session whose opening a      *)
(* sign-out has overtaken is not stored, because the generation is         *)
(* compared again when the queue has come to it; so nothing such is left   *)
(* after the sign-out has emptied the store.                               *)
(***************************************************************************)
THEOREM OvertakenOpensAreDropped == SessionSpec => []LateOpensDropped
<1>1. SessionInv => LateOpensDropped
  BY DEF SessionInv, LateOpensDropped
<1>2. SessionSpec => []SessionInv
  BY SessionInvInit, SessionStep, PTL DEF SessionSpec
<1> QED
  BY <1>1, <1>2, PTL

(* No call awaits the identity's token once a sign-out has begun. *)
NoTokenAwaited == signedOut => \A c \in Calls : call[c].phase # "token"

(* After a sign-out began, what is being opened is of an older generation, *)
(* and a binding that is left is about to be cleared. *)
SignedOutInv ==
  signedOut =>
    /\ \A c \in Calls : call[c].phase \in {"open", "write"} => call[c].opened < generation
    /\ binding # NoOne => \E c \in Calls : call[c].phase = "clear"

(* The inductive step, of behaviours where that is so. *)
LEMMA SignedOutStep ==
  ASSUME SessionInv, SignedOutInv, NoTokenAwaited, [SessionNext]_sessionVars
  PROVE  SignedOutInv'
<1>0. /\ generation \in Nat
      /\ \A c \in Calls : /\ call[c] \in CallState
                          /\ call[c].opened \in Nat /\ call[c].opened <= generation
      /\ call \in [Calls -> CallState]
  BY DEF SessionInv, OpeningOK, CallState
<1>1. CASE TokenAges \/ UNCHANGED sessionVars
  BY <1>1 DEF TokenAges, sessionVars, SignedOutInv
<1>2. ASSUME NEW c \in Calls, NEW person \in People, Enter(c, person) PROVE SignedOutInv'
  BY <1>2 DEF Enter, SignedOutInv
<1>3. ASSUME NEW c \in Calls, NEW w, Then(c, w), call[c].phase # "clear",
             w.phase \in {"open", "write"} => call[c].phase = "open" /\ w.opened = call[c].opened,
             UNCHANGED <<generation, binding, signedOut>>
      PROVE  SignedOutInv'
  <2>1. \A d \in Calls : call'[d] = IF d = c THEN w ELSE call[d]
    BY <1>0, <1>3 DEF Then
  <2> QED
    BY <1>3, <2>1 DEF SignedOutInv
<1>4. Quiet.phase = "quiet"
  BY DEF Quiet, Doing
<1>5. ASSUME NEW c \in Calls, Renewal(c) PROVE SignedOutInv'
  <2> DEFINE w == Doing("token", identity, 0)
  <2>1. Then(c, w) /\ call[c] = Quiet /\ UNCHANGED <<generation, binding, signedOut>>
    BY <1>5 DEF Renewal
  <2>2. w.phase = "token"
    BY DEF Doing
  <2> HIDE DEF w
  <2> QED
    BY <1>3, <1>4, <2>1, <2>2
<1>6. ASSUME NEW c \in Calls, BeginOpen(c) PROVE SignedOutInv'
  BY <1>6 DEF BeginOpen, NoTokenAwaited, SignedOutInv
<1>7. ASSUME NEW c \in Calls, OpenFails(c) \/ LeaveIdentity(c) PROVE SignedOutInv'
  BY <1>3, <1>4, <1>7 DEF OpenFails, LeaveIdentity, Returns
<1>8. ASSUME NEW c \in Calls, Opened(c) PROVE SignedOutInv'
  <2> DEFINE w == [call[c] EXCEPT !.phase = "write"]
  <2>1. call[c].phase = "open" /\ UNCHANGED <<generation, binding, signedOut>>
    BY <1>8 DEF Opened
  <2>2. Then(c, Quiet) \/ Then(c, w)
    BY <1>8 DEF Opened, Returns
  <2>3. w.opened = call[c].opened
    BY <1>0 DEF CallState
  <2> HIDE DEF w
  <2> QED
    BY <1>3, <1>4, <2>1, <2>2, <2>3
<1>9. ASSUME NEW c \in Calls, WriteBinding(c) PROVE SignedOutInv'
  <2>1. call[c].phase = "write" /\ Then(c, Quiet) /\ UNCHANGED <<generation, signedOut>>
    BY <1>9 DEF WriteBinding, Returns
  <2>2. signedOut => binding' = binding
    BY <1>0, <1>9, <2>1 DEF WriteBinding, SignedOutInv
  <2>3. CASE signedOut
    BY <1>3, <1>4, <2>1, <2>2, <2>3
  <2>4. CASE ~signedOut
    BY <2>1, <2>4 DEF SignedOutInv
  <2> QED
    BY <2>3, <2>4
<1>10. ASSUME NEW c \in Calls, SignOutSession(c) PROVE SignedOutInv'
  <2>1. generation' = generation + 1 /\ call' = Overtaken(c)
    BY <1>10 DEF SignOutSession
  <2>2. call'[c].phase = "clear"
    BY <2>1 DEF Overtaken, Doing
  <2>3. ASSUME NEW d \in Calls, call'[d].phase \in {"open", "write"}
        PROVE  call'[d].opened < generation'
    <3>1. d # c
      BY <2>2, <2>3
    <3> DEFINE l == call[d].late \/ call[d].phase \in {"open", "write"}
    <3>2. call'[d] = [call[d] EXCEPT !.late = l]
      BY <2>1, <3>1 DEF Overtaken
    <3> HIDE DEF l
    <3>3. call'[d].opened = call[d].opened
      BY <1>0, <3>2 DEF CallState
    <3> QED
      BY <1>0, <2>1, <3>3
  <2> QED
    BY <2>2, <2>3 DEF SignedOutInv
<1>11. ASSUME NEW c \in Calls, ClearBinding(c) PROVE SignedOutInv'
  <2> DEFINE w == Doing("leave", NoOne, 0)
  <2>1. binding' = NoOne /\ Then(c, w) /\ UNCHANGED <<generation, signedOut>>
    BY <1>11 DEF ClearBinding
  <2>2. w.phase = "leave"
    BY DEF Doing
  <2> HIDE DEF w
  <2>3. \A d \in Calls : call'[d] = IF d = c THEN w ELSE call[d]
    BY <1>0, <2>1 DEF Then
  <2> QED
    BY <2>1, <2>2, <2>3 DEF SignedOutInv
<1> QED
  BY <1>1, <1>2, <1>5, <1>6, <1>7, <1>8, <1>9, <1>10, <1>11 DEF SessionNext, SessionCall

(***************************************************************************)
(* account_session.dart, signOut: a device that is signed out keeps no     *)
(* token, unless a call had asked the identity for its token before the    *)
(* sign-out emptied the store and noted the generation after.  There is    *)
(* no other way to the violation that the run of this property shows.      *)
(***************************************************************************)
THEOREM SignOutEmptiesTheStore ==
  SessionSpec /\ []NoTokenAwaited => []SignedOutKeepsNoBinding
<1>1. SessionInit => SignedOutInv
  BY DEF SessionInit, SignedOutInv
<1>2. SessionInv /\ SignedOutInv /\ NoTokenAwaited /\ [SessionNext]_sessionVars => SignedOutInv'
  BY SignedOutStep
<1>3. SignedOutInv => SignedOutKeepsNoBinding
  BY DEF SignedOutInv, SignedOutKeepsNoBinding
<1> QED
  BY <1>1, <1>2, <1>3, SessionInvInit, SessionStep, PTL DEF SessionSpec

(* Whoever opens a session does so for a subject. *)
SessionTypes ==
  /\ SessionTypeOK
  /\ \A c \in Calls : call[c].phase \in {"token", "open", "write"} => call[c].subject \in People

CallType == [phase : {"quiet", "token", "open", "write", "clear", "leave"},
             subject : People \cup {NoOne}, opened : 0..MaxGeneration, late : BOOLEAN]

BindingType == [subject : People, fresh : BOOLEAN, late : BOOLEAN]

(* The parts, taken apart once. *)
LEMMA SessionParts ==
  ASSUME SessionTypes
  PROVE  /\ identity \in People \cup {NoOne} /\ binding \in BindingType \cup {NoOne}
         /\ generation \in 0..MaxGeneration /\ MaxGeneration \in Nat
         /\ storage \in Seq(Calls) /\ renewal \in Calls \cup {NoOne}
         /\ call \in [Calls -> CallType]
         /\ \A c \in Calls :
              /\ call[c] \in CallType
              /\ call[c].phase \in {"token", "open", "write"} => call[c].subject \in People
BY SessionAssumption DEF SessionTypes, SessionTypeOK, CallType, BindingType

(* A call goes on: of the rest of the state only the types matter. *)
LEMMA SessionTypesMove ==
  ASSUME SessionTypes, NEW c \in Calls, NEW w \in CallType, Then(c, w),
         w.phase \in {"token", "open", "write"} => w.subject \in People,
         identity' \in People \cup {NoOne}, binding' \in BindingType \cup {NoOne},
         generation' = generation, storage' \in Seq(Calls), renewal' \in Calls \cup {NoOne}
  PROVE  SessionTypes'
<1>1. call' \in [Calls -> CallType]
  BY SessionParts DEF Then
<1>2. \A d \in Calls : call'[d].phase \in {"token", "open", "write"} => call'[d].subject \in People
  BY SessionParts DEF Then
<1> QED
  BY <1>1, <1>2, SessionParts DEF SessionTypes, SessionTypeOK, CallType, BindingType

(* Nobody is signed in. *)
LEMMA SessionTypesInit == SessionInit => SessionTypes
<1> SUFFICES ASSUME SessionInit PROVE SessionTypes
  OBVIOUS
<1>1. Quiet \in CallType /\ Quiet.phase = "quiet"
  BY SessionAssumption DEF Quiet, Doing, CallType
<1>2. storage \in Seq(Calls) /\ 0 \in 0..MaxGeneration
  BY SessionAssumption DEF SessionInit
<1> QED
  BY <1>1, <1>2 DEF SessionInit, SessionTypes, SessionTypeOK, CallType

(* The inductive step. *)
LEMMA SessionTypesStep == SessionTypes /\ [SessionNext]_sessionVars => SessionTypes'
<1> SUFFICES ASSUME SessionTypes, [SessionNext]_sessionVars PROVE SessionTypes'
  OBVIOUS
<1>0. /\ identity \in People \cup {NoOne} /\ binding \in BindingType \cup {NoOne}
      /\ generation \in 0..MaxGeneration /\ MaxGeneration \in Nat
      /\ storage \in Seq(Calls) /\ renewal \in Calls \cup {NoOne}
      /\ call \in [Calls -> CallType]
      /\ \A c \in Calls :
           /\ call[c] \in CallType
           /\ call[c].phase \in {"token", "open", "write"} => call[c].subject \in People
  BY SessionParts
<1>a. \A n \in 0..MaxGeneration, p \in People \cup {NoOne} :
        /\ Doing("token", p, 0) \in CallType /\ Doing("open", p, n) \in CallType
        /\ Doing("clear", NoOne, 0) \in CallType /\ Doing("leave", NoOne, 0) \in CallType
        /\ Doing("token", p, 0).subject = p /\ Doing("open", p, n).subject = p
        /\ Doing("clear", NoOne, 0).phase = "clear" /\ Doing("leave", NoOne, 0).phase = "leave"
        /\ Quiet \in CallType /\ Quiet.phase = "quiet"
  BY <1>0 DEF Doing, Quiet, CallType
<1>b. \A c \in Calls : Returns(c) => Then(c, Quiet) /\ renewal' \in Calls \cup {NoOne}
  BY <1>0 DEF Returns
<1>c. \A c \in Calls : Dequeued(c) => storage' \in Seq(Calls)
  BY <1>0 DEF Dequeued
<1>1. CASE TokenAges
  <2>1. binding' \in BindingType
    BY <1>0, <1>1 DEF TokenAges, BindingType
  <2> QED
    BY <1>0, <1>1, <2>1 DEF TokenAges, SessionTypes, SessionTypeOK, BindingType
<1>2. ASSUME NEW c \in Calls, NEW person \in People, Enter(c, person) PROVE SessionTypes'
  <2> DEFINE w == Doing("token", person, 0)
  <2>1. w \in CallType /\ w.subject \in People
    BY <1>0, <1>a
  <2>2. Then(c, w) /\ identity' \in People \cup {NoOne} /\ UNCHANGED <<binding, generation, storage, renewal>>
    BY <1>0, <1>2 DEF Enter
  <2> HIDE DEF w
  <2> QED
    BY <1>0, <2>1, <2>2, SessionTypesMove
<1>3. ASSUME NEW c \in Calls, Renewal(c) PROVE SessionTypes'
  <2> DEFINE w == Doing("token", identity, 0)
  <2>1. w \in CallType /\ w.subject \in People
    BY <1>0, <1>3, <1>a DEF Renewal, Bound
  <2>2. Then(c, w) /\ renewal' = c /\ UNCHANGED <<identity, binding, generation, storage>>
    BY <1>3 DEF Renewal
  <2> HIDE DEF w
  <2> QED
    BY <1>0, <2>1, <2>2, SessionTypesMove
<1>4. ASSUME NEW c \in Calls, BeginOpen(c) PROVE SessionTypes'
  <2> DEFINE w == Doing("open", call[c].subject, generation)
  <2>1. w \in CallType /\ w.subject \in People
    BY <1>0, <1>4, <1>a DEF BeginOpen
  <2>2. Then(c, w) /\ UNCHANGED <<identity, binding, generation, storage, renewal>>
    BY <1>4 DEF BeginOpen
  <2> HIDE DEF w
  <2> QED
    BY <1>0, <2>1, <2>2, SessionTypesMove
<1>5. ASSUME NEW c \in Calls, OpenFails(c) PROVE SessionTypes'
  BY <1>0, <1>5, <1>a, <1>b, SessionTypesMove DEF OpenFails
<1>6. ASSUME NEW c \in Calls, Opened(c) PROVE SessionTypes'
  <2> DEFINE w == [call[c] EXCEPT !.phase = "write"]
  <2>0. UNCHANGED <<identity, binding, generation>>
    BY <1>6 DEF Opened
  <2>1. CASE call[c].opened # generation
    BY <1>0, <1>6, <1>a, <1>b, <2>0, <2>1, SessionTypesMove DEF Opened
  <2>2. CASE call[c].opened = generation
    <3>1. w \in CallType /\ w.subject = call[c].subject
      BY <1>0 DEF CallType
    <3>2. Then(c, w) /\ call[c].phase = "open" /\ storage' = Append(storage, c) /\ renewal' = renewal
      BY <1>6, <2>2 DEF Opened
    <3>3. storage' \in Seq(Calls)
      BY <1>0, <3>2
    <3> HIDE DEF w
    <3> QED
      BY <1>0, <2>0, <3>1, <3>2, <3>3, SessionTypesMove
  <2> QED
    BY <2>1, <2>2
<1>7. ASSUME NEW c \in Calls, WriteBinding(c) PROVE SessionTypes'
  <2>1. /\ Returns(c) /\ Dequeued(c) /\ call[c].phase = "write" /\ UNCHANGED <<identity, generation>>
        /\ binding' = IF call[c].opened = generation
                      THEN [subject |-> call[c].subject, fresh |-> TRUE, late |-> call[c].late]
                      ELSE binding
    BY <1>7 DEF WriteBinding
  <2>2. binding' \in BindingType \cup {NoOne}
    BY <1>0, <2>1 DEF BindingType, CallType
  <2> QED
    BY <1>0, <1>a, <1>b, <1>c, <2>1, <2>2, SessionTypesMove
<1>8. ASSUME NEW c \in Calls, SignOutSession(c) PROVE SessionTypes'
  <2>0. /\ generation' = generation + 1 /\ generation < MaxGeneration /\ call' = Overtaken(c)
        /\ storage' = Append(storage, c) /\ UNCHANGED <<identity, binding, renewal>>
    BY <1>8 DEF SignOutSession
  <2>1. ASSUME NEW d \in Calls
        PROVE  /\ call'[d] \in CallType
               /\ call'[d].phase \in {"token", "open", "write"} => call'[d].subject \in People
    <3>1. CASE d = c
      BY <1>0, <2>0, <3>1 DEF Overtaken, Doing, CallType
    <3>2. CASE d # c
      <4>1. \A l \in BOOLEAN : LET w == [call[d] EXCEPT !.late = l]
                               IN  w \in CallType /\ w.phase = call[d].phase /\ w.subject = call[d].subject
        BY <1>0 DEF CallType
      <4>2. (call[d].late \/ call[d].phase \in {"open", "write"}) \in BOOLEAN
        BY <1>0 DEF CallType
      <4>3. call'[d] = [call[d] EXCEPT !.late = (call[d].late \/ call[d].phase \in {"open", "write"})]
        BY <2>0, <3>2 DEF Overtaken
      <4> QED
        BY <1>0, <4>1, <4>2, <4>3
    <3> QED
      BY <3>1, <3>2
  <2>2. call' \in [Calls -> CallType]
    BY <2>0, <2>1 DEF Overtaken
  <2>3. storage' \in Seq(Calls) /\ generation' \in 0..MaxGeneration
    BY <1>0, <2>0
  <2> QED
    BY <1>0, <2>0, <2>1, <2>2, <2>3 DEF SessionTypes, SessionTypeOK, CallType, BindingType
<1>9. ASSUME NEW c \in Calls, ClearBinding(c) PROVE SessionTypes'
  <2> DEFINE w == Doing("leave", NoOne, 0)
  <2>1. w \in CallType /\ w.phase = "leave"
    BY <1>0, <1>a
  <2>2. Then(c, w) /\ Dequeued(c) /\ binding' = NoOne /\ UNCHANGED <<identity, generation, renewal>>
    BY <1>9 DEF ClearBinding
  <2> HIDE DEF w
  <2> QED
    BY <1>0, <1>c, <2>1, <2>2, SessionTypesMove
<1>10. ASSUME NEW c \in Calls, LeaveIdentity(c) PROVE SessionTypes'
  BY <1>0, <1>10, <1>a, SessionTypesMove DEF LeaveIdentity
<1>11. CASE UNCHANGED sessionVars
  BY <1>11 DEF sessionVars, SessionTypes, SessionTypeOK
<1> QED
  BY <1>1, <1>2, <1>3, <1>4, <1>5, <1>6, <1>7, <1>8, <1>9, <1>10, <1>11 DEF SessionNext, SessionCall

-----------------------------------------------------------------------------
(* The identity session (OidcSession.tla)                                  *)

(* The exchange of the manager in use is the one it knows of, those that a *)
(* deadline has given up cannot save, and a sign-out belongs to the        *)
(* manager in use and waits for its exchange, or for nothing any more.     *)
TaskOK(c, w) ==
  /\ w.manager <= manager
  /\ w.phase = "refresh" /\ MaySave(w.manager) => refresh = c
  /\ live /\ refresh = c => w.phase = "refresh"
  /\ w.phase = "late" => ~MaySave(w.manager)
  /\ w.phase = "forget" /\ live => w.manager = manager /\ refresh = w.awaits
  /\ w.phase = "forget" /\ ~live /\ ~closed => w.awaits = NoTask

OidcInv ==
  /\ OidcTypeOK
  /\ NotRevived
  /\ live => ~closed
  /\ live /\ (user # "none" \/ refresh # NoTask) => entered
  /\ \A c \in Tasks : TaskOK(c, task[c])

TaskState == [phase : {"quiet", "login", "refresh", "late", "forget"},
              manager : 0..MaxManagers, awaits : Tasks \cup {NoTask}]

(* The types of the parts, taken apart once. *)
LEMMA OidcTypes ==
  ASSUME OidcInv
  PROVE  /\ {stored, live, closed, entered} \subseteq BOOLEAN
         /\ user \in Ages \cup {"none"} /\ manager \in 0..MaxManagers /\ manager \in Nat
         /\ refresh \in Tasks \cup {NoTask}
         /\ NoTask \notin Tasks
         /\ task \in [Tasks -> TaskState]
         /\ \A c \in Tasks : task[c] \in TaskState /\ task[c].manager \in Nat /\ TaskOK(c, task[c])
<1>1. OidcTypeOK /\ \A c \in Tasks : TaskOK(c, task[c])
  BY DEF OidcInv
<1>2. task \in [Tasks -> TaskState] /\ manager \in 0..MaxManagers
  BY <1>1 DEF OidcTypeOK, TaskState
<1>3. \A c \in Tasks : task[c].manager \in 0..MaxManagers
  BY <1>2 DEF TaskState
<1> QED
  BY <1>1, <1>2, <1>3, OidcAssumption DEF OidcTypeOK

(* A call goes on, and those that waited for it do. *)
LEMMA ProceedsParts ==
  ASSUME OidcInv, NEW c \in Tasks, NEW next \in TaskState, Proceeds(c, next)
  PROVE  /\ task' \in [Tasks -> TaskState]
         /\ \A d \in Tasks :
              /\ task'[d].phase = IF d = c THEN next.phase ELSE task[d].phase
              /\ task'[d].manager = IF d = c THEN next.manager ELSE task[d].manager
              /\ task'[d].awaits = IF d = c THEN next.awaits
                                   ELSE IF task[d].awaits = c THEN NoTask ELSE task[d].awaits
<1>1. \A d \in Tasks : task[d] \in TaskState
  BY OidcTypes
<1>2. \A w \in TaskState : LET v == [w EXCEPT !.awaits = NoTask]
                           IN  /\ v \in TaskState /\ v.phase = w.phase
                               /\ v.manager = w.manager /\ v.awaits = NoTask
  BY DEF TaskState
<1>3. task' = [d \in Tasks |-> IF d = c THEN next
                               ELSE IF task[d].awaits = c THEN [task[d] EXCEPT !.awaits = NoTask]
                               ELSE task[d]]
  BY DEF Proceeds
<1>4. ASSUME NEW d \in Tasks
      PROVE  /\ task'[d] \in TaskState
             /\ task'[d].phase = IF d = c THEN next.phase ELSE task[d].phase
             /\ task'[d].manager = IF d = c THEN next.manager ELSE task[d].manager
             /\ task'[d].awaits = IF d = c THEN next.awaits
                                  ELSE IF task[d].awaits = c THEN NoTask ELSE task[d].awaits
  <2>1. CASE d = c
    BY <1>3, <2>1
  <2>2. CASE d # c /\ task[d].awaits = c
    BY <1>1, <1>2, <1>3, <2>2
  <2>3. CASE d # c /\ task[d].awaits # c
    BY <1>1, <1>3, <2>3
  <2> QED
    BY <2>1, <2>2, <2>3
<1>5. task' \in [Tasks -> TaskState]
  BY <1>3, <1>4
<1> QED
  BY <1>4, <1>5

(* The calls at rest that a step may make. *)
LEMMA StepState ==
  ASSUME OidcInv
  PROVE  /\ NoStep \in TaskState /\ NoStep.phase = "quiet" /\ NoStep.manager = 0
         /\ \A to \in {"login", "refresh", "forget"}, awaits \in Tasks \cup {NoTask} :
              LET w == Step(to, manager, awaits)
              IN  w \in TaskState /\ w.phase = to /\ w.manager = manager /\ w.awaits = awaits
<1>1. manager \in 0..MaxManagers
  BY OidcTypes
<1> QED
  BY <1>1, OidcAssumption DEF NoStep, Step, TaskState

(* Nobody calls yet; what is stored is of an earlier sign-in. *)
LEMMA OidcInvInit == OidcInit => OidcInv
<1> SUFFICES ASSUME OidcInit PROVE OidcInv
  OBVIOUS
<1>1. NoStep.phase = "quiet" /\ NoStep.manager = 0 /\ NoStep \in TaskState
  BY OidcAssumption DEF NoStep, Step, TaskState
<1>2. OidcTypeOK
  BY <1>1, OidcAssumption DEF OidcInit, OidcTypeOK, TaskState
<1>3. \A c \in Tasks : TaskOK(c, task[c])
  BY <1>1 DEF OidcInit, TaskOK
<1> QED
  BY <1>2, <1>3 DEF OidcInit, OidcInv, NotRevived

(* A call begins: a sign-in, a refresh when none runs, or a sign-out that  *)
(* waits for the one that does.                                            *)
LEMMA OidcBegins ==
  ASSUME OidcInv, ~\E c \in Tasks : Clearing(c), NEW c \in Tasks,
         SignIn(c) \/ Refresh(c) \/ SignOut(c)
  PROVE  OidcInv'
<1>0. /\ task[c] = NoStep /\ live /\ UNCHANGED <<stored, user, manager, live, closed, entered>>
  BY DEF SignIn, Refresh, SignOut
<1>1. \A d \in Tasks : TaskOK(d, task[d]) /\ task[d] \in TaskState /\ task[d].manager \in Nat
  BY OidcTypes
<1>2. refresh # c
  BY <1>0, <1>1, StepState DEF TaskOK
<1>3. \A d \in Tasks : task[d].phase = "forget" => task[d].awaits # c /\ task[d].awaits # NoTask
  BY <1>0, <1>1, <1>2 DEF TaskOK, Clearing
<1>4. /\ refresh \in Tasks \cup {NoTask} /\ NoTask \notin Tasks /\ manager \in Nat
  BY OidcTypes
<1>5. PICK next \in TaskState :
        /\ Proceeds(c, next) /\ next.manager = manager
        /\ \/ next.phase = "login" /\ refresh' = refresh
           \/ next.phase = "forget" /\ next.awaits = refresh /\ refresh' = refresh
           \/ next.phase = "refresh" /\ refresh = NoTask /\ refresh' = c /\ user # "none"
  <2>1. CASE SignIn(c)
    BY <2>1, StepState DEF SignIn
  <2>2. CASE SignOut(c)
    BY <1>4, <2>2, StepState DEF SignOut
  <2>3. CASE Refresh(c)
    BY <2>3, StepState DEF Refresh
  <2> QED
    BY <2>1, <2>2, <2>3
<1>6. /\ task' \in [Tasks -> TaskState]
      /\ \A d \in Tasks :
           /\ task'[d].phase = IF d = c THEN next.phase ELSE task[d].phase
           /\ task'[d].manager = IF d = c THEN next.manager ELSE task[d].manager
           /\ task'[d].awaits = IF d = c THEN next.awaits
                                ELSE IF task[d].awaits = c THEN NoTask ELSE task[d].awaits
  BY <1>5, ProceedsParts
<1>7. OidcTypeOK'
  BY <1>0, <1>4, <1>5, <1>6 DEF OidcInv, OidcTypeOK, TaskState
<1>8. ASSUME NEW d \in Tasks PROVE TaskOK(d, task[d])'
  <2>1. CASE d = c
    BY <1>0, <1>2, <1>4, <1>5, <1>6, <2>1 DEF TaskOK, MaySave
  <2>2. CASE d # c
    BY <1>0, <1>1, <1>3, <1>4, <1>5, <1>6, <2>2 DEF TaskOK, MaySave
  <2> QED
    BY <2>1, <2>2
<1>9. (live /\ (user # "none" \/ refresh # NoTask) => entered)'
  BY <1>0, <1>5 DEF OidcInv
<1> QED
  BY <1>0, <1>7, <1>8, <1>9 DEF OidcInv, NotRevived

(* A call ends, with whatever it changed that is allowed. *)
LEMMA OidcEnds ==
  ASSUME OidcInv, NEW c \in Tasks, Ends(c), UNCHANGED <<manager, live, closed>>,
         {stored', entered'} \subseteq BOOLEAN, user' \in Ages \cup {"none"},
         stored' => entered',
         live /\ (user' # "none" \/ refresh' # NoTask) => entered'
  PROVE  OidcInv'
<1>1. Proceeds(c, NoStep) /\ refresh' = IF refresh = c THEN NoTask ELSE refresh
  BY DEF Ends
<1>2. \A d \in Tasks : TaskOK(d, task[d]) /\ task[d] \in TaskState /\ task[d].manager \in Nat
  BY OidcTypes
<1>3. /\ refresh \in Tasks \cup {NoTask} /\ NoTask \notin Tasks /\ manager \in Nat
  BY OidcTypes
<1>4. /\ task' \in [Tasks -> TaskState]
      /\ \A d \in Tasks :
           /\ task'[d].phase = IF d = c THEN "quiet" ELSE task[d].phase
           /\ task'[d].manager = IF d = c THEN 0 ELSE task[d].manager
           /\ d # c => task'[d].awaits = IF task[d].awaits = c THEN NoTask ELSE task[d].awaits
  BY <1>1, ProceedsParts, StepState
<1>5. OidcTypeOK'
  BY <1>1, <1>3, <1>4 DEF OidcInv, OidcTypeOK, TaskState
<1>6. ASSUME NEW d \in Tasks PROVE TaskOK(d, task[d])'
  <2>1. CASE d = c
    BY <1>1, <1>3, <1>4, <2>1 DEF TaskOK, MaySave
  <2>2. CASE d # c
    BY <1>1, <1>2, <1>3, <1>4, <2>2 DEF TaskOK, MaySave
  <2> QED
    BY <2>1, <2>2
<1> QED
  BY <1>5, <1>6 DEF OidcInv, NotRevived

(* The tokens have come, or the grant is withdrawn, or nothing came. *)
LEMMA OidcAnswers ==
  ASSUME OidcInv, NEW c \in Tasks, Answered(c) \/ Refused(c) \/ Failed(c)
  PROVE  OidcInv'
<1>0. /\ Ends(c) /\ UNCHANGED <<manager, live, closed>>
      /\ refresh' # NoTask => refresh # NoTask
  BY DEF Answered, Refused, Failed, Ends
<1>1. /\ {stored, live, closed, entered} \subseteq BOOLEAN /\ user \in Ages \cup {"none"}
      /\ NoTask \notin Tasks /\ TaskOK(c, task[c])
  BY OidcTypes
<1>2. /\ stored => entered
      /\ live /\ (user # "none" \/ refresh # NoTask) => entered
  BY DEF OidcInv, NotRevived
<1>3. CASE UNCHANGED <<stored, user, entered>>
  BY <1>0, <1>1, <1>2, <1>3, OidcEnds
<1>4. CASE Answered(c) /\ MaySave(task[c].manager)
  <2>1. entered' /\ entered' \in BOOLEAN
    <3>1. CASE task[c].phase = "login"
      BY <1>4, <3>1 DEF Answered
    <3>2. CASE task[c].phase = "refresh"
      <4>1. entered
        BY <1>1, <1>2, <1>4, <3>2 DEF TaskOK, MaySave
      <4> QED
        BY <1>4, <4>1 DEF Answered
    <3> QED
      BY <1>1, <1>4, <3>1, <3>2 DEF Answered, TaskOK
  <2>2. stored' \in BOOLEAN /\ user' \in Ages \cup {"none"}
    BY <1>1, <1>4 DEF Answered, Ages
  <2> QED
    BY <1>0, <2>1, <2>2, OidcEnds
<1>5. CASE Refused(c)
  <2>1. refresh' = NoTask
    BY <1>1, <1>5 DEF Refused, TaskOK, Ends
  <2> QED
    BY <1>0, <1>1, <1>5, <2>1, OidcEnds DEF Refused
<1> QED
  BY <1>3, <1>4, <1>5 DEF Answered, Failed

(* A deadline retires the manager and with it what its calls waited for. *)
LEMMA OidcTimesOut == ASSUME OidcInv, NEW c \in Tasks, TimesOut(c) PROVE OidcInv'
<1>0. /\ live' = FALSE /\ refresh' = NoTask /\ UNCHANGED <<stored, user, manager, closed, entered>>
      /\ task' = [d \in Tasks |->
           IF d = c THEN [task[c] EXCEPT !.phase = "late"]
           ELSE IF task[d].phase \in {"login", "refresh"} THEN NoStep
           ELSE [task[d] EXCEPT !.awaits = NoTask]]
  BY DEF TimesOut
<1>1. \A d \in Tasks : TaskOK(d, task[d]) /\ task[d] \in TaskState /\ task[d].manager \in Nat
  BY OidcTypes
<1>2. manager \in Nat /\ NoTask \notin Tasks
  BY OidcTypes
<1>3. ASSUME NEW d \in Tasks
      PROVE  /\ task'[d] \in TaskState
             /\ task'[d].manager \in {0, task[d].manager}
             /\ task'[d].phase = "forget" => task'[d].awaits = NoTask
  <2>1. CASE d = c
    BY <1>0, <1>1, <2>1 DEF TaskState
  <2>2. CASE d # c /\ task[d].phase \in {"login", "refresh"}
    BY <1>0, <2>2, StepState
  <2>3. CASE d # c /\ task[d].phase \notin {"login", "refresh"}
    BY <1>0, <1>1, <2>3 DEF TaskState
  <2> QED
    BY <2>1, <2>2, <2>3
<1>4. task' \in [Tasks -> TaskState]
  BY <1>0, <1>3
<1>5. OidcTypeOK'
  BY <1>0, <1>4 DEF OidcInv, OidcTypeOK, TaskState
<1>6. ASSUME NEW d \in Tasks PROVE TaskOK(d, task[d])'
  <2>1. task[d].manager <= manager
    BY <1>1 DEF TaskOK
  <2>2. task'[d].manager \in {0, task[d].manager} /\ manager' = manager
    BY <1>0, <1>3
  <2>3. task'[d].manager <= manager'
    BY <1>2, <2>1, <2>2
  <2> QED
    BY <1>0, <1>3, <2>3 DEF TaskOK, MaySave
<1> QED
  BY <1>0, <1>5, <1>6 DEF OidcInv, NotRevived

(* A sign-out forgets, once it waits for nothing. *)
LEMMA OidcForgets == ASSUME OidcInv, NEW c \in Tasks, Forgets(c) PROVE OidcInv'
<1>0. /\ task[c].phase = "forget" /\ task[c].awaits = NoTask /\ Proceeds(c, NoStep)
      /\ UNCHANGED <<manager, live, refresh, closed>>
  BY DEF Forgets, Clearing
<1>1. \A d \in Tasks : TaskOK(d, task[d]) /\ task[d] \in TaskState /\ task[d].manager \in Nat
  BY OidcTypes
<1>2. /\ refresh \in Tasks \cup {NoTask} /\ NoTask \notin Tasks /\ manager \in Nat
      /\ {stored, live, closed, entered} \subseteq BOOLEAN /\ user \in Ages \cup {"none"}
  BY OidcTypes
<1>3. live => MaySave(task[c].manager) /\ refresh = NoTask
  BY <1>0, <1>1 DEF TaskOK, MaySave
<1>4. /\ task' \in [Tasks -> TaskState]
      /\ \A d \in Tasks :
           /\ task'[d].phase = IF d = c THEN "quiet" ELSE task[d].phase
           /\ task'[d].manager = IF d = c THEN 0 ELSE task[d].manager
           /\ d # c => task'[d].awaits = IF task[d].awaits = c THEN NoTask ELSE task[d].awaits
  BY <1>0, ProceedsParts, StepState
<1>5. {stored', entered'} \subseteq BOOLEAN /\ user' \in Ages \cup {"none"}
  BY <1>2 DEF Forgets
<1>9. manager' \in 0..MaxManagers /\ {live', closed'} \subseteq BOOLEAN
  BY <1>0, <1>2, OidcTypes
<1>10. refresh' \in Tasks \cup {NoTask}
  BY <1>0, <1>2
<1>6. OidcTypeOK'
  BY <1>4, <1>5, <1>9, <1>10 DEF OidcTypeOK, TaskState
<1>7. ASSUME NEW d \in Tasks PROVE TaskOK(d, task[d])'
  <2>1. CASE d = c
    BY <1>0, <1>2, <1>3, <1>4, <2>1 DEF TaskOK, MaySave
  <2>2. CASE d # c
    BY <1>0, <1>1, <1>2, <1>3, <1>4, <2>2 DEF TaskOK, MaySave
  <2> QED
    BY <2>1, <2>2
<1>8. /\ stored' => entered'
      /\ live' /\ (user' # "none" \/ refresh' # NoTask) => entered'
  BY <1>0, <1>3 DEF Forgets, OidcInv, NotRevived
<1> QED
  BY <1>0, <1>6, <1>7, <1>8 DEF OidcInv, NotRevived

(* A new manager loads what is stored, when nobody signs out. *)
LEMMA OidcInitializes ==
  ASSUME OidcInv, ~\E c \in Tasks : Clearing(c), Initializes
  PROVE  OidcInv'
<1>0. /\ ~live /\ ~closed /\ manager < MaxManagers /\ manager' = manager + 1 /\ live' = TRUE
      /\ refresh' = NoTask /\ user' \in IF stored THEN Ages ELSE {"none"}
      /\ UNCHANGED <<stored, task, closed, entered>>
  BY DEF Initializes
<1>1. \A d \in Tasks : TaskOK(d, task[d]) /\ task[d] \in TaskState /\ task[d].manager \in Nat
  BY OidcTypes
<1>2. manager \in 0..MaxManagers /\ manager \in Nat /\ NoTask \notin Tasks
      /\ {stored, live, closed, entered} \subseteq BOOLEAN
  BY OidcTypes
<1>3. \A d \in Tasks : task[d].phase # "forget"
  BY <1>0, <1>1 DEF TaskOK, Clearing
<1>4. \A d \in Tasks : task[d].manager <= manager' /\ task[d].manager # manager'
  BY <1>0, <1>1, <1>2 DEF TaskOK
<1>5. manager' \in 0..MaxManagers
  BY <1>0, <1>2, OidcAssumption
<1>6. OidcTypeOK'
  BY <1>0, <1>2, <1>5 DEF OidcInv, OidcTypeOK
<1>7. ASSUME NEW d \in Tasks PROVE TaskOK(d, task[d])'
  BY <1>0, <1>2, <1>3, <1>4 DEF TaskOK, MaySave
<1>8. (live /\ (user # "none" \/ refresh # NoTask) => entered)'
  BY <1>0 DEF OidcInv, NotRevived
<1> QED
  BY <1>0, <1>6, <1>7, <1>8 DEF OidcInv, NotRevived

(* The inductive step. *)
LEMMA OidcStep == OidcInv /\ [OidcNext]_oidcVars => OidcInv'
<1> SUFFICES ASSUME OidcInv, [OidcNext]_oidcVars PROVE OidcInv'
  OBVIOUS
<1>1. CASE UserTokenAges \/ Disposes
  <2>1. \A d \in Tasks : TaskOK(d, task[d])
    BY OidcTypes
  <2>2. /\ UNCHANGED <<stored, task, manager, entered>>
        /\ \/ UNCHANGED <<live, refresh, closed>> /\ user # "none" /\ user' \in Ages
           \/ closed' = TRUE /\ live' = FALSE /\ refresh' = NoTask /\ user' = user
    BY <1>1 DEF UserTokenAges, Disposes, Ages
  <2>3. OidcTypeOK'
    BY <2>2 DEF OidcInv, OidcTypeOK
  <2>4. \A d \in Tasks : TaskOK(d, task[d])'
    BY <2>1, <2>2 DEF TaskOK, MaySave
  <2> QED
    BY <2>2, <2>3, <2>4 DEF OidcInv, NotRevived
<1>2. CASE \E c \in Tasks : Clearing(c)
  BY <1>1, <1>2, OidcForgets
     DEF OidcNext, oidcVars, OidcInv, OidcTypeOK, NotRevived, TaskOK, MaySave
<1>3. CASE ~(\E c \in Tasks : Clearing(c)) /\ OidcNext
  BY <1>1, <1>3, OidcInitializes, OidcBegins, OidcAnswers, OidcTimesOut DEF OidcNext, OidcCall
<1>4. CASE UNCHANGED oidcVars
  BY <1>4 DEF oidcVars, OidcInv, OidcTypeOK, NotRevived, TaskOK, MaySave
<1> QED
  BY <1>2, <1>3, <1>4

(***************************************************************************)
(* oidc_manager.dart: however sign-ins, refreshes, deadlines and sign-outs *)
(* overlap, the device has credentials only since a sign-in with no        *)
(* sign-out after it: an answer that comes late cannot save, and a         *)
(* sign-out waits for the exchange that could.                             *)
(***************************************************************************)
THEOREM SessionIsNotRevived == OidcSpec => []NotRevived
<1>1. OidcInv => NotRevived
  BY DEF OidcInv
<1>2. OidcSpec => []OidcInv
  BY OidcInvInit, OidcStep, PTL DEF OidcSpec
<1> QED
  BY <1>1, <1>2, PTL

-----------------------------------------------------------------------------
(* The tokens of a grant (ResourceTokens.tla)                              *)

TokenSet == [of : Subjects, audience : Resources, usable : BOOLEAN]

(* The call at the head of the queue, and no other, takes part in the      *)
(* exchange that runs, which is for the resource it asked for.             *)
ExchangeOK ==
  IF exchange = Nobody THEN joined = {}
  ELSE /\ exchange \in [of : Subjects, resource : Resources]
       /\ tail # <<>> /\ joined = {Head(tail)} /\ held # Nobody
       /\ asks[Head(tail)] = exchange.resource

TokensInv ==
  /\ held \in TokenSet \cup {Nobody}
  /\ tokens \in [Resources -> TokenSet \cup {Nobody}]
  /\ asks \in [Askers -> Resources \cup {Nobody}]
  /\ tail \in Seq(Askers) /\ joined \subseteq Askers /\ signingOut \in BOOLEAN
  /\ \A k \in DOMAIN tail : asks[tail[k]] # Nobody
  /\ \A j, k \in DOMAIN tail : tail[j] = tail[k] => j = k
  /\ \A c \in Askers : asks[c] # Nobody => \E k \in DOMAIN tail : tail[k] = c
  /\ ExchangeOK

(* The parts, taken apart once. *)
LEMMA TokensParts ==
  ASSUME TokensInv
  PROVE  /\ held \in TokenSet \cup {Nobody}
         /\ tokens \in [Resources -> TokenSet \cup {Nobody}]
         /\ \A r \in Resources : tokens[r] \in TokenSet \cup {Nobody}
         /\ asks \in [Askers -> Resources \cup {Nobody}]
         /\ tail \in Seq(Askers) /\ joined \subseteq Askers /\ signingOut \in BOOLEAN
         /\ \A k \in DOMAIN tail : tail[k] \in Askers /\ asks[tail[k]] \in Resources /\ asks[tail[k]] # Nobody
         /\ \A j, k \in DOMAIN tail : tail[j] = tail[k] => j = k
         /\ \A c \in Askers : asks[c] # Nobody => \E k \in DOMAIN tail : tail[k] = c
         /\ tail # <<>> => Head(tail) \in Askers /\ asks[Head(tail)] \in Resources
         /\ Nobody \notin TokenSet /\ Nobody \notin Resources /\ TokenResource \in Resources
         /\ ExchangeOK
<1>1. tail \in Seq(Askers) /\ (\A k \in DOMAIN tail : asks[tail[k]] # Nobody)
      /\ asks \in [Askers -> Resources \cup {Nobody}]
  BY DEF TokensInv
<1>2. \A k \in DOMAIN tail : tail[k] \in Askers
  BY <1>1
<1>3. tail # <<>> => 1 \in DOMAIN tail /\ Head(tail) = tail[1]
  BY <1>1
<1>4. \A k \in DOMAIN tail : asks[tail[k]] \in Resources
  BY <1>1, <1>2
<1> QED
  BY <1>1, <1>2, <1>3, <1>4, TokensAssumption DEF TokensInv, TokenSet

(* A new token, and a token at its end. *)
LEMMA TokenMade ==
  /\ \A of \in Subjects, r \in Resources : Token(of, r) \in TokenSet /\ Token(of, r).audience = r
  /\ \A token \in TokenSet : LET ended == [token EXCEPT !.usable = FALSE]
                             IN  ended \in TokenSet /\ ended.audience = token.audience
BY DEF Token, TokenSet

(* Nobody has a token. *)
LEMMA TokensInvInit == TokensInit => TokensInv /\ TokensFitTheirResource
<1> SUFFICES ASSUME TokensInit PROVE TokensInv /\ TokensFitTheirResource
  OBVIOUS
<1>1. tail \in Seq(Askers) /\ DOMAIN tail = {}
  BY DEF TokensInit
<1> QED
  BY <1>1, TokensAssumption DEF TokensInit, TokensInv, ExchangeOK, TokensFitTheirResource

(* The manager's token goes where its audience says. *)
LEMMA RememberedFits ==
  ASSUME TokensInv
  PROVE  /\ Remembered \in [Resources -> TokenSet \cup {Nobody}]
         /\ TokensFitTheirResource =>
              \A r \in Resources : Remembered[r] # Nobody => Remembered[r].audience = r
<1>1. CASE held = Nobody
  BY <1>1, TokensParts DEF Remembered, TokensFitTheirResource
<1>2. CASE held # Nobody
  <2>1. held \in TokenSet /\ held.audience \in Resources
    BY <1>2, TokensParts DEF TokenSet
  <2> QED
    BY <1>2, <2>1, TokensParts DEF Remembered, TokensFitTheirResource
<1> QED
  BY <1>1, <1>2

(* The head of the queue leaves it, and the others wait for what they did. *)
LEMMA HeadReturns ==
  ASSUME TokensInv, tail # <<>>, Return({Head(tail)})
  PROVE  /\ tail' \in Seq(Askers)
         /\ asks' \in [Askers -> Resources \cup {Nobody}]
         /\ \A k \in DOMAIN tail' : asks'[tail'[k]] # Nobody
         /\ \A j, k \in DOMAIN tail' : tail'[j] = tail'[k] => j = k
         /\ \A c \in Askers : asks'[c] # Nobody => \E k \in DOMAIN tail' : tail'[k] = c
<1>0. /\ tail \in Seq(Askers) /\ asks \in [Askers -> Resources \cup {Nobody}]
      /\ \A k \in DOMAIN tail : tail[k] \in Askers /\ asks[tail[k]] # Nobody
      /\ \A j, k \in DOMAIN tail : tail[j] = tail[k] => j = k
      /\ \A c \in Askers : asks[c] # Nobody => \E k \in DOMAIN tail : tail[k] = c
  BY TokensParts
<1>1. /\ tail' = Tail(tail)
      /\ asks' = [c \in Askers |-> IF c = Head(tail) THEN Nobody ELSE asks[c]]
  BY DEF Return
<1>2. /\ Tail(tail) \in Seq(Askers) /\ 1 \in DOMAIN tail /\ Head(tail) = tail[1]
      /\ \A k \in DOMAIN Tail(tail) :
           k \in Nat /\ k + 1 \in DOMAIN tail /\ k + 1 # 1 /\ Tail(tail)[k] = tail[k + 1]
      /\ \A k \in DOMAIN tail : k # 1 => k - 1 \in DOMAIN Tail(tail) /\ Tail(tail)[k - 1] = tail[k]
  BY <1>0
<1>3. \A k \in DOMAIN tail' : tail'[k] \in Askers /\ tail'[k] # Head(tail) /\ asks[tail'[k]] # Nobody
  BY <1>0, <1>1, <1>2
<1>4. \A k \in DOMAIN tail' : asks'[tail'[k]] # Nobody
  BY <1>1, <1>3
<1>5. ASSUME NEW j \in DOMAIN tail', NEW k \in DOMAIN tail', tail'[j] = tail'[k] PROVE j = k
  <2>1. j + 1 = k + 1
    BY <1>0, <1>1, <1>2, <1>5
  <2> QED
    BY <1>1, <1>2, <2>1
<1>6. ASSUME NEW c \in Askers, asks'[c] # Nobody PROVE \E k \in DOMAIN tail' : tail'[k] = c
  <2>1. c # Head(tail) /\ asks[c] # Nobody
    BY <1>1, <1>6
  <2>2. PICK k \in DOMAIN tail : tail[k] = c
    BY <1>0, <2>1
  <2>3. k # 1
    BY <1>2, <2>1, <2>2
  <2> QED
    BY <1>1, <1>2, <2>2, <2>3
<1> QED
  BY <1>0, <1>1, <1>2, <1>4, <1>5, <1>6

(* The inductive step, whether or not the provider gives refresh tokens. *)
LEMMA TokensStep == TokensInv /\ [TokensNext]_resourceVars => TokensInv'
<1> SUFFICES ASSUME TokensInv, [TokensNext]_resourceVars PROVE TokensInv'
  OBVIOUS
<1>0. /\ held \in TokenSet \cup {Nobody}
      /\ tokens \in [Resources -> TokenSet \cup {Nobody}]
      /\ \A r \in Resources : tokens[r] \in TokenSet \cup {Nobody}
      /\ asks \in [Askers -> Resources \cup {Nobody}]
      /\ tail \in Seq(Askers) /\ joined \subseteq Askers /\ signingOut \in BOOLEAN
      /\ \A k \in DOMAIN tail : tail[k] \in Askers /\ asks[tail[k]] # Nobody
      /\ \A j, k \in DOMAIN tail : tail[j] = tail[k] => j = k
      /\ \A c \in Askers : asks[c] # Nobody => \E k \in DOMAIN tail : tail[k] = c
      /\ tail # <<>> => Head(tail) \in Askers /\ asks[Head(tail)] \in Resources
      /\ Nobody \notin TokenSet /\ Nobody \notin Resources /\ TokenResource \in Resources
      /\ ExchangeOK
  BY TokensParts
<1>1. ASSUME NEW p \in Subjects, GrantSignIn(p) PROVE TokensInv'
  <2>1. exchange = Nobody
    BY <1>0, <1>1 DEF ExchangeOK, GrantSignIn
  <2>2. /\ held' = Token(p, TokenResource) /\ tokens' = [tokens EXCEPT ![TokenResource] = held']
        /\ UNCHANGED <<tail, asks, exchange, joined, signingOut>>
    BY <1>1 DEF GrantSignIn
  <2>3. tokens' \in [Resources -> TokenSet \cup {Nobody}] /\ held' \in TokenSet
    BY <1>0, <2>2, TokenMade
  <2> QED
    BY <1>0, <2>1, <2>2, <2>3 DEF TokensInv, ExchangeOK
<1>2. ASSUME NEW token \in {held} \cup {tokens[r] : r \in Resources}, TokenEnds(token)
      PROVE  TokensInv'
  <2> DEFINE ended == [token EXCEPT !.usable = FALSE]
  <2>1. token \in TokenSet
    BY <1>0, <1>2 DEF TokenEnds, Usable
  <2>2. ended \in TokenSet
    BY <2>1, TokenMade
  <2>3. /\ held' = IF held = token THEN ended ELSE held
        /\ tokens' = [r \in Resources |-> IF tokens[r] = token THEN ended ELSE tokens[r]]
        /\ UNCHANGED <<tail, asks, exchange, joined, signingOut>>
    BY <1>2 DEF TokenEnds
  <2> HIDE DEF ended
  <2>4. /\ tokens' \in [Resources -> TokenSet \cup {Nobody}] /\ held' \in TokenSet \cup {Nobody}
        /\ held # Nobody => held' # Nobody
    BY <1>0, <2>1, <2>2, <2>3
  <2> QED
    BY <1>0, <2>3, <2>4 DEF TokensInv, ExchangeOK
<1>3. ASSUME NEW c \in Askers, NEW r \in Resources, AccessToken(c, r) PROVE TokensInv'
  <2>1. /\ asks[c] = Nobody /\ tokens' = Remembered /\ UNCHANGED <<held, exchange, joined, signingOut>>
        /\ \/ UNCHANGED <<tail, asks>>
           \/ tail' = Append(tail, c) /\ asks' = [asks EXCEPT ![c] = r]
    BY <1>3 DEF AccessToken
  <2>2. tokens' \in [Resources -> TokenSet \cup {Nobody}]
    BY <2>1, RememberedFits
  <2>3. CASE UNCHANGED <<tail, asks>>
    BY <1>0, <2>1, <2>2, <2>3 DEF TokensInv, ExchangeOK
  <2>4. CASE tail' = Append(tail, c) /\ asks' = [asks EXCEPT ![c] = r]
    <3>1. /\ tail' \in Seq(Askers) /\ DOMAIN tail' = 1..Len(tail) + 1 /\ DOMAIN tail = 1..Len(tail)
          /\ Len(tail) \in Nat /\ tail'[Len(tail) + 1] = c
          /\ \A k \in DOMAIN tail : tail'[k] = tail[k] /\ tail[k] # c
          /\ tail # <<>> => Head(tail') = Head(tail) /\ Head(tail) = tail[1] /\ 1 \in DOMAIN tail
          /\ tail' # <<>>
      BY <1>0, <2>1, <2>4
    <3>2. \A k \in DOMAIN tail' : k \in DOMAIN tail \/ k = Len(tail) + 1
      BY <3>1
    <3>3. \A k \in DOMAIN tail' : asks'[tail'[k]] # Nobody
      BY <1>0, <2>4, <3>1, <3>2
    <3>4. ASSUME NEW j \in DOMAIN tail', NEW k \in DOMAIN tail', tail'[j] = tail'[k] PROVE j = k
      BY <1>0, <3>1, <3>2, <3>4
    <3>5. asks' \in [Askers -> Resources \cup {Nobody}]
      BY <1>0, <2>4
    <3>6. ExchangeOK'
      BY <1>0, <2>1, <2>4, <3>1 DEF ExchangeOK
    <3>7. ASSUME NEW d \in Askers, asks'[d] # Nobody PROVE \E k \in DOMAIN tail' : tail'[k] = d
      <4>1. CASE d = c
        BY <3>1, <4>1
      <4>2. CASE d # c
        <5>1. asks[d] # Nobody
          BY <1>0, <2>4, <3>7, <4>2
        <5> QED
          BY <1>0, <3>1, <5>1
      <4> QED
        BY <4>1, <4>2
    <3> QED
      BY <1>0, <2>1, <2>2, <3>1, <3>3, <3>4, <3>5, <3>6, <3>7 DEF TokensInv
  <2> QED
    BY <2>1, <2>3, <2>4
<1>4. ASSUME NEW c \in Askers, Refreshes(c) PROVE TokensInv'
  <2>1. /\ tail # <<>> /\ Head(tail) = c /\ c \notin joined /\ UNCHANGED <<held, signingOut>>
    BY <1>4 DEF Refreshes, HasTurn
  <2>2. exchange = Nobody /\ joined = {}
    BY <1>0, <2>1 DEF ExchangeOK
  <2>3. CASE Return({c}) /\ UNCHANGED <<tokens, exchange, joined>>
    BY <1>0, <2>1, <2>2, <2>3, HeadReturns DEF TokensInv, ExchangeOK
  <2>4. CASE /\ held # Nobody /\ tokens' = Remembered /\ joined' = joined \cup {c}
             /\ exchange' = [of |-> held.of, resource |-> asks[c]]
             /\ UNCHANGED <<tail, asks>>
    <3>1. exchange' \in [of : Subjects, resource : Resources] /\ exchange'.resource = asks[c]
      BY <1>0, <2>1, <2>4 DEF TokenSet
    <3>2. ExchangeOK' /\ joined' \subseteq Askers
      BY <1>0, <2>1, <2>2, <2>4, <3>1, TokensAssumption DEF ExchangeOK
    <3>3. tokens' \in [Resources -> TokenSet \cup {Nobody}]
      BY <2>4, RememberedFits
    <3> QED
      BY <1>0, <2>1, <2>4, <3>2, <3>3 DEF TokensInv
  <2> QED
    BY <1>4, <2>2, <2>3, <2>4 DEF Refreshes
<1>5. CASE Exchanged
  <2> DEFINE got == IF RefreshGrants THEN Token(exchange.of, exchange.resource) ELSE held
  <2>1. /\ exchange # Nobody /\ exchange \in [of : Subjects, resource : Resources]
        /\ tail # <<>> /\ joined = {Head(tail)} /\ held # Nobody
    BY <1>0, <1>5 DEF Exchanged, ExchangeOK
  <2>2. /\ tokens' = [r \in Resources |-> IF \E c \in joined : asks[c] = r THEN got ELSE tokens[r]]
        /\ Return(joined) /\ joined' = {} /\ exchange' = Nobody /\ held' \in {Nobody, got}
        /\ signingOut' = FALSE
    BY <1>5 DEF Exchanged
  <2>3. got \in TokenSet
    BY <1>0, <2>1, TokenMade
  <2> HIDE DEF got
  <2>4. tokens' \in [Resources -> TokenSet \cup {Nobody}] /\ held' \in TokenSet \cup {Nobody}
    BY <1>0, <2>2, <2>3
  <2> QED
    BY <2>1, <2>2, <2>4, HeadReturns DEF TokensInv, ExchangeOK
<1>6. CASE ExchangeFails
  <2>1. tail # <<>> /\ joined = {Head(tail)}
    BY <1>0, <1>6 DEF ExchangeFails, ExchangeOK
  <2>2. /\ Return(joined) /\ joined' = {} /\ exchange' = Nobody /\ held' \in {held, Nobody}
        /\ tokens' = tokens /\ signingOut' = FALSE
    BY <1>6 DEF ExchangeFails
  <2> QED
    BY <1>0, <2>1, <2>2, HeadReturns DEF TokensInv, ExchangeOK
<1>7. CASE GrantSignOut
  <2>1. /\ tokens' = [r \in Resources |-> Nobody] /\ UNCHANGED <<tail, asks, exchange, joined>>
        /\ signingOut' \in BOOLEAN
        /\ \/ exchange = Nobody /\ held' = Nobody
           \/ exchange # Nobody /\ held' = held
    BY <1>0, <1>7 DEF GrantSignOut
  <2> QED
    BY <1>0, <2>1 DEF TokensInv, ExchangeOK
<1>8. CASE UNCHANGED resourceVars
  BY <1>8 DEF resourceVars, TokensInv, ExchangeOK
<1> QED
  BY <1>1, <1>2, <1>3, <1>4, <1>5, <1>6, <1>7, <1>8 DEF TokensNext

(* The step that files tokens, where the provider gives refresh tokens. *)
LEMMA TokensFitStep ==
  ASSUME RefreshGrants, TokensInv, TokensFitTheirResource, [TokensNext]_resourceVars
  PROVE  TokensFitTheirResource'
<1>0. /\ \A r \in Resources : /\ tokens[r] \in TokenSet \cup {Nobody}
                              /\ tokens[r] # Nobody => tokens[r].audience = r
      /\ tokens \in [Resources -> TokenSet \cup {Nobody}]
      /\ held \in TokenSet \cup {Nobody}
      /\ Nobody \notin TokenSet /\ TokenResource \in Resources
      /\ ExchangeOK
  BY TokensParts DEF TokensFitTheirResource
<1>1. ASSUME NEW p \in Subjects, GrantSignIn(p) PROVE TokensFitTheirResource'
  BY <1>0, <1>1, TokenMade DEF GrantSignIn, TokensFitTheirResource
<1>2. ASSUME NEW token \in {held} \cup {tokens[r] : r \in Resources}, TokenEnds(token)
      PROVE  TokensFitTheirResource'
  <2> DEFINE ended == [token EXCEPT !.usable = FALSE]
  <2>1. token \in TokenSet
    BY <1>0, <1>2 DEF TokenEnds, Usable
  <2>2. ended.audience = token.audience
    BY <2>1, TokenMade
  <2>3. tokens' = [r \in Resources |-> IF tokens[r] = token THEN ended ELSE tokens[r]]
    BY <1>2 DEF TokenEnds
  <2> HIDE DEF ended
  <2>4. ASSUME NEW r \in Resources, tokens'[r] # Nobody PROVE tokens'[r].audience = r
    <3>1. CASE tokens[r] = token
      <4>1. token.audience = r /\ tokens'[r] = ended
        BY <1>0, <2>1, <2>3, <3>1
      <4> QED
        BY <2>2, <4>1
    <3>2. CASE tokens[r] # token
      <4>1. tokens'[r] = tokens[r]
        BY <2>3, <3>2
      <4> QED
        BY <1>0, <2>4, <4>1
    <3> QED
      BY <3>1, <3>2
  <2> QED
    BY <2>4 DEF TokensFitTheirResource
<1>3. ASSUME tokens' \in {tokens, Remembered} PROVE TokensFitTheirResource'
  BY <1>0, <1>3, RememberedFits DEF TokensFitTheirResource
<1>4. ASSUME NEW c \in Askers, Refreshes(c) \/ \E r \in Resources : AccessToken(c, r)
      PROVE  TokensFitTheirResource'
  BY <1>3, <1>4 DEF Refreshes, AccessToken
<1>5. CASE Exchanged
  <2> DEFINE got == Token(exchange.of, exchange.resource)
  <2>1. /\ exchange \in [of : Subjects, resource : Resources]
        /\ joined = {Head(tail)} /\ asks[Head(tail)] = exchange.resource
    BY <1>0, <1>5 DEF Exchanged, ExchangeOK
  <2>2. tokens' = [r \in Resources |-> IF \E c \in joined : asks[c] = r THEN got ELSE tokens[r]]
    BY <1>5 DEF Exchanged
  <2>3. got.audience = exchange.resource
    BY <2>1, TokenMade
  <2> HIDE DEF got
  <2> QED
    BY <1>0, <2>1, <2>2, <2>3 DEF TokensFitTheirResource
<1>6. CASE GrantSignOut
  BY <1>6 DEF GrantSignOut, TokensFitTheirResource
<1>7. CASE ExchangeFails \/ UNCHANGED resourceVars
  BY <1>3, <1>7 DEF ExchangeFails, resourceVars
<1> QED
  BY <1>1, <1>2, <1>4, <1>5, <1>6, <1>7 DEF TokensNext

(***************************************************************************)
(* oidc_session.dart, _serializedRefresh: where the provider gives refresh *)
(* tokens, no interleaving of calls, sign-ins and sign-outs files a token  *)
(* under another resource than its own, because the call at the head of    *)
(* the queue is the only one that takes part in an exchange.               *)
(***************************************************************************)
THEOREM RefreshedTokensFit ==
  ASSUME RefreshGrants
  PROVE  TokensSpec => []TokensFitTheirResource
<1>1. TokensInv /\ TokensFitTheirResource /\ [TokensNext]_resourceVars =>
        (TokensInv /\ TokensFitTheirResource)'
  BY TokensStep, TokensFitStep
<1> QED
  BY <1>1, TokensInvInit, PTL DEF TokensSpec

(* The grant is left, or withdrawn, only while no exchange is running. *)
GrantEndsAlone ==
  [][(GrantSignOut => exchange = Nobody) /\ (ExchangeFails => held' = held)]_resourceVars

(* Nothing is left of a user who has gone, and an exchange is for the user *)
(* who is there. *)
UserInv ==
  /\ ~signingOut
  /\ held = Nobody => \A r \in Resources : tokens[r] = Nobody
  /\ exchange # Nobody => exchange.of = held.of
  /\ TokensOfTheUser

(* The user of a new token, and of a token at its end. *)
LEMMA TokenUser ==
  /\ \A of \in Subjects, r \in Resources : Token(of, r).of = of /\ Token(of, r) # Nobody
  /\ \A token \in TokenSet : [token EXCEPT !.usable = FALSE].of = token.of
<1>1. ASSUME NEW of \in Subjects, NEW r \in Resources PROVE Token(of, r).of = of /\ Token(of, r) # Nobody
  <2>1. Token(of, r) \in TokenSet
    BY TokenMade
  <2>2. Nobody \notin TokenSet
    BY TokensAssumption DEF TokenSet
  <2> QED
    BY <2>1, <2>2 DEF Token
<1>2. \A token \in TokenSet : [token EXCEPT !.usable = FALSE].of = token.of
  BY DEF TokenSet
<1> QED
  BY <1>1, <1>2

(* The inductive step, of behaviours where that is so. *)
LEMMA UserStep ==
  ASSUME TokensInv, UserInv, [TokensNext]_resourceVars,
         [(GrantSignOut => exchange = Nobody) /\ (ExchangeFails => held' = held)]_resourceVars
  PROVE  UserInv'
<1>0. /\ held \in TokenSet \cup {Nobody}
      /\ \A r \in Resources : tokens[r] \in TokenSet \cup {Nobody}
      /\ tokens \in [Resources -> TokenSet \cup {Nobody}]
      /\ Nobody \notin TokenSet /\ TokenResource \in Resources
      /\ ExchangeOK
  BY TokensParts
<1>u. /\ ~signingOut
      /\ held = Nobody => \A r \in Resources : tokens[r] = Nobody
      /\ exchange # Nobody => exchange.of = held.of /\ held # Nobody
      /\ \A r \in Resources : tokens[r] # Nobody => held # Nobody /\ tokens[r].of = held.of
  BY <1>0 DEF UserInv, TokensOfTheUser, ExchangeOK
<1>1. ASSUME NEW p \in Subjects, GrantSignIn(p) PROVE UserInv'
  <2>1. /\ held = Nobody /\ held' = Token(p, TokenResource)
        /\ tokens' = [tokens EXCEPT ![TokenResource] = held']
        /\ UNCHANGED <<exchange, signingOut>>
    BY <1>1 DEF GrantSignIn
  <2>2. held' # Nobody
    BY <1>0, <2>1, TokenUser
  <2>3. \A r \in Resources : tokens'[r] # Nobody => tokens'[r] = held'
    BY <1>0, <1>u, <2>1
  <2> QED
    BY <1>u, <2>1, <2>2, <2>3 DEF UserInv, TokensOfTheUser
<1>2. ASSUME NEW token \in {held} \cup {tokens[r] : r \in Resources}, TokenEnds(token)
      PROVE  UserInv'
  <2> DEFINE ended == [token EXCEPT !.usable = FALSE]
  <2>1. token \in TokenSet
    BY <1>0, <1>2 DEF TokenEnds, Usable
  <2>2. ended \in TokenSet /\ ended.of = token.of
    BY <2>1, TokenMade, TokenUser
  <2>3. /\ held' = IF held = token THEN ended ELSE held
        /\ tokens' = [r \in Resources |-> IF tokens[r] = token THEN ended ELSE tokens[r]]
        /\ UNCHANGED <<exchange, signingOut>>
    BY <1>2 DEF TokenEnds
  <2> HIDE DEF ended
  <2>4. /\ held' = Nobody <=> held = Nobody
        /\ held # Nobody => held'.of = held.of
    BY <1>0, <2>1, <2>2, <2>3
  <2>5. \A r \in Resources : /\ tokens'[r] = Nobody <=> tokens[r] = Nobody
                             /\ tokens[r] # Nobody => tokens'[r].of = tokens[r].of
    BY <1>0, <2>1, <2>2, <2>3
  <2> QED
    BY <1>u, <2>3, <2>4, <2>5 DEF UserInv, TokensOfTheUser
<1>3. ASSUME tokens' = Remembered, held # Nobody, UNCHANGED <<held, signingOut>>,
             exchange' # Nobody => exchange'.of = held.of
      PROVE  UserInv'
  <2>1. tokens' = [tokens EXCEPT ![held.audience] = held]
    BY <1>3 DEF Remembered
  <2>2. \A r \in Resources : tokens'[r] = tokens[r] \/ tokens'[r] = held
    BY <1>0, <2>1
  <2>3. \A r \in Resources : tokens'[r] # Nobody => tokens'[r].of = held.of
    BY <1>u, <2>2
  <2> QED
    BY <1>u, <1>3, <2>3 DEF UserInv, TokensOfTheUser
<1>4. ASSUME NEW c \in Askers, NEW r \in Resources, AccessToken(c, r) PROVE UserInv'
  BY <1>u, <1>3, <1>4 DEF AccessToken
<1>5. ASSUME NEW c \in Askers, Refreshes(c) PROVE UserInv'
  <2>1. CASE UNCHANGED <<tokens, exchange, held, signingOut>>
    BY <1>u, <2>1 DEF UserInv, TokensOfTheUser
  <2>2. CASE /\ held # Nobody /\ tokens' = Remembered /\ UNCHANGED <<held, signingOut>>
             /\ exchange' = IF exchange # Nobody THEN exchange
                            ELSE [of |-> held.of, resource |-> asks[c]]
    BY <1>u, <1>3, <2>2
  <2> QED
    BY <1>5, <2>1, <2>2 DEF Refreshes
<1>6. CASE Exchanged
  <2> DEFINE got == IF RefreshGrants THEN Token(exchange.of, exchange.resource) ELSE held
  <2>1. exchange # Nobody /\ exchange \in [of : Subjects, resource : Resources] /\ held # Nobody
    BY <1>0, <1>6 DEF Exchanged, ExchangeOK
  <2>2. got.of = held.of /\ got # Nobody
    BY <1>u, <2>1, TokenUser
  <2>3. /\ tokens' = [r \in Resources |-> IF \E c \in joined : asks[c] = r THEN got ELSE tokens[r]]
        /\ exchange' = Nobody /\ held' = got /\ signingOut' = FALSE
    BY <1>u, <1>6 DEF Exchanged
  <2> HIDE DEF got
  <2> QED
    BY <1>u, <2>1, <2>2, <2>3 DEF UserInv, TokensOfTheUser
<1>7. CASE ExchangeFails
  <2>1. exchange # Nobody /\ exchange' = Nobody /\ tokens' = tokens /\ signingOut' = FALSE
    BY <1>7 DEF ExchangeFails
  <2>2. held' = held
    BY <1>7, <2>1 DEF resourceVars
  <2> QED
    BY <1>u, <2>1, <2>2 DEF UserInv, TokensOfTheUser
<1>8. CASE GrantSignOut
  <2>1. held # Nobody /\ tokens' = [r \in Resources |-> Nobody] /\ UNCHANGED exchange
    BY <1>8 DEF GrantSignOut
  <2>2. exchange = Nobody \/ UNCHANGED resourceVars
    BY <1>8
  <2>3. CASE exchange = Nobody
    BY <1>u, <1>8, <2>1, <2>3 DEF GrantSignOut, UserInv, TokensOfTheUser
  <2>4. CASE UNCHANGED resourceVars
    BY <2>4 DEF resourceVars, UserInv, TokensOfTheUser
  <2> QED
    BY <2>2, <2>3, <2>4
<1>9. CASE UNCHANGED resourceVars
  BY <1>9 DEF resourceVars, UserInv, TokensOfTheUser
<1> QED
  BY <1>1, <1>2, <1>4, <1>5, <1>6, <1>7, <1>8, <1>9 DEF TokensNext

(***************************************************************************)
(* oidc_session.dart, signOut and _serializedRefresh: the tokens that are  *)
(* kept are the user's who is signed in, unless a sign-out overlaps an     *)
(* exchange or an exchange ends with the grant withdrawn.  There is no     *)
(* third way to the violation that the run of this property shows.         *)
(***************************************************************************)
THEOREM TokensAreTheUsers == TokensSpec /\ GrantEndsAlone => []TokensOfTheUser
<1>1. TokensInit => UserInv
  BY DEF TokensInit, UserInv, TokensOfTheUser
<1>2. /\ TokensInv /\ UserInv /\ [TokensNext]_resourceVars
      /\ [(GrantSignOut => exchange = Nobody) /\ (ExchangeFails => held' = held)]_resourceVars
      => UserInv'
  BY UserStep
<1>3. UserInv => TokensOfTheUser
  BY DEF UserInv
<1>4. TokensInit => TokensInv
  BY TokensInvInit
<1> QED
  BY <1>1, <1>2, <1>3, <1>4, TokensStep, PTL DEF TokensSpec, GrantEndsAlone

(* The rest of the types. *)
LEMMA TokensTyped == TokensInv => TokensTypeOK
<1> SUFFICES ASSUME TokensInv PROVE TokensTypeOK
  OBVIOUS
<1>1. /\ tail \in Seq(Askers)
      /\ \A k \in DOMAIN tail : tail[k] \in Askers /\ asks[tail[k]] # Nobody
      /\ \A j, k \in DOMAIN tail : tail[j] = tail[k] => j = k
      /\ \A c \in Askers : asks[c] # Nobody => \E k \in DOMAIN tail : tail[k] = c
  BY TokensParts
<1>2. IsInjective(tail)
  BY <1>1 DEF IsInjective
<1>3. ToSet(tail) = {c \in Askers : asks[c] # Nobody}
  BY <1>1 DEF ToSet
<1>4. exchange \in [of : Subjects, resource : Resources] \cup {Nobody}
  BY DEF TokensInv, ExchangeOK
<1> QED
  BY <1>2, <1>3, <1>4 DEF TokensInv, TokensTypeOK, TokenSet

-----------------------------------------------------------------------------
(* The accounts of the database (LocalAccount.tla)                         *)

WorkPhases == {"save", "activate", "pull", "erase", "clear", "purge", "leave"}
USE DEF WorkPhases

(* A task that does something to an account has one, and has fenced it     *)
(* before it empties its rows. *)
LocalTaskOK(t) ==
  /\ DOMAIN t = {"phase", "account", "next"}
  /\ t.phase \in WorkPhases => t.account \in Accounts
  /\ t.phase \in {"clear", "purge"} => t.account \in fenced

LocalInv ==
  /\ session \in Accounts \cup {NoAccount}
  /\ DOMAIN row = Accounts /\ DOMAIN outbox = Accounts
  /\ erased \subseteq fenced /\ erased \subseteq Accounts
  /\ LocalTaskOK(run) /\ LocalTaskOK(ui)
  /\ ErasedStaysEmpty

(* A task that rests, and one that begins. *)
LEMMA LocalTaskBegins ==
  /\ LocalTaskOK(Idle)
  /\ \A to \in {"dialog", "await", "awaiterase"} : \A a, n : LocalTaskOK(Task(to, a, n))
  /\ \A to \in {"save", "activate", "leave", "erase"}, a \in Accounts : \A n :
       LocalTaskOK(Task(to, a, n))
BY DEF Idle, Task, LocalTaskOK

(* Nobody has been erased. *)
LEMMA LocalInvInit == LocalInit => LocalInv
BY LocalTaskBegins DEF LocalInit, LocalInv, ErasedStaysEmpty

(* A task goes on to another phase. *)
LEMMA LocalTaskMoves ==
  ASSUME NEW t, LocalTaskOK(t), t.account \in Accounts,
         NEW to \in {"pull", "erase", "leave"}
  PROVE  LocalTaskOK([t EXCEPT !.phase = to])
BY DEF LocalTaskOK

(* What a run and a call have in common keeps the fences over the erased,  *)
(* and the erased accounts empty.                                          *)
LEMMA LocalTaskActs ==
  ASSUME LocalInv, NEW t, NEW u, LocalTaskOK(t), NEW then \in {"idle", "pull"},
         \/ fenced' = fenced /\ session' = session /\ (Deactivates(t, u) \/ Activates(t, u, then))
         \/ Erases(t, u)
  PROVE  /\ session' \in Accounts \cup {NoAccount}
         /\ DOMAIN row' = Accounts /\ DOMAIN outbox' = Accounts
         /\ fenced \subseteq fenced'
         /\ erased' \subseteq fenced' /\ erased' \subseteq Accounts
         /\ DOMAIN u = {"phase", "account", "next"}
         /\ u.phase \in WorkPhases => u.account \in Accounts
         /\ u.phase \in {"clear", "purge"} => u.account \in fenced'
         /\ ErasedStaysEmpty'
<1> DEFINE w(to) == [t EXCEPT !.phase = to]
<1>0. /\ session \in Accounts \cup {NoAccount}
      /\ DOMAIN row = Accounts /\ DOMAIN outbox = Accounts
      /\ erased \subseteq fenced /\ erased \subseteq Accounts
      /\ \A a \in erased : outbox[a] = {} /\ row[a] = NoRow
      /\ DOMAIN t = {"phase", "account", "next"}
      /\ t.phase \in WorkPhases => t.account \in Accounts
      /\ t.phase \in {"clear", "purge"} => t.account \in fenced
  BY DEF LocalInv, ErasedStaysEmpty, LocalTaskOK
<1>1. \A to : /\ DOMAIN w(to) = DOMAIN t /\ w(to).account = t.account
              /\ w(to).phase = to
  BY <1>0
<1>2. \A to, a, n : LET v == Task(to, a, n)
                    IN  DOMAIN v = {"phase", "account", "next"} /\ v.phase = to /\ v.account = a
  BY DEF Task
<1>3. CASE fenced' = fenced /\ session' = session /\ Deactivates(t, u)
  <2>1. PICK n : u = Task("activate", t.account, n)
    BY <1>3 DEF Deactivates
  <2>2. t.phase = "save" /\ UNCHANGED <<row, outbox, erased>>
    BY <1>3 DEF Deactivates
  <2> QED
    BY <1>0, <1>2, <1>3, <2>1, <2>2 DEF ErasedStaysEmpty
<1>4. CASE fenced' = fenced /\ session' = session /\ Activates(t, u, then)
  <2>1. /\ t.phase = "activate" /\ u \in {Idle, w(then)}
        /\ row' = [row EXCEPT ![t.account] = t.next]
        /\ erased' = erased \ {t.account} /\ UNCHANGED outbox
    BY <1>4 DEF Activates
  <2>2. /\ DOMAIN u = {"phase", "account", "next"} /\ u.phase \in {"idle", "pull"}
        /\ u.phase = "pull" => u.account = t.account
    BY <1>0, <1>1, <1>2, <2>1 DEF Idle
  <2> HIDE DEF w
  <2>3. ErasedStaysEmpty'
    BY <1>0, <2>1 DEF ErasedStaysEmpty
  <2> QED
    BY <1>0, <1>4, <2>1, <2>2, <2>3
<1>5. CASE Fences(t, u) \/ ErasesProjection(t, u)
  <2>1. /\ \/ t.phase = "erase" /\ u = w("clear") /\ fenced' = fenced \cup {t.account}
           \/ t.phase = "clear" /\ u = w("purge") /\ fenced' = fenced
        /\ UNCHANGED <<row, outbox, session, erased>>
    BY <1>5 DEF Fences, ErasesProjection, database, history
  <2> HIDE DEF w
  <2> QED
    BY <1>0, <1>1, <2>1 DEF ErasedStaysEmpty
<1>6. CASE ErasesRows(t, u)
  <2>1. /\ t.phase = "purge" /\ u = w("leave") /\ UNCHANGED <<fenced, session>>
        /\ outbox' = [outbox EXCEPT ![t.account] = {}]
        /\ row' = [row EXCEPT ![t.account] = NoRow]
        /\ erased' = erased \cup {t.account}
    BY <1>6 DEF ErasesRows
  <2> HIDE DEF w
  <2>2. ErasedStaysEmpty'
    BY <1>0, <2>1 DEF ErasedStaysEmpty
  <2> QED
    BY <1>0, <1>1, <2>1, <2>2
<1>7. CASE EndsSession(t, u)
  <2>1. /\ u = Idle /\ session' = NoAccount /\ UNCHANGED <<row, outbox, fenced, erased>>
    BY <1>7 DEF EndsSession, database, history
  <2> QED
    BY <1>0, <1>2, <2>1 DEF Idle, ErasedStaysEmpty
<1> QED
  BY <1>3, <1>4, <1>5, <1>6, <1>7 DEF Erases

(* Both tasks together. *)
LEMMA LocalSteps ==
  ASSUME LocalInv, session' \in Accounts \cup {NoAccount},
         DOMAIN row' = Accounts, DOMAIN outbox' = Accounts,
         fenced \subseteq fenced', erased' \subseteq fenced', erased' \subseteq Accounts,
         ErasedStaysEmpty', run' = run \/ LocalTaskOK(run)', ui' = ui \/ LocalTaskOK(ui)'
  PROVE  LocalInv'
BY DEF LocalInv, LocalTaskOK

(* The run. *)
LEMMA LocalRunStep == ASSUME LocalInv, RunStep PROVE LocalInv'
<1>0. /\ session \in Accounts \cup {NoAccount}
      /\ DOMAIN row = Accounts /\ DOMAIN outbox = Accounts
      /\ erased \subseteq fenced /\ erased \subseteq Accounts
      /\ \A a \in erased : outbox[a] = {} /\ row[a] = NoRow
      /\ LocalTaskOK(run)
  BY DEF LocalInv, ErasedStaysEmpty
<1>1. CASE RunStarts
  <2>1. LocalTaskOK(run')
    BY <1>0, <1>1, LocalTaskBegins DEF RunStarts
  <2>2. UNCHANGED <<session, row, outbox, fenced, ui, erased>>
    BY <1>1 DEF RunStarts, database, memory, history
  <2> QED
    BY <1>0, <2>1, <2>2, LocalSteps DEF ErasedStaysEmpty, LocalTaskOK
<1>2. CASE RunSaves
  <2>1. UNCHANGED <<session, fenced, ui>> /\ (Deactivates(run, run') \/ Activates(run, run', "pull"))
    BY <1>2 DEF RunSaves, memory
  <2> QED
    BY <1>0, <2>1, LocalTaskActs, LocalSteps DEF LocalTaskOK
<1>3. CASE RunPulls
  <2>1. /\ run.phase = "pull" /\ run' = [run EXCEPT !.next = run.next + 1]
        /\ row' = IF row[run.account] = NoRow THEN row
                  ELSE [row EXCEPT ![run.account] = run.next + 1]
        /\ UNCHANGED <<session, outbox, fenced, ui, erased>>
    BY <1>3 DEF RunPulls, memory, history
  <2>2. LocalTaskOK(run)'
    BY <1>0, <2>1 DEF LocalTaskOK
  <2>3. DOMAIN row' = Accounts /\ ErasedStaysEmpty'
    BY <1>0, <2>1 DEF ErasedStaysEmpty
  <2> QED
    BY <1>0, <2>1, <2>2, <2>3, LocalSteps
<1>4. CASE RunAcknowledges
  <2>1. PICK pushed \in (SUBSET outbox[run.account]) \ {{}} :
          outbox' = [outbox EXCEPT ![run.account] = @ \ pushed]
    BY <1>4 DEF RunAcknowledges
  <2>2. UNCHANGED <<session, row, fenced, run, ui, erased>>
    BY <1>4 DEF RunAcknowledges, memory, history
  <2>3. DOMAIN outbox' = Accounts /\ ErasedStaysEmpty'
    BY <1>0, <2>1, <2>2 DEF ErasedStaysEmpty
  <2> QED
    BY <1>0, <2>2, <2>3, LocalSteps
<1>5. CASE RunStops \/ RunRefused
  <2>1. UNCHANGED <<session, row, outbox, fenced, ui, erased>>
    BY <1>5 DEF RunStops, RunRefused, database, memory, history
  <2>2. LocalTaskOK(run')
    <3>1. CASE RunStops
      BY <3>1, LocalTaskBegins DEF RunStops
    <3>2. CASE RunRefused
      <4>1. run.phase = "pull" /\ run' = [run EXCEPT !.phase = "erase"]
        BY <3>2 DEF RunRefused
      <4>2. run.account \in Accounts
        BY <1>0, <4>1 DEF LocalTaskOK
      <4> QED
        BY <1>0, <4>1, <4>2, LocalTaskMoves
    <3> QED
      BY <1>5, <3>1, <3>2
  <2> QED
    BY <1>0, <2>1, <2>2, LocalSteps DEF ErasedStaysEmpty, LocalTaskOK
<1>6. CASE RunErases
  <2>1. ui' = ui /\ Erases(run, run')
    BY <1>6 DEF RunErases
  <2> QED
    BY <1>0, <2>1, LocalTaskActs, LocalSteps DEF LocalTaskOK
<1> QED
  BY <1>1, <1>2, <1>3, <1>4, <1>5, <1>6 DEF RunStep

(* The user interface. *)
LEMMA LocalUiStep == ASSUME LocalInv, UiStep PROVE LocalInv'
<1>0. /\ session \in Accounts \cup {NoAccount}
      /\ DOMAIN row = Accounts /\ DOMAIN outbox = Accounts
      /\ erased \subseteq fenced /\ erased \subseteq Accounts
      /\ \A a \in erased : outbox[a] = {} /\ row[a] = NoRow
      /\ LocalTaskOK(ui)
  BY DEF LocalInv, ErasedStaysEmpty
<1>1. CASE \/ Restores \/ SignsIn \/ (\E a \in Accounts : Enters(a))
           \/ Leaves \/ RunOver \/ CallFails
  <2>1. UNCHANGED <<row, outbox, fenced, run, erased>> /\ session' \in Accounts \cup {NoAccount}
    BY <1>0, <1>1 DEF Restores, SignsIn, Enters, Leaves, RunOver, CallFails, database, memory, history
  <2>2. LocalTaskOK(ui')
    <3>1. CASE Restores \/ SignsIn \/ Leaves \/ CallFails
      BY <1>0, <3>1, LocalTaskBegins DEF Restores, SignsIn, Leaves, CallFails
    <3>2. CASE \E a \in Accounts : Enters(a)
      BY <3>2, LocalTaskBegins DEF Enters
    <3>3. CASE RunOver
      BY <1>0, <3>3, LocalTaskBegins DEF RunOver
    <3> QED
      BY <1>1, <3>1, <3>2, <3>3
  <2> QED
    BY <1>0, <2>1, <2>2, LocalSteps DEF ErasedStaysEmpty, LocalTaskOK
<1>2. CASE CallSaves
  <2>1. UNCHANGED <<session, fenced, run>> /\ (Deactivates(ui, ui') \/ Activates(ui, ui', "idle"))
    BY <1>2 DEF CallSaves, memory
  <2> QED
    BY <1>0, <2>1, LocalTaskActs, LocalSteps DEF LocalTaskOK
<1>3. CASE CallErases
  <2>1. run' = run /\ Erases(ui, ui')
    BY <1>3 DEF CallErases
  <2> QED
    BY <1>0, <2>1, LocalTaskActs, LocalSteps DEF LocalTaskOK
<1> QED
  BY <1>1, <1>2, <1>3 DEF UiStep

(* The inductive step. *)
LEMMA LocalStep == LocalInv /\ [LocalNext]_localVars => LocalInv'
<1> SUFFICES ASSUME LocalInv, [LocalNext]_localVars PROVE LocalInv'
  OBVIOUS
<1>0. /\ session \in Accounts \cup {NoAccount}
      /\ DOMAIN row = Accounts /\ DOMAIN outbox = Accounts
      /\ erased \subseteq fenced /\ erased \subseteq Accounts
      /\ \A a \in erased : outbox[a] = {} /\ row[a] = NoRow
  BY DEF LocalInv, ErasedStaysEmpty
<1>1. ASSUME NEW e \in Edits, CommitReads(e) PROVE LocalInv'
  <2>1. UNCHANGED <<session, row, outbox, fenced, run, ui, erased>>
    BY <1>1 DEF CommitReads, database, history
  <2> QED
    BY <1>0, <2>1, LocalSteps DEF ErasedStaysEmpty
<1>2. ASSUME NEW e \in Edits, Commits(e) PROVE LocalInv'
  <2> DEFINE a == edit[e].account
  <2>1. /\ UNCHANGED <<session, row, fenced, run, ui, erased>>
        /\ outbox' = IF a \in fenced THEN outbox ELSE [outbox EXCEPT ![a] = @ \cup {e}]
    BY <1>2 DEF Commits, Committed, history
  <2> HIDE DEF a
  <2>2. DOMAIN outbox' = Accounts /\ ErasedStaysEmpty'
    BY <1>0, <2>1 DEF ErasedStaysEmpty
  <2> QED
    BY <1>0, <2>1, <2>2, LocalSteps
<1>3. CASE Crash
  <2>1. /\ erased' = {} /\ fenced' = {} /\ run' = Idle /\ ui' = Idle
        /\ UNCHANGED <<session, row, outbox>>
    BY <1>3 DEF Crash, database
  <2>2. Idle.phase = "idle" /\ DOMAIN Idle = {"phase", "account", "next"}
    BY DEF Idle, Task
  <2>3. LocalTaskOK(run)' /\ LocalTaskOK(ui)' /\ ErasedStaysEmpty'
    BY <2>1, <2>2 DEF LocalTaskOK, ErasedStaysEmpty
  <2> QED
    BY <1>0, <2>1, <2>3 DEF LocalInv
<1>4. CASE UNCHANGED localVars
  BY <1>0, <1>4, LocalSteps DEF localVars, database, memory, history, ErasedStaysEmpty
<1> QED
  BY <1>1, <1>2, <1>3, <1>4, LocalRunStep, LocalUiStep DEF LocalNext

(***************************************************************************)
(* drift_persistence.dart, deleteAccount and commit: what this process has *)
(* erased stays erased, whichever edits, pages and acknowledgements were   *)
(* on their way, because the account is fenced before its rows go.         *)
(***************************************************************************)
THEOREM ErasureIsFinal == LocalSpec => []ErasedStaysEmpty
<1>1. LocalInv => ErasedStaysEmpty
  BY DEF LocalInv
<1>2. LocalSpec => []LocalInv
  BY LocalInvInit, LocalStep, PTL DEF LocalSpec
<1> QED
  BY <1>1, <1>2, PTL

(* A task that is past the switch holds a checkpoint. *)
TaskTyped(t) ==
  /\ t.account \in Accounts \cup {NoAccount} /\ t.next \in NoRow..MaxPages
  /\ t.phase \in {"activate", "pull"} => t.next \in 0..MaxPages

LocalTypes == LocalInv /\ LocalTypeOK /\ TaskTyped(run) /\ TaskTyped(ui)

(* The types of what is in the database and in memory, without the tasks. *)
StoreTyped ==
  /\ {session, active} \subseteq Accounts \cup {NoAccount}
  /\ row \in [Accounts -> NoRow..MaxPages]
  /\ projected \in [Accounts -> SUBSET (1..MaxPages)] /\ outbox \in [Accounts -> SUBSET Edits]
  /\ fenced \cup erased \cup away \subseteq Accounts /\ suspended \in BOOLEAN

(* The numbers of the checkpoints, and the tasks that begin. *)
LEMMA Checkpoints ==
  /\ MaxPages \in Nat /\ NoRow \in NoRow..MaxPages /\ 0..MaxPages \subseteq NoRow..MaxPages
  /\ \A n \in NoRow..MaxPages : n # NoRow => n \in 0..MaxPages
  /\ \A n \in 0..MaxPages : n < MaxPages => n + 1 \in 0..MaxPages /\ n + 1 \in 1..MaxPages
BY LocalAssumption DEF NoRow

(* What tasks hold as they begin and as they end. *)
LEMMA TaskTypes ==
  /\ TaskTyped(Idle)
  /\ \A to \in {"save", "dialog", "await", "awaiterase", "leave", "erase"},
        a \in Accounts \cup {NoAccount} : TaskTyped(Task(to, a, NoRow))
  /\ \A a \in Accounts \cup {NoAccount}, n \in 0..MaxPages : TaskTyped(Task("activate", a, n))
BY Checkpoints DEF TaskTyped, Task, Idle

(* Nothing is stored. *)
LEMMA LocalTypesInit == LocalInit => LocalTypes
<1> SUFFICES ASSUME LocalInit PROVE LocalTypes
  OBVIOUS
<1>1. LocalInv
  BY LocalInvInit
<1>2. /\ Idle.account = NoAccount /\ Idle.next = NoRow
  BY DEF Idle, Task
<1> QED
  BY <1>1, <1>2, TaskTypes, Checkpoints DEF LocalInit, LocalTypes, LocalTypeOK

(* What a run and a call have in common. *)
LEMMA TypedTaskActs ==
  ASSUME StoreTyped, NEW t, NEW u, LocalTaskOK(t), TaskTyped(t), NEW then \in {"idle", "pull"},
         \/ UNCHANGED <<session, fenced>> /\ (Deactivates(t, u) \/ Activates(t, u, then))
         \/ Erases(t, u),
         suspended' = suspended
  PROVE  StoreTyped' /\ TaskTyped(u)
<1>0. /\ {session, active} \subseteq Accounts \cup {NoAccount}
      /\ row \in [Accounts -> NoRow..MaxPages]
      /\ projected \in [Accounts -> SUBSET (1..MaxPages)] /\ outbox \in [Accounts -> SUBSET Edits]
      /\ fenced \cup erased \cup away \subseteq Accounts /\ suspended \in BOOLEAN
      /\ t.account \in Accounts \cup {NoAccount} /\ t.next \in NoRow..MaxPages
      /\ t.phase \in {"activate", "pull"} => t.next \in 0..MaxPages
      /\ DOMAIN t = {"phase", "account", "next"}
      /\ t.phase \in WorkPhases => t.account \in Accounts
  BY DEF StoreTyped, TaskTyped, LocalTaskOK
<1>1. CASE UNCHANGED <<session, fenced>> /\ Deactivates(t, u)
  <2>1. /\ t.phase = "save" /\ UNCHANGED <<session, fenced, active, row, outbox, erased>>
        /\ \E n \in {0, row[t.account]} :
             u = Task("activate", t.account, n) /\ (n # 0 => row[t.account] # NoRow)
        /\ projected' = projected \/ projected' = [projected EXCEPT ![active] = {}]
        /\ away' = away \/ (active # NoAccount /\ away' = away \cup {active})
    BY <1>1 DEF Deactivates
  <2>2. PICK n \in {0, row[t.account]} :
             u = Task("activate", t.account, n) /\ (n # 0 => row[t.account] # NoRow)
    BY <2>1
  <2>3. n \in 0..MaxPages
    BY <1>0, <2>1, <2>2, Checkpoints
  <2>4. TaskTyped(u)
    BY <1>0, <2>2, <2>3, TaskTypes
  <2>5. projected' \in [Accounts -> SUBSET (1..MaxPages)] /\ away' \subseteq Accounts
    BY <1>0, <2>1
  <2> QED
    BY <1>0, <2>1, <2>4, <2>5 DEF StoreTyped
<1>2. CASE UNCHANGED <<session, fenced>> /\ Activates(t, u, then)
  <2>1. /\ t.phase = "activate" /\ (u = Idle \/ u = [t EXCEPT !.phase = then])
        /\ active' = t.account /\ row' = [row EXCEPT ![t.account] = t.next]
        /\ erased' = erased \ {t.account} /\ UNCHANGED <<session, fenced, projected, outbox, away>>
    BY <1>2 DEF Activates
  <2>2. TaskTyped(u)
    <3>1. CASE u = Idle
      BY <3>1, TaskTypes
    <3>2. CASE u = [t EXCEPT !.phase = then]
      BY <1>0, <2>1, <3>2 DEF TaskTyped
    <3> QED
      BY <2>1, <3>1, <3>2
  <2>3. row' \in [Accounts -> NoRow..MaxPages]
    BY <1>0, <2>1
  <2> QED
    BY <1>0, <2>1, <2>2, <2>3 DEF StoreTyped
<1>3. CASE Fences(t, u) \/ ErasesProjection(t, u)
  <2>1. /\ t.phase \in {"erase", "clear"}
        /\ \E to \in {"clear", "purge"} : u = [t EXCEPT !.phase = to]
        /\ fenced' \in {fenced, fenced \cup {t.account}}
        /\ projected' = projected \/ projected' = [projected EXCEPT ![t.account] = {}]
        /\ UNCHANGED <<active, row, outbox, session, erased, away>>
    BY <1>3 DEF Fences, ErasesProjection, database, history
  <2>2. TaskTyped(u)
    BY <1>0, <2>1 DEF TaskTyped
  <2>3. projected' \in [Accounts -> SUBSET (1..MaxPages)]
    BY <1>0, <2>1
  <2> QED
    BY <1>0, <2>1, <2>2, <2>3 DEF StoreTyped
<1>4. CASE ErasesRows(t, u)
  <2>1. /\ t.phase = "purge" /\ u = [t EXCEPT !.phase = "leave"]
        /\ outbox' = [outbox EXCEPT ![t.account] = {}] /\ row' = [row EXCEPT ![t.account] = NoRow]
        /\ active' = active \/ active' = NoAccount
        /\ erased' = erased \cup {t.account} /\ away' = away \ {t.account}
        /\ UNCHANGED <<projected, fenced, session>>
    BY <1>4 DEF ErasesRows
  <2>2. TaskTyped(u)
    BY <1>0, <2>1 DEF TaskTyped
  <2>3. outbox' \in [Accounts -> SUBSET Edits] /\ row' \in [Accounts -> NoRow..MaxPages]
    BY <1>0, <2>1, Checkpoints
  <2> QED
    BY <1>0, <2>1, <2>2, <2>3 DEF StoreTyped
<1>5. CASE EndsSession(t, u)
  <2>1. u = Idle /\ session' = NoAccount /\ UNCHANGED <<active, row, projected, outbox, fenced, erased, away>>
    BY <1>5 DEF EndsSession, database, history
  <2> QED
    BY <1>0, <2>1, TaskTypes DEF StoreTyped
<1> QED
  BY <1>1, <1>2, <1>3, <1>4, <1>5 DEF Erases

(* The parts, and how they are put together again. *)
LEMMA LocalTypesParts == LocalTypeOK /\ TaskTyped(run) /\ TaskTyped(ui) <=>
                         StoreTyped /\ TaskTyped(run) /\ TaskTyped(ui)
BY DEF LocalTypeOK, StoreTyped, TaskTyped

(* The inductive step. *)
LEMMA LocalTypesStep == LocalTypes /\ [LocalNext]_localVars => LocalTypes'
<1> SUFFICES ASSUME LocalTypes, [LocalNext]_localVars PROVE LocalTypes'
  OBVIOUS
<1>0. LocalInv /\ StoreTyped /\ TaskTyped(run) /\ TaskTyped(ui) /\ LocalTaskOK(run) /\ LocalTaskOK(ui)
  BY LocalTypesParts DEF LocalTypes, LocalInv
<1>a. /\ {session, active} \subseteq Accounts \cup {NoAccount}
      /\ row \in [Accounts -> NoRow..MaxPages]
      /\ projected \in [Accounts -> SUBSET (1..MaxPages)] /\ outbox \in [Accounts -> SUBSET Edits]
      /\ fenced \cup erased \cup away \subseteq Accounts /\ suspended \in BOOLEAN
  BY <1>0 DEF StoreTyped
<1>b. SUFFICES StoreTyped' /\ TaskTyped(run') /\ TaskTyped(ui')
  <2>1. LocalInv'
    BY <1>0, LocalStep
  <2>2. TaskTyped(run)' /\ TaskTyped(ui)'
    BY <1>b DEF TaskTyped
  <2>3. LocalTypeOK'
    BY <1>b DEF LocalTypeOK, StoreTyped, TaskTyped
  <2> QED
    BY <2>1, <2>2, <2>3 DEF LocalTypes
<1>1. CASE RunStarts
  <2>1. run' = Task("save", session, NoRow)
        /\ UNCHANGED <<session, active, row, projected, outbox, fenced, suspended, erased, away, ui>>
    BY <1>1 DEF RunStarts, database, memory, history
  <2> QED
    BY <1>0, <1>a, <2>1, TaskTypes DEF StoreTyped
<1>2. CASE RunSaves
  <2>1. /\ UNCHANGED <<session, fenced, suspended, ui>>
        /\ Deactivates(run, run') \/ Activates(run, run', "pull")
    BY <1>2 DEF RunSaves, memory
  <2> QED
    BY <1>0, <2>1, TypedTaskActs
<1>3. CASE RunPulls
  <2>1. /\ run.phase = "pull" /\ run.next < MaxPages /\ run' = [run EXCEPT !.next = run.next + 1]
        /\ projected' = [projected EXCEPT ![run.account] = @ \cup {run.next + 1}]
        /\ row' = row \/ row' = [row EXCEPT ![run.account] = run.next + 1]
        /\ UNCHANGED <<session, active, outbox, fenced, suspended, erased, away, ui>>
    BY <1>3 DEF RunPulls, memory, history
  <2>2. run.next + 1 \in 0..MaxPages /\ run.next + 1 \in 1..MaxPages
    BY <1>0, <2>1, Checkpoints DEF TaskTyped
  <2>3. TaskTyped(run')
    BY <1>0, <2>1, <2>2, Checkpoints DEF TaskTyped, LocalTaskOK
  <2>4. /\ projected' \in [Accounts -> SUBSET (1..MaxPages)]
        /\ row' \in [Accounts -> NoRow..MaxPages]
    BY <1>a, <2>1, <2>2, Checkpoints
  <2> QED
    BY <1>0, <1>a, <2>1, <2>3, <2>4 DEF StoreTyped
<1>4. CASE RunAcknowledges
  <2>1. /\ \E pushed : outbox' = [outbox EXCEPT ![run.account] = @ \ pushed]
        /\ UNCHANGED <<session, active, row, projected, fenced, suspended, erased, away, run, ui>>
    BY <1>4 DEF RunAcknowledges, memory, history
  <2>2. outbox' \in [Accounts -> SUBSET Edits]
    BY <1>a, <2>1
  <2> QED
    BY <1>0, <1>a, <2>1, <2>2 DEF StoreTyped
<1>5. CASE RunStops \/ RunRefused
  <2>1. /\ run' = Idle \/ run' = [run EXCEPT !.phase = "erase"]
        /\ suspended' \in BOOLEAN
        /\ UNCHANGED <<session, active, row, projected, outbox, fenced, erased, away, ui>>
    BY <1>5, <1>a DEF RunStops, RunRefused, database, memory, history
  <2>2. TaskTyped(run')
    BY <1>0, <2>1, TaskTypes DEF TaskTyped, LocalTaskOK
  <2> QED
    BY <1>0, <1>a, <2>1, <2>2 DEF StoreTyped
<1>6. CASE RunErases
  <2>1. Erases(run, run') /\ UNCHANGED <<suspended, ui>>
    BY <1>6 DEF RunErases
  <2> QED
    BY <1>0, <2>1, TypedTaskActs
<1>7. CASE \/ Restores \/ SignsIn \/ (\E a \in Accounts : Enters(a)) \/ Leaves \/ RunOver \/ CallFails
  <2>1. /\ session' \in Accounts \cup {NoAccount} /\ suspended' \in BOOLEAN
        /\ UNCHANGED <<active, row, projected, outbox, fenced, erased, away, run>>
    BY <1>7, <1>a DEF Restores, SignsIn, Enters, Leaves, RunOver, CallFails, database, memory, history
  <2>2. \/ ui' = Idle
        \/ \E to \in {"save", "dialog", "await", "awaiterase", "leave", "erase"},
              a \in Accounts \cup {NoAccount} : ui' = Task(to, a, NoRow)
    BY <1>7, <1>a DEF Restores, SignsIn, Enters, Leaves, RunOver, CallFails
  <2>3. TaskTyped(ui')
    BY <2>2, TaskTypes
  <2> QED
    BY <1>0, <1>a, <2>1, <2>3 DEF StoreTyped
<1>8. CASE CallSaves
  <2>1. /\ UNCHANGED <<session, fenced, suspended, run>>
        /\ Deactivates(ui, ui') \/ Activates(ui, ui', "idle")
    BY <1>8 DEF CallSaves, memory
  <2> QED
    BY <1>0, <2>1, TypedTaskActs
<1>9. CASE CallErases
  <2>1. Erases(ui, ui') /\ UNCHANGED <<suspended, run>>
    BY <1>9 DEF CallErases
  <2> QED
    BY <1>0, <2>1, TypedTaskActs
<1>10. ASSUME NEW e \in Edits, CommitReads(e) \/ Commits(e) PROVE StoreTyped' /\ TaskTyped(run') /\ TaskTyped(ui')
  <2>1. /\ \/ outbox' = outbox
           \/ outbox' = [outbox EXCEPT ![edit[e].account] = @ \cup {e}]
        /\ UNCHANGED <<session, active, row, projected, fenced, suspended, erased, away, run, ui>>
    BY <1>10 DEF CommitReads, Commits, Committed, database, history
  <2>2. outbox' \in [Accounts -> SUBSET Edits]
    BY <1>a, <2>1
  <2> QED
    BY <1>0, <1>a, <2>1, <2>2 DEF StoreTyped
<1>11. CASE Crash
  <2>1. /\ fenced' = {} /\ suspended' = FALSE /\ run' = Idle /\ ui' = Idle /\ erased' = {}
        /\ UNCHANGED <<session, active, row, projected, outbox, away>>
    BY <1>11 DEF Crash, database
  <2> QED
    BY <1>a, <2>1, TaskTypes DEF StoreTyped
<1>12. CASE UNCHANGED localVars
  BY <1>0, <1>a, <1>12 DEF localVars, database, memory, history, StoreTyped
<1> QED
  BY <1>1, <1>2, <1>3, <1>4, <1>5, <1>6, <1>7, <1>8, <1>9, <1>10, <1>11, <1>12
     DEF LocalNext, RunStep, UiStep

(* When no account is in use, none has been cleared.  (Not so after the    *)
(* account in use was deleted while another one was away.)                 *)
LeavesNoneAway == active = NoAccount => away = {}

(* The pages that the checkpoint of an account covers are there. *)
PagesThere(a) == a = NoAccount \/ 1..row[a] \subseteq projected[a]

(* Between two transactions of saveAccount or of an erasure. *)
Midway(t) == t.phase \in {"activate", "purge"}

(* A task that is to activate an account goes on with its checkpoint, or   *)
(* comes from another one that was cleared; one that is to purge an        *)
(* account has left the others alone. *)
TaskSwitches(t) ==
  /\ t.phase = "activate" =>
       IF active = t.account THEN t.next = row[active] /\ PagesThere(active)
       ELSE t.next = 0 /\ active \in away \cup {NoAccount}
  /\ (t.phase = "purge" /\ active # t.account) => PagesThere(active)

(* Checkpoints belong to the account in use and to those that were cleared. *)
RowsKept ==
  /\ \A a \in Accounts : row[a] # NoRow => a = active \/ a \in away
  /\ active # NoAccount => row[active] # NoRow

TasksApart ==
  /\ ~(Midway(run) /\ Midway(ui))
  /\ run.phase = "pull" => run.account = active /\ run.next = row[active]
  /\ ui.phase = "activate" => run = Idle \/ active \in {ui.account, NoAccount}
  /\ ui.phase \in {"awaiterase", "erase", "clear", "purge"} => suspended
  /\ ui.phase \in {"erase", "clear", "purge"} => run = Idle

SwitchInv ==
  /\ RowsKept /\ TasksApart
  /\ Midway(run) \/ Midway(ui) \/ PagesThere(active)
  /\ TaskSwitches(run) /\ TaskSwitches(ui)

(* What the proofs use of the types. *)
LEMMA SwitchTypes ==
  ASSUME LocalTypes
  PROVE  /\ active \in Accounts \cup {NoAccount} /\ NoAccount \notin Accounts
         /\ row \in [Accounts -> NoRow..MaxPages] /\ projected \in [Accounts -> SUBSET (1..MaxPages)]
         /\ away \subseteq Accounts
         /\ LocalTaskOK(run) /\ LocalTaskOK(ui)
         /\ run.next \in NoRow..MaxPages /\ (run.phase = "pull" => run.next \in 0..MaxPages)
BY LocalAssumption DEF LocalTypes, LocalTypeOK, LocalInv, TaskTyped

(* Nothing is stored, and nobody is at work. *)
LEMMA SwitchInvInit == LocalInit => SwitchInv
<1> SUFFICES ASSUME LocalInit PROVE SwitchInv
  OBVIOUS
<1>1. /\ run.phase = "idle" /\ ui.phase = "idle" /\ run = Idle
  BY DEF LocalInit, Idle, Task
<1>2. active = NoAccount /\ \A a \in Accounts : row[a] = NoRow
  BY DEF LocalInit
<1> QED
  BY <1>1, <1>2 DEF SwitchInv, RowsKept, TasksApart, Midway, TaskSwitches, PagesThere

(* The old account is cleared, and the checkpoint of the new one taken.    *)
(* An account that nothing has cleared and that is not in use has none.    *)
LEMMA SwitchBegins ==
  ASSUME LocalTypes, RowsKept, LeavesNoneAway, PagesThere(active),
         NEW t, NEW u, t.account \in Accounts, Deactivates(t, u)
  PROVE  /\ t.phase = "save" /\ u.phase = "activate" /\ u.account = t.account
         /\ UNCHANGED <<active, row>> /\ RowsKept'
         /\ IF active' = u.account THEN u.next = row'[active'] /\ PagesThere(active)'
            ELSE u.next = 0 /\ active' \in away' \cup {NoAccount}
<1> DEFINE a == t.account
           leaves == active \notin {a, NoAccount}
           checkpoint == IF leaves \/ row[a] = NoRow THEN 0 ELSE row[a]
<1>1. /\ t.phase = "save" /\ u = Task("activate", a, checkpoint)
      /\ projected' = IF leaves THEN [projected EXCEPT ![active] = {}] ELSE projected
      /\ away' = IF leaves THEN away \cup {active} ELSE away
      /\ UNCHANGED <<active, row>>
  BY DEF Deactivates
<1>2. u.phase = "activate" /\ u.account = a /\ u.next = checkpoint
  BY <1>1 DEF Task
<1>3. RowsKept'
  BY <1>1 DEF RowsKept
<1>4. CASE active = a
  <2>1. checkpoint = row[active] /\ projected' = projected
    BY <1>1, <1>4, SwitchTypes DEF RowsKept
  <2> QED
    BY <1>1, <1>2, <1>3, <1>4, <2>1 DEF PagesThere
<1>5. CASE active = NoAccount
  <2>1. row[a] = NoRow
    BY <1>5, SwitchTypes DEF RowsKept, LeavesNoneAway
  <2> QED
    BY <1>1, <1>2, <1>3, <1>5, <2>1, SwitchTypes
<1>6. CASE leaves
  BY <1>1, <1>2, <1>3, <1>6
<1> QED
  BY <1>4, <1>5, <1>6

(* The switch is recorded: the account goes on from pages that are there,  *)
(* or from none. *)
LEMMA SwitchEnds ==
  ASSUME LocalTypes, RowsKept, NEW t, NEW u, NEW then, t.account \in Accounts,
         TaskSwitches(t), Activates(t, u, then), DOMAIN t = {"phase", "account", "next"}
  PROVE  /\ t.phase = "activate" /\ active' = t.account
         /\ IF then = "idle" THEN u = Idle
            ELSE u.phase = then /\ u.account = active' /\ u.next = row'[active']
         /\ RowsKept' /\ PagesThere(active)'
         /\ active = t.account => row' = row
<1>1. /\ t.phase = "activate" /\ active' = t.account
      /\ row' = [row EXCEPT ![t.account] = t.next] /\ UNCHANGED <<projected, away>>
      /\ u = IF then = "idle" THEN Idle ELSE [t EXCEPT !.phase = then]
  BY DEF Activates
<1>2. row'[t.account] = t.next /\ \A b \in Accounts \ {t.account} : row'[b] = row[b]
  BY <1>1, SwitchTypes
<1>3. CASE active = t.account
  <2>1. t.next = row[active] /\ PagesThere(active)
    BY <1>1, <1>3 DEF TaskSwitches
  <2>2. row' = row
    BY <1>1, <1>3, <2>1, SwitchTypes
  <2> QED
    BY <1>1, <1>3, <2>1, <2>2 DEF RowsKept, PagesThere
<1>4. CASE active # t.account
  <2>1. t.next = 0 /\ active \in away \cup {NoAccount}
    BY <1>1, <1>4 DEF TaskSwitches
  <2>2. RowsKept'
    BY <1>1, <1>2, <2>1, SwitchTypes DEF RowsKept, NoRow
  <2>3. PagesThere(active)'
    BY <1>1, <1>2, <2>1 DEF PagesThere
  <2> QED
    BY <1>1, <1>2, <1>4, <2>2, <2>3
<1> QED
  BY <1>3, <1>4

(* The rows of an erased account go; the others keep theirs. *)
LEMMA RowsGo ==
  ASSUME LocalTypes, RowsKept, NEW t, NEW u, t.account \in Accounts,
         TaskSwitches(t), ErasesRows(t, u), DOMAIN t = {"phase", "account", "next"}
  PROVE  /\ t.phase = "purge" /\ u.phase = "leave"
         /\ RowsKept' /\ PagesThere(active)'
<1>1. /\ t.phase = "purge" /\ u = [t EXCEPT !.phase = "leave"]
      /\ row' = [row EXCEPT ![t.account] = NoRow]
      /\ active' = IF active = t.account THEN NoAccount ELSE active
      /\ away' = away \ {t.account} /\ projected' = projected
  BY DEF ErasesRows
<1>2. row'[t.account] = NoRow /\ \A b \in Accounts \ {t.account} : row'[b] = row[b]
  BY <1>1, SwitchTypes
<1>3. RowsKept'
  BY <1>1, <1>2, SwitchTypes DEF RowsKept
<1>4. active # t.account => PagesThere(active)
  BY <1>1 DEF TaskSwitches
<1>5. PagesThere(active)'
  BY <1>1, <1>2, <1>4, SwitchTypes DEF PagesThere
<1> QED
  BY <1>1, <1>3, <1>5

(* The rest of a step leaves the checkpoints and what they cover alone, or *)
(* adds to it, while no task is between two transactions. *)
LEMMA SwitchMoves ==
  ASSUME RowsKept', TasksApart', PagesThere(active)', ~Midway(run)', ~Midway(ui)'
  PROVE  SwitchInv'
BY DEF SwitchInv, TaskSwitches, Midway

(* The run. *)
LEMMA SwitchRunStep ==
  ASSUME LocalTypes, SwitchInv, LeavesNoneAway, RunStep, Undisturbed
  PROVE  SwitchInv'
<1>0. /\ RowsKept /\ TaskSwitches(run) /\ LocalTaskOK(run) /\ ui' = ui
      /\ ~(Midway(run) /\ Midway(ui))
      /\ run.phase = "pull" => run.account = active /\ run.next = row[active]
      /\ ui.phase = "activate" => run = Idle \/ active \in {ui.account, NoAccount}
      /\ ui.phase \in {"awaiterase", "erase", "clear", "purge"} => suspended
      /\ ui.phase \in {"erase", "clear", "purge"} => run = Idle
      /\ Midway(run) \/ Midway(ui) \/ PagesThere(active)
      /\ RunStarts \/ RunSaves \/ RunPulls \/ RunAcknowledges \/ RunStops \/ RunRefused \/ RunErases
      /\ Idle.phase = "idle"
  BY SwitchTypes DEF SwitchInv, TasksApart, RunStep, RunStarts, RunSaves, RunPulls, RunAcknowledges,
     RunStops, RunRefused, RunErases, Idle, Task
<1>1. CASE RunStarts
  <2>1. /\ run = Idle /\ run'.phase = "save" /\ ~suspended
        /\ UNCHANGED <<active, row, projected, away, suspended>>
    BY <1>1 DEF RunStarts, database, memory, history, Task
  <2>2. ~Midway(ui) /\ ~Midway(run)
    BY <1>0, <1>1, <2>1 DEF Midway, Undisturbed, CallSaves
  <2> QED
    BY <1>0, <2>1, <2>2, SwitchMoves DEF RowsKept, TasksApart, PagesThere, Midway
<1>2. CASE RunSaves
  <2>0. /\ Deactivates(run, run') \/ Activates(run, run', "pull")
        /\ suspended' = suspended
    BY <1>2 DEF RunSaves, memory
  <2>1. CASE Deactivates(run, run')
    <3>1. run.phase = "save" /\ run.account \in Accounts /\ run # Idle /\ ~Midway(run)
      BY <1>0, <2>1 DEF Deactivates, LocalTaskOK, Midway
    <3>2. ~Midway(ui) /\ PagesThere(active)
      BY <1>0, <2>1, <3>1 DEF Midway, Undisturbed, CallSaves, Deactivates, Task
    <3>3. /\ run'.phase = "activate" /\ UNCHANGED <<active, row>> /\ RowsKept'
          /\ IF active' = run'.account THEN run'.next = row'[active'] /\ PagesThere(active)'
             ELSE run'.next = 0 /\ active' \in away' \cup {NoAccount}
      BY <1>0, <2>1, <3>1, <3>2, SwitchBegins
    <3>4. TasksApart'
      BY <1>0, <2>0, <3>1, <3>2, <3>3 DEF TasksApart, Midway
    <3>5. TaskSwitches(run)' /\ TaskSwitches(ui)' /\ Midway(run)'
      BY <1>0, <3>2, <3>3 DEF TaskSwitches, Midway
    <3> QED
      BY <3>3, <3>4, <3>5 DEF SwitchInv
  <2>2. CASE Activates(run, run', "pull")
    <3>1. run.phase = "activate" /\ run.account \in Accounts /\ DOMAIN run = {"phase", "account", "next"}
      BY <1>0, <2>2 DEF Activates, LocalTaskOK
    <3>2. /\ run'.phase = "pull" /\ run'.account = active' /\ run'.next = row'[active']
          /\ RowsKept' /\ PagesThere(active)'
      BY <1>0, <2>2, <3>1, SwitchEnds
    <3>3. ~Midway(ui) /\ run # Idle
      BY <1>0, <3>1 DEF Midway
    <3>4. TasksApart'
      BY <1>0, <2>0, <3>2, <3>3 DEF TasksApart, Midway
    <3> QED
      BY <1>0, <3>2, <3>3, <3>4, SwitchMoves DEF Midway
  <2> QED
    BY <2>0, <2>1, <2>2
<1>3. CASE RunPulls
  <2>1. /\ run.phase = "pull" /\ run' = [run EXCEPT !.next = run.next + 1]
        /\ projected' = [projected EXCEPT ![run.account] = @ \cup {run.next + 1}]
        /\ row' = IF row[run.account] = NoRow THEN row
                  ELSE [row EXCEPT ![run.account] = run.next + 1]
        /\ UNCHANGED <<active, away, suspended>>
    BY <1>3 DEF RunPulls, memory, history
  <2>2. /\ run.account = active /\ active \in Accounts /\ run.next = row[active]
        /\ run.next \in 0..MaxPages
    BY <1>0, <2>1, SwitchTypes DEF LocalTaskOK
  <2>3. /\ row' = [row EXCEPT ![active] = run.next + 1]
        /\ row'[active'] = run.next + 1 /\ run.next + 1 # NoRow
        /\ projected'[active'] = projected[active] \cup {run.next + 1}
    BY <2>1, <2>2, SwitchTypes, Checkpoints DEF NoRow
  <2>4. /\ run'.phase = "pull" /\ run'.account = active' /\ run'.next = row'[active']
        /\ run # Idle
    BY <1>0, <2>1, <2>2, <2>3 DEF LocalTaskOK
  <2>5. ~Midway(ui) /\ ~Midway(run)
    <3>1. run.phase # "activate" /\ run.phase # "purge"
      BY <2>1
    <3>2. run'.next # run.next
      BY <2>2, <2>3, <2>4
    <3>3. ui.phase # "activate"
      BY <3>2 DEF Undisturbed, CallSaves
    <3> QED
      BY <1>0, <2>4, <3>1, <3>3 DEF Midway
  <2>6. PagesThere(active)'
    <3>1. PagesThere(active)
      BY <1>0, <2>5
    <3>2. \A n \in 1..(run.next + 1) : n \in 1..run.next \/ n = run.next + 1
      BY <2>2
    <3> QED
      BY <2>1, <2>2, <2>3, <3>1, <3>2, SwitchTypes DEF PagesThere
  <2>7. RowsKept'
    BY <1>0, <2>1, <2>2, <2>3, SwitchTypes DEF RowsKept
  <2>8. TasksApart'
    BY <1>0, <2>1, <2>4, <2>5 DEF TasksApart, Midway
  <2> QED
    BY <1>0, <2>4, <2>5, <2>6, <2>7, <2>8, SwitchMoves DEF Midway
<1>4. CASE RunAcknowledges
  <2>1. run' = run /\ UNCHANGED <<active, row, projected, away, suspended>>
    BY <1>4 DEF RunAcknowledges, memory, history
  <2> QED
    BY <1>0, <2>1 DEF SwitchInv, RowsKept, TasksApart, PagesThere, TaskSwitches, Midway
<1>5. CASE RunStops
  <2>1. run' = Idle /\ run # Idle /\ UNCHANGED <<active, row, projected, away, suspended>>
    BY <1>5 DEF RunStops, database, memory, history
  <2>2. run.phase # "activate"
    <3>1. SUFFICES ASSUME run.phase = "activate" PROVE FALSE
      OBVIOUS
    <3>2. Activates(run, run', "pull")
      BY <3>1 DEF Undisturbed, RunSaves, Deactivates
    <3>3. run'.phase = "pull"
      BY <1>0, <3>2 DEF Activates, LocalTaskOK
    <3> QED
      BY <1>0, <2>1, <3>3
  <2>3. run.phase # "purge"
    <3>1. SUFFICES ASSUME run.phase = "purge" PROVE FALSE
      OBVIOUS
    <3>2. ErasesRows(run, run')
      BY <3>1 DEF Undisturbed, RunErases, Erases, Fences, ErasesProjection, EndsSession
    <3>3. run'.phase = "leave"
      BY <1>0, <3>2 DEF ErasesRows, LocalTaskOK
    <3> QED
      BY <1>0, <2>1, <3>3
  <2>4. ~Midway(ui)
    BY <1>0, <2>1 DEF Midway, Undisturbed, CallSaves
  <2>5. RowsKept' /\ PagesThere(active)' /\ ~Midway(run)' /\ ~Midway(ui)'
    BY <1>0, <2>1, <2>2, <2>3, <2>4 DEF RowsKept, PagesThere, Midway
  <2>6. TasksApart'
    BY <1>0, <2>1, <2>4 DEF TasksApart, Midway
  <2> QED
    BY <2>5, <2>6, SwitchMoves
<1>6. CASE RunRefused
  <2>1. /\ run.phase = "pull" /\ run' = [run EXCEPT !.phase = "erase"] /\ suspended'
        /\ UNCHANGED <<active, row, projected, away>>
    BY <1>6 DEF RunRefused, database, history
  <2>2. run'.phase = "erase" /\ run # Idle
    BY <1>0, <2>1 DEF LocalTaskOK
  <2> QED
    BY <1>0, <2>1, <2>2, SwitchMoves DEF RowsKept, TasksApart, PagesThere, Midway, Undisturbed, CallSaves
<1>7. CASE RunErases
  <2>1. Erases(run, run') /\ suspended' = suspended /\ run.phase \in {"erase", "clear", "purge", "leave"}
    BY <1>7 DEF RunErases, Erases, Fences, ErasesProjection, ErasesRows, EndsSession
  <2>2. /\ run.account \in Accounts /\ DOMAIN run = {"phase", "account", "next"} /\ run # Idle
        /\ ui.phase \notin {"erase", "clear", "purge"}
    BY <1>0, <2>1 DEF LocalTaskOK
  <2>3. ~Midway(ui)
    <3>1. run' # run
      BY <1>0, <2>1, <2>2 DEF Erases, Fences, ErasesProjection, ErasesRows, EndsSession
    <3> QED
      BY <2>2, <3>1 DEF Midway, Undisturbed, CallSaves
  <2>a. CASE Fences(run, run')
    <3>1. /\ run.phase = "erase" /\ run'.phase = "clear"
          /\ UNCHANGED <<active, row, projected, away>>
      BY <2>2, <2>a DEF Fences, database, history
    <3>2. RowsKept' /\ PagesThere(active)' /\ ~Midway(run)' /\ ~Midway(ui)'
      BY <1>0, <2>3, <3>1 DEF RowsKept, PagesThere, Midway
    <3>3. TasksApart'
      BY <1>0, <2>1, <2>2, <2>3, <3>1 DEF TasksApart, Midway
    <3> QED
      BY <3>2, <3>3, SwitchMoves
  <2>4. CASE ErasesProjection(run, run')
    <3>1. /\ run.phase = "clear" /\ run'.phase = "purge" /\ run'.account = run.account
          /\ projected' = [projected EXCEPT ![run.account] = {}] /\ UNCHANGED <<active, row, away>>
      BY <2>2, <2>4 DEF ErasesProjection, history
    <3>2. active # run.account => PagesThere(active)'
      BY <1>0, <2>3, <3>1, SwitchTypes DEF PagesThere, Midway
    <3>3. TaskSwitches(run)' /\ TaskSwitches(ui)' /\ Midway(run)'
      BY <1>0, <2>3, <3>1, <3>2 DEF TaskSwitches, Midway
    <3>4. RowsKept'
      BY <1>0, <3>1 DEF RowsKept
    <3>5. TasksApart'
      BY <1>0, <2>1, <2>2, <2>3, <3>1 DEF TasksApart, Midway
    <3> QED
      BY <3>3, <3>4, <3>5 DEF SwitchInv
  <2>5. CASE ErasesRows(run, run')
    <3>1. run'.phase = "leave" /\ RowsKept' /\ PagesThere(active)'
      BY <1>0, <2>2, <2>5, RowsGo
    <3>2. TasksApart'
      BY <1>0, <2>1, <2>2, <2>3, <3>1 DEF TasksApart, Midway
    <3> QED
      BY <1>0, <2>3, <3>1, <3>2, SwitchMoves DEF Midway
  <2>6. CASE EndsSession(run, run')
    <3>1. run.phase = "leave" /\ run' = Idle /\ UNCHANGED <<active, row, projected, away>>
      BY <2>6 DEF EndsSession, database, history
    <3>2. RowsKept' /\ PagesThere(active)' /\ ~Midway(run)' /\ ~Midway(ui)'
      BY <1>0, <2>3, <3>1 DEF RowsKept, PagesThere, Midway
    <3>3. TasksApart'
      BY <1>0, <2>1, <2>2, <2>3, <3>1 DEF TasksApart, Midway
    <3> QED
      BY <3>2, <3>3, SwitchMoves
  <2> QED
    BY <2>1, <2>a, <2>4, <2>5, <2>6 DEF Erases
<1> QED
  BY <1>0, <1>1, <1>2, <1>3, <1>4, <1>5, <1>6, <1>7

(* The user interface. *)
LEMMA SwitchUiStep ==
  ASSUME LocalTypes, SwitchInv, LeavesNoneAway, UiStep, Undisturbed
  PROVE  SwitchInv'
<1>0. /\ RowsKept /\ TaskSwitches(ui) /\ LocalTaskOK(ui) /\ LocalTaskOK(run) /\ run' = run
      /\ ~(Midway(run) /\ Midway(ui))
      /\ run.phase = "pull" => run.account = active /\ run.next = row[active]
      /\ ui.phase = "activate" => run = Idle \/ active \in {ui.account, NoAccount}
      /\ ui.phase \in {"awaiterase", "erase", "clear", "purge"} => suspended
      /\ ui.phase \in {"erase", "clear", "purge"} => run = Idle
      /\ Midway(run) \/ Midway(ui) \/ PagesThere(active)
      /\ Idle.phase = "idle"
  BY SwitchTypes DEF SwitchInv, TasksApart, UiStep, Restores, SignsIn, Enters, CallSaves, Leaves,
     RunOver, CallErases, CallFails, Idle, Task
<1>1. ui' # ui
  BY <1>0 DEF UiStep, Restores, SignsIn, Enters, CallSaves, Deactivates, Activates, Leaves, RunOver,
     CallErases, Erases, Fences, ErasesProjection, ErasesRows, EndsSession, CallFails, Idle, Task, LocalTaskOK
<1>2. ~Midway(run)
  <2>1. run.phase # "activate"
    BY <1>1 DEF Undisturbed, RunSaves
  <2>2. run.phase # "purge"
    BY <1>1 DEF Undisturbed, RunErases
  <2> QED
    BY <2>1, <2>2 DEF Midway
<1>3. CASE \/ Restores \/ SignsIn \/ (\E a \in Accounts : Enters(a)) \/ Leaves \/ RunOver \/ CallFails
  <2>1. /\ UNCHANGED <<active, row, projected, away>>
        /\ ui'.phase \in {"idle", "save", "dialog", "await", "awaiterase", "leave", "erase"}
        /\ ui'.phase = "awaiterase" => suspended'
        /\ ui'.phase = "erase" => ui.phase = "awaiterase" /\ run = Idle /\ suspended' = suspended
    BY <1>0, <1>3 DEF Restores, SignsIn, Enters, Leaves, RunOver, CallFails, database, memory, history, Task
  <2>2. ~Midway(ui)
    <3>1. ui.phase # "activate"
      BY <1>0, <2>1, <1>3 DEF Restores, SignsIn, Enters, Leaves, RunOver, CallFails
    <3>2. ui.phase # "purge"
      <4>1. SUFFICES ASSUME ui.phase = "purge" PROVE FALSE
        OBVIOUS
      <4>2. ErasesRows(ui, ui')
        BY <4>1 DEF Undisturbed, CallErases, Erases, Fences, ErasesProjection, EndsSession
      <4>3. CallFails
        BY <1>0, <1>3, <4>1 DEF Restores, SignsIn, Enters, Leaves, RunOver
      <4> QED
        BY <1>0, <4>2, <4>3 DEF ErasesRows, CallFails, LocalTaskOK
    <3> QED
      BY <3>1, <3>2 DEF Midway
  <2>3. RowsKept' /\ PagesThere(active)' /\ ~Midway(run)' /\ ~Midway(ui)'
    BY <1>0, <1>2, <2>1, <2>2 DEF RowsKept, PagesThere, Midway
  <2>4. TasksApart'
    BY <1>0, <1>2, <2>1, <2>3 DEF TasksApart, Midway
  <2> QED
    BY <2>3, <2>4, SwitchMoves
<1>4. CASE CallSaves
  <2>0. /\ Deactivates(ui, ui') \/ Activates(ui, ui', "idle")
        /\ suspended' = suspended
    BY <1>4 DEF CallSaves, memory
  <2>1. CASE Deactivates(ui, ui')
    <3>1. ui.phase = "save" /\ ui.account \in Accounts /\ ~Midway(ui)
      BY <1>0, <2>1 DEF Deactivates, LocalTaskOK, Midway
    <3>2. /\ ui'.phase = "activate" /\ ui'.account = ui.account /\ UNCHANGED <<active, row>> /\ RowsKept'
          /\ IF active' = ui'.account THEN ui'.next = row'[active'] /\ PagesThere(active)'
             ELSE ui'.next = 0 /\ active' \in away' \cup {NoAccount}
      BY <1>0, <1>2, <2>1, <3>1, SwitchBegins
    <3>3. run = Idle \/ active \in {ui.account, NoAccount}
      BY <3>1, <3>2 DEF Undisturbed
    <3>4. TasksApart'
      BY <1>0, <1>2, <2>0, <3>2, <3>3 DEF TasksApart, Midway
    <3>5. TaskSwitches(run)' /\ TaskSwitches(ui)' /\ Midway(ui)'
      BY <1>0, <1>2, <3>2 DEF TaskSwitches, Midway
    <3> QED
      BY <3>2, <3>4, <3>5 DEF SwitchInv
  <2>2. CASE Activates(ui, ui', "idle")
    <3>1. ui.phase = "activate" /\ ui.account \in Accounts /\ DOMAIN ui = {"phase", "account", "next"}
      BY <1>0, <2>2 DEF Activates, LocalTaskOK
    <3>2. /\ ui' = Idle /\ active' = ui.account /\ RowsKept' /\ PagesThere(active)'
          /\ active = ui.account => row' = row
      BY <1>0, <2>2, <3>1, SwitchEnds
    <3>3. run.phase = "pull" => active = ui.account
      BY <1>0, <3>1, SwitchTypes DEF LocalTaskOK
    <3>4. TasksApart'
      BY <1>0, <1>2, <2>0, <3>2, <3>3 DEF TasksApart, Midway
    <3> QED
      BY <1>0, <1>2, <3>2, <3>4, SwitchMoves DEF Midway
  <2> QED
    BY <2>0, <2>1, <2>2
<1>5. CASE CallErases
  <2>1. Erases(ui, ui') /\ suspended' = suspended /\ ui.phase \in {"erase", "clear", "purge", "leave"}
    BY <1>5 DEF CallErases, Erases, Fences, ErasesProjection, ErasesRows, EndsSession
  <2>2. ui.account \in Accounts /\ DOMAIN ui = {"phase", "account", "next"}
    BY <1>0, <2>1 DEF LocalTaskOK
  <2>a. CASE Fences(ui, ui')
    <3>1. /\ ui.phase = "erase" /\ ui'.phase = "clear"
          /\ UNCHANGED <<active, row, projected, away>>
      BY <2>2, <2>a DEF Fences, database, history
    <3>2. RowsKept' /\ PagesThere(active)' /\ ~Midway(run)' /\ ~Midway(ui)'
      BY <1>0, <1>2, <3>1 DEF RowsKept, PagesThere, Midway
    <3>3. TasksApart'
      BY <1>0, <1>2, <2>1, <3>1, <3>2 DEF TasksApart, Midway
    <3> QED
      BY <3>2, <3>3, SwitchMoves
  <2>3. CASE ErasesProjection(ui, ui')
    <3>1. /\ ui.phase = "clear" /\ ui'.phase = "purge" /\ ui'.account = ui.account
          /\ projected' = [projected EXCEPT ![ui.account] = {}] /\ UNCHANGED <<active, row, away>>
      BY <2>2, <2>3 DEF ErasesProjection, history
    <3>2. active # ui.account => PagesThere(active)'
      BY <1>0, <1>2, <3>1, SwitchTypes DEF PagesThere, Midway
    <3>3. TaskSwitches(run)' /\ TaskSwitches(ui)' /\ Midway(ui)'
      BY <1>0, <1>2, <3>1, <3>2 DEF TaskSwitches, Midway
    <3>4. RowsKept'
      BY <1>0, <3>1 DEF RowsKept
    <3>5. TasksApart'
      BY <1>0, <1>2, <2>1, <3>1 DEF TasksApart, Midway
    <3> QED
      BY <3>3, <3>4, <3>5 DEF SwitchInv
  <2>4. CASE ErasesRows(ui, ui')
    <3>1. ui'.phase = "leave" /\ RowsKept' /\ PagesThere(active)' /\ run = Idle
      BY <1>0, <2>2, <2>4, RowsGo
    <3>2. TasksApart'
      BY <1>0, <1>2, <2>1, <3>1 DEF TasksApart, Midway
    <3> QED
      BY <1>0, <1>2, <3>1, <3>2, SwitchMoves DEF Midway
  <2>5. CASE EndsSession(ui, ui')
    <3>1. ui.phase = "leave" /\ ui' = Idle /\ UNCHANGED <<active, row, projected, away>>
      BY <2>5 DEF EndsSession, database, history
    <3>2. RowsKept' /\ PagesThere(active)' /\ ~Midway(run)' /\ ~Midway(ui)'
      BY <1>0, <1>2, <3>1 DEF RowsKept, PagesThere, Midway
    <3>3. TasksApart'
      BY <1>0, <1>2, <2>1, <3>1, <3>2 DEF TasksApart, Midway
    <3> QED
      BY <3>2, <3>3, SwitchMoves
  <2> QED
    BY <2>1, <2>a, <2>3, <2>4, <2>5 DEF Erases
<1> QED
  BY <1>3, <1>4, <1>5 DEF UiStep

(* The inductive step. *)
LEMMA SwitchStep ==
  LocalTypes /\ SwitchInv /\ LeavesNoneAway /\ [LocalNext /\ Undisturbed]_localVars => SwitchInv'
<1> SUFFICES ASSUME LocalTypes, SwitchInv, LeavesNoneAway, [LocalNext /\ Undisturbed]_localVars
             PROVE  SwitchInv'
  OBVIOUS
<1>1. CASE RunStep /\ Undisturbed
  BY <1>1, SwitchRunStep
<1>2. CASE UiStep /\ Undisturbed
  BY <1>2, SwitchUiStep
<1>3. CASE \/ \E e \in Edits : CommitReads(e) \/ Commits(e)
           \/ UNCHANGED localVars
  <2>1. UNCHANGED <<active, row, projected, away, run, ui, suspended>>
    BY <1>3 DEF CommitReads, Commits, Committed, database, memory, history, localVars
  <2> QED
    BY <2>1 DEF SwitchInv, RowsKept, TasksApart, PagesThere, TaskSwitches, Midway
<1>4. CASE Crash /\ Undisturbed
  <2>1. CASE Midway(run)
    BY <1>4, <2>1, SwitchRunStep DEF Midway, Undisturbed, RunStep
  <2>2. CASE Midway(ui)
    BY <1>4, <2>2, SwitchUiStep DEF Midway, Undisturbed, UiStep
  <2>3. CASE ~Midway(run) /\ ~Midway(ui)
    <3>1. run' = Idle /\ ui' = Idle /\ Idle.phase = "idle" /\ UNCHANGED <<active, row, projected, away>>
      BY <1>4 DEF Crash, database, Idle, Task
    <3>2. RowsKept' /\ PagesThere(active)' /\ ~Midway(run)' /\ ~Midway(ui)' /\ TasksApart'
      BY <2>3, <3>1 DEF SwitchInv, RowsKept, PagesThere, Midway, TasksApart
    <3> QED
      BY <3>2, SwitchMoves
  <2> QED
    BY <2>1, <2>2, <2>3
<1> QED
  BY <1>1, <1>2, <1>3, <1>4 DEF LocalNext

(***************************************************************************)
(* drift_persistence.dart, saveAccount: where nothing comes between its    *)
(* two transactions or those of an erasure, nobody changes accounts during *)
(* a run, and no account in use is deleted while another one is away, an   *)
(* account in use has every page its checkpoint covers.  These are all the *)
(* causes of the violation that the run switch_deletion shows for one.     *)
(***************************************************************************)
THEOREM SwitchesKeepPages == UndisturbedSpec /\ []LeavesNoneAway => []SwitchesStartEmpty
<1>1. LocalInit => LocalTypes /\ SwitchInv
  BY LocalTypesInit, SwitchInvInit
<1>2. LocalTypes /\ SwitchInv /\ LeavesNoneAway /\ [LocalNext /\ Undisturbed]_localVars
        => (LocalTypes /\ SwitchInv)'
  <2>1. [LocalNext /\ Undisturbed]_localVars => [LocalNext]_localVars
    OBVIOUS
  <2> QED
    BY <2>1, LocalTypesStep, SwitchStep
<1>3. LocalTypes /\ SwitchInv => SwitchesStartEmpty
  <2> SUFFICES ASSUME LocalTypes, SwitchInv, run = Idle, ui = Idle, active \in away
               PROVE  1..row[active] \subseteq projected[active]
    BY DEF SwitchesStartEmpty
  <2>1. ~Midway(run) /\ ~Midway(ui)
    BY DEF Midway, Idle, Task
  <2> QED
    BY <2>1, SwitchTypes DEF SwitchInv, PagesThere
<1> QED
  BY <1>1, <1>2, <1>3, PTL DEF UndisturbedSpec

-----------------------------------------------------------------------------
(* The billing page (BillingController.tla)                                *)

WorkSet == [kind : Kinds, for : AppAccounts, of : 0..MaxSwitches,
            at : {"start", "account", "identify", "operate", "synchronize", "membership"}]

(* Work of the present is for the account in use, and only the first has   *)
(* begun. *)
WorkOK(w) == w.of <= switches /\ (w.of = switches /\ ~disposed => w.for = account)

ControlInv ==
  /\ account \in AppAccounts \cup {Anonymous}
  /\ switches \in 0..MaxSwitches
  /\ work \in Seq(WorkSet)
  /\ \A k \in DOMAIN work : WorkOK(work[k]) /\ (k # 1 => work[k].at = "start")
  /\ account = Anonymous => ~Busy \/ disposed
  /\ AccountsStayApart
  /\ BusyHasWork

(* The parts, taken apart once. *)
LEMMA ControlParts ==
  ASSUME ControlInv
  PROVE  /\ account \in AppAccounts \cup {Anonymous}
         /\ switches \in 0..MaxSwitches /\ switches \in Nat
         /\ work \in Seq(WorkSet) /\ Len(work) \in Nat /\ DOMAIN work = 1..Len(work)
         /\ \A k \in DOMAIN work : /\ work[k] \in WorkSet /\ work[k].of \in Nat
                                   /\ WorkOK(work[k]) /\ (k # 1 => work[k].at = "start")
         /\ work # <<>> => /\ 1 \in DOMAIN work /\ Head(work) = work[1]
                           /\ Head(work) \in WorkSet /\ WorkOK(Head(work))
<1>1. work \in Seq(WorkSet) /\ switches \in 0..MaxSwitches
      /\ \A k \in DOMAIN work : WorkOK(work[k]) /\ (k # 1 => work[k].at = "start")
  BY DEF ControlInv
<1>2. /\ Len(work) \in Nat /\ DOMAIN work = 1..Len(work)
      /\ \A k \in DOMAIN work : work[k] \in WorkSet
      /\ work # <<>> => 1 \in DOMAIN work /\ Head(work) = work[1]
  BY <1>1
<1>3. \A k \in DOMAIN work : work[k].of \in Nat
  BY <1>2 DEF WorkSet
<1> QED
  BY <1>1, <1>2, <1>3, ControlAssumption DEF ControlInv

(* No account and no work. *)
LEMMA ControlInvInit == ControlInit => ControlInv
<1> SUFFICES ASSUME ControlInit PROVE ControlInv
  OBVIOUS
<1>1. work \in Seq(WorkSet) /\ DOMAIN work = {} /\ work = <<>>
  BY DEF ControlInit
<1> QED
  BY <1>1, ControlAssumption
     DEF ControlInit, ControlInv, AccountsStayApart, BusyHasWork, Busy, Now

(* Work of the account in use joins the queue. *)
LEMMA WorkQueues ==
  ASSUME ControlInv, NEW kind \in Kinds, account' \in AppAccounts, switches' \in 0..MaxSwitches,
         \/ switches' = switches /\ account' = account
         \/ switches < switches',
         disposed' = disposed, work' = Append(work, Work(kind))
  PROVE  /\ work' \in Seq(WorkSet)
         /\ \A k \in DOMAIN work' : WorkOK(work[k])' /\ (k # 1 => work'[k].at = "start")
         /\ \E k \in DOMAIN work' : work'[k].of = switches'
         /\ work = <<>> => Head(work').at = "start"
         /\ work # <<>> => work' # <<>> /\ Head(work') = Head(work)
<1> DEFINE w == Work(kind)
<1>0. /\ work \in Seq(WorkSet) /\ Len(work) \in Nat /\ DOMAIN work = 1..Len(work) /\ switches \in Nat
      /\ \A k \in DOMAIN work : /\ work[k] \in WorkSet /\ work[k].of \in Nat
                                /\ WorkOK(work[k]) /\ (k # 1 => work[k].at = "start")
      /\ work # <<>> => 1 \in DOMAIN work /\ Head(work) = work[1]
  BY ControlParts
<1>1. /\ w \in WorkSet /\ w.at = "start" /\ w.for = account' /\ w.of = switches'
  BY DEF Work, WorkSet
<1>2. switches' \in Nat
  BY ControlAssumption
<1> HIDE DEF w
<1>3. /\ work' \in Seq(WorkSet) /\ DOMAIN work' = 1..Len(work) + 1 /\ work'[Len(work) + 1] = w
      /\ \A k \in DOMAIN work : work'[k] = work[k]
      /\ work = <<>> => Head(work') = w
      /\ work # <<>> => work' # <<>> /\ Head(work') = Head(work)
  BY <1>0, <1>1 DEF w
<1>4. ASSUME NEW k \in DOMAIN work'
      PROVE  WorkOK(work[k])' /\ (k # 1 => work'[k].at = "start")
  <2>1. CASE k = Len(work) + 1
    BY <1>1, <1>2, <1>3, <2>1 DEF WorkOK
  <2>2. CASE k \in DOMAIN work
    BY <1>0, <1>2, <1>3, <2>2 DEF WorkOK
  <2> QED
    BY <1>0, <1>3, <2>1, <2>2
<1>5. work'[Len(work) + 1].of = switches' /\ Len(work) + 1 \in DOMAIN work'
  BY <1>0, <1>1, <1>3
<1> QED
  BY <1>1, <1>3, <1>4, <1>5

(* The first work is over, and the next has not begun. *)
LEMMA WorkIsDone ==
  ASSUME ControlInv, work # <<>>, NEW result \in {"ready", "failed"}, Done(result),
         UNCHANGED <<account, switches, disposed>>
  PROVE  /\ work' \in Seq(WorkSet)
         /\ \A k \in DOMAIN work' : WorkOK(work[k])' /\ work'[k].at = "start"
         /\ ~Now("operate")'
         /\ (account = Anonymous => ~Busy \/ disposed)'
         /\ BusyHasWork'
<1>0. /\ work \in Seq(WorkSet) /\ Len(work) \in Nat /\ DOMAIN work = 1..Len(work)
      /\ \A k \in DOMAIN work : /\ work[k] \in WorkSet /\ WorkOK(work[k])
                                /\ (k # 1 => work[k].at = "start")
      /\ 1 \in DOMAIN work /\ Head(work) = work[1]
  BY ControlParts
<1>1. /\ work' = Tail(work)
      /\ IF Current(Head(work)) THEN phase' = result ELSE phase' = phase
  BY DEF Done, Publish
<1>2. /\ work' \in Seq(WorkSet) /\ DOMAIN work' = 1..Len(work) - 1
      /\ \A k \in DOMAIN work' : k + 1 \in DOMAIN work /\ k + 1 # 1 /\ work'[k] = work[k + 1]
      /\ \A k \in DOMAIN work : k # 1 => k - 1 \in DOMAIN work' /\ work'[k - 1] = work[k]
      /\ work' # <<>> => 1 \in DOMAIN work' /\ Head(work') = work'[1]
  BY <1>0, <1>1
<1>3. \A k \in DOMAIN work' : WorkOK(work[k])' /\ work'[k].at = "start"
  BY <1>0, <1>2 DEF WorkOK
<1>4. ~Now("operate")'
  BY <1>2, <1>3 DEF Now
<1>5. (account = Anonymous => ~Busy \/ disposed)'
  BY <1>1 DEF ControlInv, Busy
<1>6. BusyHasWork'
  <2> SUFFICES ASSUME Busy', ~disposed PROVE \E k \in DOMAIN work' : work'[k].of = switches
    BY DEF BusyHasWork
  <2>1. ~Current(Head(work)) /\ Busy
    BY <1>1 DEF Busy
  <2>2. account # Anonymous
    BY <2>1 DEF ControlInv
  <2>3. PICK k \in DOMAIN work : work[k].of = switches
    BY <2>1 DEF ControlInv, BusyHasWork
  <2>4. k # 1
    BY <1>0, <2>1, <2>2, <2>3 DEF Current
  <2> QED
    BY <1>2, <2>3, <2>4
<1> QED
  BY <1>2, <1>3, <1>4, <1>5, <1>6

(* The first work goes on. *)
LEMMA WorkGoesOn ==
  ASSUME ControlInv, work # <<>>,
         NEW at \in {"account", "identify", "operate", "synchronize", "membership"}, Continues(at),
         UNCHANGED <<account, switches, disposed>>
  PROVE  /\ work' \in Seq(WorkSet) /\ DOMAIN work' = DOMAIN work
         /\ \A k \in DOMAIN work' : WorkOK(work[k])' /\ (k # 1 => work'[k].at = "start")
         /\ \A k \in DOMAIN work' : work'[k].of = work[k].of
         /\ work' # <<>> /\ Head(work').at = at /\ Head(work').for = Head(work).for
<1> DEFINE w == [Head(work) EXCEPT !.at = at]
<1>0. /\ work \in Seq(WorkSet) /\ Len(work) \in Nat /\ DOMAIN work = 1..Len(work)
      /\ \A k \in DOMAIN work : /\ work[k] \in WorkSet /\ WorkOK(work[k])
                                /\ (k # 1 => work[k].at = "start")
      /\ 1 \in DOMAIN work /\ Head(work) = work[1] /\ Head(work) \in WorkSet
  BY ControlParts
<1>1. w \in WorkSet /\ w.of = Head(work).of /\ w.for = Head(work).for /\ w.at = at
  BY <1>0 DEF WorkSet
<1>2. work' = <<w>> \o Tail(work)
  BY DEF Continues
<1> HIDE DEF w
<1>3. /\ <<w>> \in Seq(WorkSet) /\ Len(<<w>>) = 1 /\ <<w>>[1] = w
      /\ Tail(work) \in Seq(WorkSet) /\ Len(Tail(work)) = Len(work) - 1
      /\ \A k \in 1..Len(work) - 1 : Tail(work)[k] = work[k + 1]
  BY <1>0, <1>1
<1>4. /\ work' \in Seq(WorkSet) /\ Len(work') = Len(work) /\ work'[1] = w
      /\ \A k \in 2..Len(work) : work'[k] = Tail(work)[k - 1]
  BY <1>0, <1>2, <1>3
<1>5. DOMAIN work' = DOMAIN work /\ Head(work') = w /\ work' # <<>>
  BY <1>0, <1>4
<1>6. \A k \in DOMAIN work : k # 1 => work'[k] = work[k]
  BY <1>0, <1>3, <1>4
<1>7. ASSUME NEW k \in DOMAIN work'
      PROVE  WorkOK(work[k])' /\ (k # 1 => work'[k].at = "start") /\ work'[k].of = work[k].of
  <2>1. CASE k = 1
    <3>1. WorkOK(w)
      BY <1>0, <1>1 DEF WorkOK
    <3> QED
      BY <1>0, <1>1, <1>4, <2>1, <3>1 DEF WorkOK
  <2>2. CASE k # 1
    BY <1>0, <1>5, <1>6, <2>2 DEF WorkOK
  <2> QED
    BY <2>1, <2>2
<1> QED
  BY <1>1, <1>4, <1>5, <1>7

(* A step of the work: the account in use stays, what is shown of buying   *)
(* is nothing or of that account, and what goes on is of it.               *)
LEMMA WorkStep ==
  ASSUME ControlInv, work # <<>>, UNCHANGED <<account, switches, disposed>>,
         purchases' # Anonymous => purchases'.of = account,
         \/ \E result \in {"ready", "failed"} : Done(result)
         \/ \E at \in {"account", "identify", "synchronize", "membership"} :
              Continues(at) /\ (phase' = phase \/ Current(Head(work)))
         \/ Continues("operate") /\ phase' = phase /\ sdkIdentity' = Head(work).for
  PROVE  ControlInv'
<1>0. account \in AppAccounts \cup {Anonymous} /\ switches \in 0..MaxSwitches
  BY ControlParts
<1>1. ASSUME NEW result \in {"ready", "failed"}, Done(result) PROVE ControlInv'
  BY <1>0, <1>1, WorkIsDone DEF ControlInv, AccountsStayApart
<1>2. ASSUME NEW at \in {"account", "identify", "operate", "synchronize", "membership"}, Continues(at),
             phase' = phase \/ Current(Head(work)),
             at = "operate" => sdkIdentity' = Head(work).for
      PROVE  ControlInv'
  <2>1. /\ work' \in Seq(WorkSet) /\ DOMAIN work' = DOMAIN work
        /\ \A k \in DOMAIN work' : WorkOK(work[k])' /\ (k # 1 => work'[k].at = "start")
        /\ \A k \in DOMAIN work' : work'[k].of = work[k].of
        /\ work' # <<>> /\ Head(work').at = at /\ Head(work').for = Head(work).for
    BY <1>2, WorkGoesOn
  <2>2. 1 \in DOMAIN work /\ Head(work) = work[1]
    BY ControlParts
  <2>3. (account = Anonymous => ~Busy \/ disposed)' /\ BusyHasWork'
    BY <1>2, <2>1, <2>2 DEF ControlInv, Busy, BusyHasWork, Current
  <2>4. AccountsStayApart'
    BY <1>2, <2>1 DEF AccountsStayApart, Now
  <2> QED
    BY <1>0, <2>1, <2>3, <2>4 DEF ControlInv
<1> QED
  BY <1>1, <1>2

(* The inductive step. *)
LEMMA ControlStep == ControlInv /\ [ControlNext]_controlVars => ControlInv'
<1> SUFFICES ASSUME ControlInv, [ControlNext]_controlVars PROVE ControlInv'
  OBVIOUS
<1>0. /\ account \in AppAccounts \cup {Anonymous} /\ switches \in 0..MaxSwitches /\ switches \in Nat
      /\ work \in Seq(WorkSet)
      /\ \A k \in DOMAIN work : /\ work[k].of \in Nat
                                /\ WorkOK(work[k]) /\ (k # 1 => work[k].at = "start")
      /\ MaxSwitches \in Nat
  BY ControlParts, ControlAssumption
<1>1. ASSUME switches' = switches + 1, switches < MaxSwitches, UNCHANGED work,
             account' \in AppAccounts \cup {Anonymous}, ~Busy' \/ disposed',
             AccountsStayApart'
      PROVE  ControlInv'
  <2>1. switches' \in 0..MaxSwitches
    BY <1>0, <1>1
  <2>2. \A k \in DOMAIN work : WorkOK(work[k])'
    BY <1>0, <1>1 DEF WorkOK
  <2> QED
    BY <1>0, <1>1, <2>1, <2>2 DEF ControlInv, BusyHasWork
<1>2. ASSUME NEW a \in AppAccounts \cup {Anonymous}, setAccount(a) PROVE ControlInv'
  <2>1. /\ switches < MaxSwitches /\ account' = a /\ switches' = switches + 1 /\ purchases' = Anonymous
        /\ UNCHANGED <<sdkIdentity, disposed>>
    BY <1>2 DEF setAccount
  <2>2. CASE a = Anonymous
    BY <1>1, <1>2, <2>1, <2>2 DEF setAccount, ControlInv, AccountsStayApart, Publish, Busy, Now
  <2>3. CASE a # Anonymous
    <3>1. work' = Append(work, Work("set")) /\ "set" \in Kinds
      BY <1>2, <2>3 DEF setAccount, Kinds
    <3>2. switches' \in 0..MaxSwitches /\ switches < switches' /\ account' \in AppAccounts
      BY <1>0, <2>1, <2>3
    <3>3. /\ work' \in Seq(WorkSet)
          /\ \A k \in DOMAIN work' : WorkOK(work[k])' /\ (k # 1 => work'[k].at = "start")
          /\ \E k \in DOMAIN work' : work'[k].of = switches'
          /\ work = <<>> => Head(work').at = "start"
          /\ work # <<>> => work' # <<>> /\ Head(work') = Head(work)
      BY <2>1, <3>1, <3>2, WorkQueues
    <3>4. AccountsStayApart'
      BY <2>1, <3>3 DEF ControlInv, AccountsStayApart, Now
    <3> QED
      BY <2>1, <2>3, <3>2, <3>3, <3>4 DEF ControlInv, BusyHasWork
  <2> QED
    BY <2>2, <2>3
<1>3. CASE clearAccount
  BY <1>1, <1>3 DEF clearAccount, ControlInv, AccountsStayApart, Publish, Busy, Now
<1>4. CASE Dispose
  BY <1>0, <1>1, <1>4 DEF Dispose, ControlInv, AccountsStayApart, Now
<1>5. CASE ClearIdentity
  BY <1>0, <1>5 DEF ClearIdentity, ControlInv, WorkOK, AccountsStayApart, BusyHasWork, Busy, Now
<1>6. ASSUME NEW kind \in Kinds \ {"set"}, Asked(kind) PROVE ControlInv'
  <2>1. /\ account # Anonymous /\ work' = Append(work, Work(kind))
        /\ UNCHANGED <<account, switches, purchases, sdkIdentity, disposed>>
    BY <1>6 DEF Asked
  <2>2. account' \in AppAccounts /\ switches' \in 0..MaxSwitches
    BY <1>0, <2>1
  <2>3. /\ work' \in Seq(WorkSet)
        /\ \A k \in DOMAIN work' : WorkOK(work[k])' /\ (k # 1 => work'[k].at = "start")
        /\ \E k \in DOMAIN work' : work'[k].of = switches'
        /\ work = <<>> => Head(work').at = "start"
        /\ work # <<>> => work' # <<>> /\ Head(work') = Head(work)
    BY <2>1, <2>2, WorkQueues
  <2>4. AccountsStayApart'
    BY <2>1, <2>3 DEF ControlInv, AccountsStayApart, Now
  <2> QED
    BY <2>1, <2>2, <2>3, <2>4 DEF ControlInv, BusyHasWork
<1>7. CASE Starts
  BY <1>7, WorkStep DEF Starts, Now, ControlInv, AccountsStayApart
<1>8. CASE ReadPolicy
  <2>1. work # <<>> /\ UNCHANGED <<account, switches, disposed>>
    BY <1>8 DEF ReadPolicy, Now
  <2>2. CASE ~Current(Head(work))
    BY <1>8, <2>1, <2>2, WorkStep DEF ReadPolicy, ControlInv, AccountsStayApart
  <2>3. CASE Current(Head(work))
    <3>1. Head(work).for = account
      BY <2>1, <2>3, ControlParts DEF Current, WorkOK
    <3>2. purchases'.of = account
      BY <1>8, <2>3, <3>1 DEF ReadPolicy
    <3>3. Done("ready") \/ (Continues("identify") /\ phase' = phase)
      BY <1>8, <2>3 DEF ReadPolicy
    <3> QED
      BY <2>1, <3>2, <3>3, WorkStep
  <2> QED
    BY <2>2, <2>3
<1>9. CASE Identifies
  BY <1>9, WorkStep DEF Identifies, Now, ControlInv, AccountsStayApart
<1>10. CASE Operated \/ Synchronized \/ Refreshed \/ WorkFails
  BY <1>10, WorkStep
     DEF Operated, Synchronized, Refreshed, WorkFails, Now, ControlInv, AccountsStayApart
<1>11. CASE UNCHANGED controlVars
  BY <1>0, <1>11 DEF controlVars, ControlInv, WorkOK, AccountsStayApart, BusyHasWork, Busy, Now
<1> QED
  BY <1>2, <1>3, <1>4, <1>5, <1>6, <1>7, <1>8, <1>9, <1>10, <1>11 DEF ControlNext

(***************************************************************************)
(* appbase_billing.dart, _enqueue and _run: whatever the account in use    *)
(* becomes while work is queued, what the page says of buying is of that   *)
(* account, and the store's pages are open under no other identity.        *)
(***************************************************************************)
THEOREM BillingAccountsStayApart == ControlSpec => []AccountsStayApart
<1>1. ControlInv => AccountsStayApart
  BY DEF ControlInv
<1>2. ControlSpec => []ControlInv
  BY ControlInvInit, ControlStep, PTL DEF ControlSpec
<1> QED
  BY <1>1, <1>2, PTL

(***************************************************************************)
(* appbase_billing.dart: the page is busy only while work of the account   *)
(* in use is queued, whose end will be published.                          *)
(***************************************************************************)
THEOREM PageIsBusyWithWork == ControlSpec => []BusyHasWork
<1>1. ControlInv => BusyHasWork
  BY DEF ControlInv
<1>2. ControlSpec => []ControlInv
  BY ControlInvInit, ControlStep, PTL DEF ControlSpec
<1> QED
  BY <1>1, <1>2, PTL

PurchasesType == [of : AppAccounts, enabled : BOOLEAN] \cup {Anonymous}

PhaseType == {"idle", "loading", "ready", "purchasing", "restoring", "synchronizing", "failed"}

(* What ControlInv does not say of the types. *)
ShownTyped ==
  /\ sdkIdentity \in AppAccounts \cup {Anonymous}
  /\ phase \in PhaseType /\ purchases \in PurchasesType /\ disposed \in BOOLEAN
  /\ clears \in Seq(Nat)

(* The two together are the types. *)
LEMMA ControlTyped == ControlInv /\ ShownTyped => ControlTypeOK
BY DEF ControlInv, ShownTyped, ControlTypeOK, PhaseType, PurchasesType, WorkSet

(* Nothing is shown, and nobody waits. *)
LEMMA ShownTypedInit == ControlInit => ShownTyped
<1> SUFFICES ASSUME ControlInit PROVE ShownTyped
  OBVIOUS
<1>1. clears \in Seq(Nat)
  BY DEF ControlInit
<1> QED
  BY <1>1 DEF ControlInit, ShownTyped, PhaseType, PurchasesType

(* The calls of clearAccount wait for less work. *)
LEMMA ClearsCount ==
  ASSUME clears \in Seq(Nat),
         clears' = [i \in DOMAIN clears |-> IF clears[i] = 0 THEN 0 ELSE clears[i] - 1]
  PROVE  clears' \in Seq(Nat)
<1>1. DOMAIN clears = 1..Len(clears) /\ Len(clears) \in Nat /\ \A i \in DOMAIN clears : clears[i] \in Nat
  OBVIOUS
<1>2. \A i \in DOMAIN clears : clears'[i] \in Nat
  BY <1>1
<1>3. clears' \in [1..Len(clears) -> Nat]
  BY <1>1, <1>2
<1> QED
  BY <1>1, <1>3

(* A step of the work changes the phase, at most, and what it shows of     *)
(* buying is of the account the work is for.                               *)
LEMMA TypedWorkStep ==
  ASSUME ControlInv, ShownTyped, work # <<>>, UNCHANGED <<account, switches, disposed>>,
         \/ \E result \in {"ready", "failed"} : Done(result)
         \/ \E at : Continues(at) /\ phase' \in {phase, "synchronizing"}
  PROVE  phase' \in PhaseType /\ clears' \in Seq(Nat) /\ Head(work).for \in AppAccounts
<1>1. phase \in PhaseType /\ clears \in Seq(Nat) /\ Head(work) \in WorkSet
  BY ControlParts DEF ShownTyped
<1>2. Head(work).for \in AppAccounts
  BY <1>1 DEF WorkSet
<1>3. phase' \in PhaseType
  BY <1>1 DEF Done, Publish, PhaseType
<1>4. clears' \in Seq(Nat)
  BY <1>1, ClearsCount DEF Done, Continues
<1> QED
  BY <1>2, <1>3, <1>4

(* The inductive step. *)
LEMMA ShownTypedStep == ControlInv /\ ShownTyped /\ [ControlNext]_controlVars => ShownTyped'
<1> SUFFICES ASSUME ControlInv, ShownTyped, [ControlNext]_controlVars PROVE ShownTyped'
  OBVIOUS
<1> USE DEF ShownTyped
<1>0. /\ account \in AppAccounts \cup {Anonymous} /\ sdkIdentity \in AppAccounts \cup {Anonymous}
      /\ phase \in PhaseType /\ purchases \in PurchasesType /\ disposed \in BOOLEAN
      /\ clears \in Seq(Nat)
  BY DEF ControlInv
<1>3. Len(work) \in Nat
  BY ControlParts
<1>4. CASE (\E a \in AppAccounts \cup {Anonymous} : setAccount(a)) \/ clearAccount
  <2>1. /\ purchases' = Anonymous /\ phase' \in {"idle", "loading"}
        /\ clears' = clears \/ clears' = Append(clears, Len(work))
        /\ UNCHANGED <<sdkIdentity, disposed>>
    BY <1>4 DEF setAccount, clearAccount, Publish
  <2>2. clears' \in Seq(Nat)
    BY <1>0, <1>3, <2>1
  <2> QED
    BY <1>0, <2>1, <2>2 DEF PhaseType, PurchasesType
<1>5. CASE ClearIdentity
  <2>1. clears' \in Seq(Nat)
    BY <1>0, <1>5 DEF ClearIdentity
  <2> QED
    BY <1>0, <1>5, <2>1 DEF ClearIdentity
<1>6. ASSUME NEW kind \in Kinds \ {"set"}, Asked(kind) PROVE ShownTyped'
  BY <1>0, <1>6 DEF Asked, Publish, PhaseType
<1>7. CASE Starts
  <2>1. /\ work # <<>> /\ UNCHANGED <<account, switches, disposed, sdkIdentity>>
        /\ Done("ready") \/ (Continues("account") /\ phase' = phase)
        /\ purchases' \in {purchases, Anonymous}
    BY <1>7 DEF Starts, Now
  <2> QED
    BY <1>0, <2>1, TypedWorkStep DEF PurchasesType
<1>8. CASE ReadPolicy
  <2>1. /\ work # <<>> /\ UNCHANGED <<account, switches, disposed, sdkIdentity>>
        /\ Done("ready") \/ (Continues("identify") /\ phase' = phase)
        /\ \/ purchases' = purchases
           \/ \E enabled \in BOOLEAN : purchases' = [of |-> Head(work).for, enabled |-> enabled]
    BY <1>8 DEF ReadPolicy, Now
  <2>2. phase' \in PhaseType /\ clears' \in Seq(Nat) /\ Head(work).for \in AppAccounts
    BY <2>1, TypedWorkStep
  <2> QED
    BY <1>0, <2>1, <2>2 DEF PurchasesType
<1>9. CASE Identifies
  <2>1. /\ work # <<>> /\ UNCHANGED <<account, switches, disposed, purchases>>
        /\ sdkIdentity' = Head(work).for
        /\ \/ Done("ready")
           \/ \E at : Continues(at) /\ phase' \in {phase, "synchronizing"}
    BY <1>9 DEF Identifies, Now, Publish
  <2> QED
    BY <1>0, <2>1, TypedWorkStep
<1>10. CASE Operated \/ Synchronized \/ Refreshed \/ WorkFails
  <2>1. /\ work # <<>> /\ UNCHANGED <<account, switches, disposed, purchases, sdkIdentity>>
        /\ \/ \E result \in {"ready", "failed"} : Done(result)
           \/ \E at : Continues(at) /\ phase' \in {phase, "synchronizing"}
    BY <1>10 DEF Operated, Synchronized, Refreshed, WorkFails, Now, Publish
  <2> QED
    BY <1>0, <2>1, TypedWorkStep
<1>11. CASE Dispose
  BY <1>0, <1>11 DEF Dispose
<1>12. CASE UNCHANGED controlVars
  BY <1>0, <1>12 DEF controlVars
<1> QED
  BY <1>4, <1>5, <1>6, <1>7, <1>8, <1>9, <1>10, <1>11, <1>12 DEF ControlNext

-----------------------------------------------------------------------------
(* All parts together, as one run checks them (MCDevice.tla) *)

(* Each part behaves as it does by itself: a step is one of its own, or it *)
(* leaves the part alone. *)
LEMMA PartsBehave == Spec => SessionSpec /\ LocalSpec /\ OidcSpec /\ TokensSpec /\ ControlSpec
<1>1. Init => SessionInit /\ LocalInit /\ OidcInit /\ TokensInit /\ ControlInit
  BY DEF Init
<1>2. [Next]_deviceVars =>
        /\ [SessionNext]_sessionVars /\ [LocalNext]_localVars /\ [OidcNext]_oidcVars
        /\ [TokensNext]_resourceVars /\ [ControlNext]_controlVars
  <2> SUFFICES ASSUME [Next]_deviceVars
               PROVE  /\ [SessionNext]_sessionVars /\ [LocalNext]_localVars /\ [OidcNext]_oidcVars
                      /\ [TokensNext]_resourceVars /\ [ControlNext]_controlVars
    OBVIOUS
  <2>1. CASE SessionPart
    BY <2>1 DEF SessionPart
  <2>2. CASE LocalPart
    BY <2>2 DEF LocalPart
  <2>3. CASE OidcPart
    BY <2>3 DEF OidcPart
  <2>4. CASE TokensPart
    BY <2>4 DEF TokensPart
  <2>5. CASE BillingPart
    BY <2>5 DEF BillingPart
  <2>6. CASE UNCHANGED deviceVars
    BY <2>6 DEF deviceVars
  <2> QED
    BY <2>1, <2>2, <2>3, <2>4, <2>5, <2>6 DEF Next
<1> QED
  BY <1>1, <1>2, PTL DEF Spec, SessionSpec, LocalSpec, OidcSpec, TokensSpec, ControlSpec

(***************************************************************************)
(* The state of a device is well typed, in all of its parts.  What that    *)
(* takes beyond the types themselves: a session is opened for a subject    *)
(* (account_session.dart), a run that pulls has a checkpoint               *)
(* (drift_persistence.dart), and whoever waits in the queue of a grant     *)
(* waits once and for a resource (oidc_session.dart).                      *)
(***************************************************************************)
THEOREM DeviceIsTyped == Spec => []DeviceTypeOK
<1>1. SessionSpec => []SessionTypeOK
  <2>1. SessionTypes => SessionTypeOK
    BY DEF SessionTypes
  <2> QED
    BY <2>1, SessionTypesInit, SessionTypesStep, PTL DEF SessionSpec
<1>2. LocalSpec => []LocalTypeOK
  <2>1. LocalTypes => LocalTypeOK
    BY DEF LocalTypes
  <2> QED
    BY <2>1, LocalTypesInit, LocalTypesStep, PTL DEF LocalSpec
<1>3. OidcSpec => []OidcTypeOK
  <2>1. OidcInv => OidcTypeOK
    BY DEF OidcInv
  <2> QED
    BY <2>1, OidcInvInit, OidcStep, PTL DEF OidcSpec
<1>4. TokensSpec => []TokensTypeOK
  BY TokensInvInit, TokensStep, TokensTyped, PTL DEF TokensSpec
<1>5. ControlSpec => []ControlTypeOK
  BY ControlInvInit, ControlStep, ShownTypedInit, ShownTypedStep, ControlTyped, PTL DEF ControlSpec
<1>6. DeviceTypeOK <=> SessionTypeOK /\ LocalTypeOK /\ OidcTypeOK /\ TokensTypeOK /\ ControlTypeOK
  BY DEF DeviceTypeOK
<1> QED
  BY PartsBehave, <1>1, <1>2, <1>3, <1>4, <1>5, <1>6, PTL

=============================================================================
