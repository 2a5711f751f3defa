----------------------------- MODULE AdminLogin -----------------------------
(***************************************************************************)
(* Administration sessions of the confidential client (packages/server/    *)
(* src/http/admin_oidc.ts over adapters/d1_admin_sessions.ts).  A login    *)
(* leaves an attempt in the database and in a cookie; callbacks, repeated  *)
(* or concurrent, consume it, exchange the provider's code and replace the *)
(* browser's session.  A session is named after the attempt it came from.  *)
(***************************************************************************)
EXTENDS Integers

CONSTANTS
  Browsers,
  Attempts,     \* random states of login attempts
  Callbacks,    \* callback requests in progress
  AttemptLife,  \* five minutes
  SessionLife,  \* the longest session: five minutes
  EndOfTime,    \* bound
  Nothing

ASSUME LoginAssumption ==
  /\ AttemptLife \in Nat /\ SessionLife \in Nat /\ EndOfTime \in Nat
  /\ Nothing \notin Attempts /\ Nothing \notin Nat

VARIABLES
  now,
  attemptRow,  \* appbase_admin_login_attempts: when each expires, or Nothing
  sessionRow,  \* appbase_admin_sessions, likewise
  cookies,     \* the attempt and the session cookie of each browser
  callback,
  begun,       \* history: attempts ever begun
  exchanges    \* history: when the code of an attempt was exchanged

loginVars == <<now, attemptRow, sessionRow, cookies, callback, begun, exchanges>>

NoCallback == [phase |-> "none", browser |-> Nothing, attempt |-> Nothing, previous |-> Nothing]

LoginInit ==
  /\ now = 0
  /\ attemptRow = [a \in Attempts |-> Nothing]
  /\ sessionRow = [a \in Attempts |-> Nothing]
  /\ cookies = [b \in Browsers |-> [attempt |-> Nothing, session |-> Nothing]]
  /\ callback = [k \in Callbacks |-> NoCallback]
  /\ begun = {}
  /\ exchanges = [a \in Attempts |-> {}]

Live(row, id) == row[id] # Nothing /\ row[id] > now

(* pruneExpired, for tables that hold fewer than its 100 rows. *)
Pruned(row) == [id \in Attempts |-> IF Live(row, id) THEN row[id] ELSE Nothing]

Elapse ==
  /\ now < EndOfTime /\ now' = now + 1
  /\ UNCHANGED <<attemptRow, sessionRow, cookies, callback, begun, exchanges>>

(* GET login *)
Login(b, a) ==
  /\ a \notin begun
  /\ begun' = begun \cup {a}
  /\ attemptRow' = [Pruned(attemptRow) EXCEPT ![a] = now + AttemptLife]
  /\ sessionRow' = Pruned(sessionRow)
  /\ cookies' = [cookies EXCEPT ![b].attempt = a]
  /\ UNCHANGED <<now, callback, exchanges>>

(* GET callback; until it is answered the browser keeps its cookies and    *)
(* may send the request again.                                             *)
Arrive(k, b) ==
  /\ callback[k] = NoCallback /\ cookies[b].attempt # Nothing
  /\ callback' = [callback EXCEPT ![k] = [phase |-> "consume", browser |-> b,
       attempt |-> cookies[b].attempt, previous |-> cookies[b].session]]
  /\ UNCHANGED <<now, attemptRow, sessionRow, cookies, begun, exchanges>>

Proceed(k, phase) == callback' = [callback EXCEPT ![k].phase = phase]

(* The answer deletes the attempt cookie, whichever it is by now. *)
Answered(k, session) ==
  /\ callback' = [callback EXCEPT ![k] = NoCallback]
  /\ cookies' = [cookies EXCEPT ![callback[k].browser] = [attempt |-> Nothing, session |-> session]]

Refused(k) == Answered(k, cookies[callback[k].browser].session)

(* Mutant: the attempt is only looked up here and expires by itself. *)
ConsumeLater(k) ==
  LET a == callback[k].attempt
  IN  /\ callback[k].phase = "consume"
      /\ sessionRow' = Pruned(sessionRow)
      /\ attemptRow' = Pruned(attemptRow)
      /\ IF Live(attemptRow, a) THEN Proceed(k, "exchange") /\ UNCHANGED cookies ELSE Refused(k)
      /\ UNCHANGED <<now, begun, exchanges>>

(* consumeAttempt: the DELETE decides. *)
ConsumeAttempt(k) ==
  LET a == callback[k].attempt
  IN  /\ callback[k].phase = "consume"
      /\ sessionRow' = Pruned(sessionRow)
      /\ attemptRow' = [Pruned(attemptRow) EXCEPT ![a] = Nothing]
      /\ IF Live(attemptRow, a) THEN Proceed(k, "exchange") /\ UNCHANGED cookies ELSE Refused(k)
      /\ UNCHANGED <<now, begun, exchanges>>

ExchangeCode(k) ==
  /\ callback[k].phase = "exchange"
  /\ exchanges' = [exchanges EXCEPT ![callback[k].attempt] = @ \cup {<<k, now>>}]
  /\ Proceed(k, "replace")
  /\ UNCHANGED <<now, attemptRow, sessionRow, cookies, begun>>

(* The provider or one of the checks refuses the login. *)
RefuseLogin(k) ==
  /\ callback[k].phase \in {"exchange", "replace", "put"}
  /\ Refused(k)
  /\ UNCHANGED <<now, attemptRow, sessionRow, begun, exchanges>>

DeleteSession(id) ==
  sessionRow' = IF id = Nothing THEN sessionRow ELSE [sessionRow EXCEPT ![id] = Nothing]

ReplaceSession(k) ==
  /\ callback[k].phase = "replace"
  /\ DeleteSession(callback[k].previous)
  /\ Proceed(k, "put")
  /\ UNCHANGED <<now, attemptRow, cookies, begun, exchanges>>

(* The session lasts as long as the tokens, and no longer than its bound.  *)
PutSession(k, duration) ==
  /\ callback[k].phase = "put"
  /\ attemptRow' = Pruned(attemptRow)
  /\ sessionRow' = [Pruned(sessionRow) EXCEPT ![callback[k].attempt] = now + duration]
  /\ Answered(k, callback[k].attempt)
  /\ UNCHANGED <<now, begun, exchanges>>

(* POST logout *)
Logout(b) ==
  /\ cookies[b].session # Nothing
  /\ DeleteSession(cookies[b].session)
  /\ cookies' = [cookies EXCEPT ![b].session = Nothing]
  /\ UNCHANGED <<now, attemptRow, callback, begun, exchanges>>

(* authenticate prunes and finds the session of the cookie, or refuses.    *)
Authenticate(b) ==
  /\ cookies[b].session # Nothing
  /\ attemptRow' = Pruned(attemptRow) /\ sessionRow' = Pruned(sessionRow)
  /\ UNCHANGED <<now, cookies, callback, begun, exchanges>>

LoginNext ==
  \/ Elapse
  \/ \E b \in Browsers : Logout(b) \/ Authenticate(b) \/ (\E a \in Attempts : Login(b, a))
  \/ \E k \in Callbacks :
       \/ \E b \in Browsers : Arrive(k, b)
       \/ ConsumeAttempt(k) \/ ExchangeCode(k) \/ RefuseLogin(k) \/ ReplaceSession(k)
       \/ \E duration \in 1..SessionLife : PutSession(k, duration)

LoginSpec == LoginInit /\ [][LoginNext]_loginVars

-----------------------------------------------------------------------------
Expiries == (0..(EndOfTime + AttemptLife + SessionLife)) \cup {Nothing}

LoginTypeOK ==
  /\ now \in 0..EndOfTime
  /\ attemptRow \in [Attempts -> Expiries] /\ sessionRow \in [Attempts -> Expiries]
  /\ cookies \in [Browsers -> [attempt : Attempts \cup {Nothing}, session : Attempts \cup {Nothing}]]
  /\ \A k \in Callbacks : callback[k] = NoCallback \/ callback[k].attempt \in begun

(***************************************************************************)
(* "Login attempts are consumed atomically before code exchange,           *)
(* preventing callback replay" (docs/admin.md): however callbacks of one   *)
(* login overlap, one of them exchanges its code, and the others create no *)
(* session.                                                                *)
(***************************************************************************)
AttemptUsedOnce ==
  \A a \in Attempts : \A one, other \in exchanges[a] : one = other

=============================================================================
