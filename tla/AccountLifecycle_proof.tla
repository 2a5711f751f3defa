----------------------- MODULE AccountLifecycle_proof -----------------------
(***************************************************************************)
(* Proofs about AccountLifecycle.tla: the fence around deleted accounts    *)
(* and the rules about who holds what, for any number of identities,       *)
(* devices, accounts, environments and concurrent requests and cron runs.  *)
(***************************************************************************)
EXTENDS AccountLifecycle, TLAPS

(***************************************************************************)
(* The inductive invariant.  StateOK says what a process may be at (a      *)
(* constant-level operator, so that it can be used of the next state too): *)
(* the account a session is about to be issued for is the identity's own   *)
(* and the pinned one, and what is about to be forgotten has been erased.  *)
(***************************************************************************)
Opening == {"signIn", "register", "insert", "reread", "session"}
Holding == {"session", "check", "write", "identity", "request", "postpone"} \cup CleanupPhases

StateOK(x, reg, gone) ==
  /\ x.phase \in Opening => x.device \in Devices
  /\ x.phase \in Holding => x.account \in Accounts
  /\ x.phase = "session" => /\ reg[x.account] = DeviceSubject[x.device]
                            /\ x.pinned \in {NoAccount, x.account}
  /\ x.phase = "forget" => /\ x.identity \in Environments
                           /\ <<x.account, x.identity>> \in gone

ProcessesOK == \A p \in Processes : StateOK(process[p], registrant, erased)

(* An account keeps its subject from its registration to the end of its    *)
(* deletion, and a subject is that of one account.                         *)
Ownership ==
  /\ \A a \in Accounts : status[a] = "unused" => registrant[a] = NoSubject
  /\ \A a \in Accounts : subject[a] = IF status[a] \in {"active", "deleting"}
                                      THEN registrant[a] ELSE NoSubject
  /\ \A a \in Accounts : status[a] # "unused" => registrant[a] # NoSubject
  /\ \A a, b \in Accounts : subject[a] = subject[b] /\ subject[a] # NoSubject => a = b

SessionsHeld ==
  \A d \in Devices, a \in Accounts :
    <<d, a>> \in sessions => registrant[a] = DeviceSubject[d]

NothingLeft == \A a \in Accounts, e \in Environments :
                 status[a] = "deleted" => <<a, e>> \notin billing

IInv ==
  /\ TypeOK
  /\ ProcessesOK
  /\ Ownership
  /\ DataFenced
  /\ issued \subseteq billing \cup erased
  /\ NothingLeft
  /\ SessionsHeld

(* The inductive invariant gives the properties the runs check.      *)
LEMMA IInvImplies ==
  IInv => TypeOK /\ DataFenced /\ CustomersErased /\ OneLiveAccount /\ SessionsBelong
<1> SUFFICES ASSUME IInv
             PROVE  TypeOK /\ DataFenced /\ CustomersErased /\ OneLiveAccount /\ SessionsBelong
  OBVIOUS
<1>1. TypeOK /\ DataFenced
  BY DEF IInv
<1>2. CustomersErased
  BY DEF IInv, CustomersErased, NothingLeft
<1>3. OneLiveAccount
  <2> SUFFICES ASSUME NEW a \in Accounts, NEW b \in Accounts, a # b,
                      registrant[a] = registrant[b], registrant[a] # NoSubject,
                      status[a] # "deleted", status[b] # "deleted"
               PROVE  FALSE
    BY DEF OneLiveAccount
  <2>1. status[a] \in {"active", "deleting"} /\ status[b] \in {"active", "deleting"}
    BY DEF IInv, TypeOK, Ownership
  <2>2. subject[a] = registrant[a] /\ subject[b] = registrant[b]
    BY <2>1 DEF IInv, Ownership
  <2> QED
    BY <2>2 DEF IInv, Ownership
<1>4. SessionsBelong
  BY DEF IInv, SessionsBelong, SessionsHeld, ProcessesOK, StateOK
<1> QED
  BY <1>1, <1>2, <1>3, <1>4

(* Every legacy account has one identity.                                  *)
LEMMA InitIInv == Init => IInv
<1> SUFFICES ASSUME Init PROVE IInv
  OBVIOUS
<1> DEFINE Owner(a) == CHOOSE s \in Subjects : LegacyAccount[s] = a
<1>1. \A a \in Legacy : Owner(a) \in Subjects /\ LegacyAccount[Owner(a)] = a
  BY DEF Legacy
<1>2. Legacy \subseteq Accounts
  BY DEF Legacy
<1>3. subject \in [Accounts -> Subjects \cup {NoSubject}]
  BY <1>1 DEF Init
<1>4. \A a \in Accounts : (a \in Legacy => subject[a] = Owner(a)) /\ (a \notin Legacy => subject[a] = NoSubject)
  BY DEF Init
<1>5. Free \in Process
  BY DEF Free, Run, Process, Phases
<1>6. TypeOK
  <2>1. process \in [Processes -> Process]
    BY <1>5 DEF Init
  <2>2. cleanup \in [Accounts -> {"never", "later", "due"}]
    BY DEF Init
  <2>3. status \in [Accounts -> {"unused", "active", "deleting", "deleted"}]
    BY DEF Init
  <2> QED
    BY <1>2, <1>3, <2>1, <2>2, <2>3 DEF Init, TypeOK
<1>7. ProcessesOK
  BY DEF Init, ProcessesOK, StateOK, Free, Run, Opening, Holding, CleanupPhases
<1>8. Ownership
  <2> HIDE DEF Owner
  <2>1. \A a \in Accounts : status[a] = "unused" <=> a \notin Legacy
    BY DEF Init
  <2>2. \A a \in Accounts : status[a] \in {"unused", "active", "deleting"}
    BY DEF Init
  <2>3. registrant = subject
    BY DEF Init
  <2>4. \A a, b \in Accounts : subject[a] = subject[b] /\ subject[a] # NoSubject => a = b
    BY <1>1, <1>4
  <2>5. \A a \in Legacy : subject[a] # NoSubject
    BY <1>1, <1>2, <1>4, NoneAssumption
  <2> QED
    BY <1>4, <2>1, <2>2, <2>3, <2>4, <2>5 DEF Ownership
<1>9. DataFenced
  BY DEF Init, DataFenced, Fenced
<1>10. issued \subseteq billing \cup erased /\ NothingLeft /\ SessionsHeld
  BY DEF Init, NothingLeft, SessionsHeld
<1> QED
  BY <1>6, <1>7, <1>8, <1>9, <1>10 DEF IInv

-----------------------------------------------------------------------------
(* One process moves to a state that is in order; the others stay in order *)
(* when nothing they rest on is taken back.                                *)
LEMMA Move ==
  ASSUME IInv, NEW p \in Processes, NEW x \in Process, Becomes(p, x),
         StateOK(x, registrant', erased'), erased \subseteq erased',
         \A a \in Accounts : registrant[a] # NoSubject => registrant'[a] = registrant[a]
  PROVE  process' \in [Processes -> Process] /\ ProcessesOK'
<1>1. process' \in [Processes -> Process]
  BY DEF IInv, TypeOK, Becomes
<1>2. ASSUME NEW q \in Processes PROVE StateOK(process'[q], registrant', erased')
  <2>1. CASE q = p
    BY <2>1 DEF IInv, TypeOK, Becomes
  <2>2. CASE q # p
    <3>1. process'[q] = process[q]
      BY <2>2 DEF IInv, TypeOK, Becomes
    <3>2. StateOK(process[q], registrant, erased) /\ process[q] \in Process
      BY DEF IInv, ProcessesOK, TypeOK
    <3>3. process[q].phase = "session" => DeviceSubject[process[q].device] # NoSubject
      BY <3>2, DeviceAssumption, NoneAssumption DEF StateOK, Opening
    <3>4. process[q].phase = "session" => process[q].account \in Accounts
      BY <3>2 DEF StateOK, Holding
    <3> QED
      BY <3>1, <3>2, <3>3, <3>4 DEF StateOK
  <2> QED
    BY <2>1, <2>2
<1> QED
  BY <1>1, <1>2 DEF ProcessesOK

(* A step that changes no table and no history.                            *)
LEMMA MoveOnly ==
  ASSUME IInv, NEW p \in Processes, NEW x \in Process, Becomes(p, x),
         StateOK(x, registrant, erased), UNCHANGED <<tables, history>>
  PROVE  IInv'
<1>1. UNCHANGED <<status, subject, cleanup, rows, billing, sessions, registrant, issued, erased>>
  BY DEF tables, history
<1>2. process' \in [Processes -> Process] /\ ProcessesOK'
  BY <1>1, Move
<1> QED
  BY <1>1, <1>2 DEF IInv, TypeOK, Ownership, DataFenced, Fenced, NothingLeft, SessionsHeld

(* The states processes go to.                                             *)
LEMMA FreeOK == Free \in Process /\ \A reg, gone : StateOK(Free, reg, gone)
BY DEF Free, Run, Process, Phases, StateOK, Opening, Holding, CleanupPhases

(* A state of a request. *)
LEMMA RunOK ==
  ASSUME NEW phase \in RequestPhases, NEW d \in Devices \cup {NoDevice},
         NEW pinned \in Accounts \cup {NoAccount}, NEW a \in Accounts \cup {NoAccount},
         NEW reg, NEW gone,
         phase \in Opening => d \in Devices,
         phase \in Holding => a \in Accounts,
         phase = "session" => reg[a] = DeviceSubject[d] /\ pinned \in {NoAccount, a}
  PROVE  /\ Run(phase, d, pinned, a) \in Process
         /\ StateOK(Run(phase, d, pinned, a), reg, gone)
<1>1. Run(phase, d, pinned, a) \in Process
  BY DEF Run, Process, Phases
<1>2. phase # "forget"
  BY DEF RequestPhases
<1> QED
  BY <1>1, <1>2 DEF Run, StateOK

(* A state of a cleanup. *)
LEMMA CleanOK ==
  ASSUME NEW phase \in CleanupPhases \cup {"postpone"}, NEW a \in Accounts,
         NEW left \in SUBSET Environments, NEW e \in Environments \cup {NoEnvironment},
         NEW queue \in SUBSET Accounts, NEW reg, NEW gone,
         phase = "forget" => e \in Environments /\ <<a, e>> \in gone
  PROVE  /\ Clean(phase, a, left, e, queue) \in Process
         /\ StateOK(Clean(phase, a, left, e, queue), reg, gone)
<1>1. Clean(phase, a, left, e, queue) \in Process
  BY DEF Clean, Process, Phases
<1>2. phase # "session" /\ phase \notin Opening
  BY DEF CleanupPhases, Opening
<1> QED
  BY <1>1, <1>2 DEF Clean, StateOK

-----------------------------------------------------------------------------
(* What is known of a process that takes a step.                           *)
LEMMA Here ==
  ASSUME IInv, NEW p \in Processes
  PROVE  /\ process[p] \in Process
         /\ StateOK(process[p], registrant, erased)
BY DEF IInv, TypeOK, ProcessesOK

(* Requests arrive.                                                        *)
LEMMA ArriveStep ==
  ASSUME IInv, NEW p \in Processes, Arrive(p)
  PROVE  IInv'
<1>1. CASE ArriveOpen(p)
  <2>1. PICK d \in Devices, pinned \in Accounts \cup {NoAccount},
             phase \in {"signIn", "register"} : Becomes(p, Run(phase, d, pinned, NoAccount))
    BY <1>1 DEF ArriveOpen
  <2>2. /\ Run(phase, d, pinned, NoAccount) \in Process
        /\ StateOK(Run(phase, d, pinned, NoAccount), registrant, erased)
    BY RunOK DEF RequestPhases, Opening, Holding, CleanupPhases
  <2> QED
    BY <1>1, <2>1, <2>2, MoveOnly DEF ArriveOpen
<1>2. CASE ArriveWithSession(p)
  <2>1. PICK session \in sessions, phase \in {"check", "identity", "request"} :
               Becomes(p, Run(phase, NoDevice, NoAccount, session[2]))
    BY <1>2 DEF ArriveWithSession
  <2>2. session[2] \in Accounts
    BY DEF IInv, TypeOK
  <2>3. /\ Run(phase, NoDevice, NoAccount, session[2]) \in Process
        /\ StateOK(Run(phase, NoDevice, NoAccount, session[2]), registrant, erased)
    BY <2>2, RunOK DEF RequestPhases, Opening
  <2> QED
    BY <1>2, <2>1, <2>3, MoveOnly DEF ArriveWithSession
<1>3. CASE ArriveLegacy(p)
  <2>1. PICK s \in Subjects : /\ LegacyAccount[s] # NoAccount
                              /\ Becomes(p, Run("write", NoDevice, NoAccount, LegacyAccount[s]))
    BY <1>3 DEF ArriveLegacy
  <2>2. LegacyAccount[s] \in Accounts
    BY <2>1, LegacyAssumption
  <2>3. /\ Run("write", NoDevice, NoAccount, LegacyAccount[s]) \in Process
        /\ StateOK(Run("write", NoDevice, NoAccount, LegacyAccount[s]), registrant, erased)
    BY <2>2, RunOK DEF RequestPhases, Opening
  <2> QED
    BY <1>3, <2>1, <2>3, MoveOnly DEF ArriveLegacy
<1> QED
  BY <1>1, <1>2, <1>3 DEF Arrive

(* The account a sign-in settles on is the identity's own.                 *)
LEMMA OpenExistingStep ==
  ASSUME IInv, NEW p \in Processes, OpenExisting(p)
  PROVE  IInv'
<1> DEFINE d == process[p].device
           pinned == process[p].pinned
<1>1. PICK a \in Found(p) : Usable(p, a) /\ Becomes(p, Run("session", d, pinned, a))
  BY DEF OpenExisting
<1>2. d \in Devices /\ pinned \in Accounts \cup {NoAccount}
  BY Here DEF OpenExisting, StateOK, Opening, Process
<1>3. a \in Accounts /\ pinned \in {NoAccount, a} /\ subject[a] = DeviceSubject[d]
  BY <1>1, <1>2 DEF Found, Usable, Current
<1>4. registrant[a] = DeviceSubject[d]
  BY <1>1, <1>3 DEF IInv, Ownership, Usable
<1> HIDE DEF d, pinned
<1>5. /\ Run("session", d, pinned, a) \in Process
      /\ StateOK(Run("session", d, pinned, a), registrant, erased)
  BY <1>2, <1>3, <1>4, RunOK DEF RequestPhases
<1> QED
  BY <1>1, <1>5, MoveOnly DEF OpenExisting

(* The branches of open that write nothing.                                *)
LEMMA OpenReadStep ==
  ASSUME IInv, NEW p \in Processes, OpenNew(p) \/ OpenRefused(p) \/ Reread(p)
  PROVE  IInv'
<1> DEFINE d == process[p].device
<1>1. CASE OpenNew(p)
  <2>1. d \in Devices
    BY <1>1, Here DEF OpenNew, StateOK, Opening
  <2>2. /\ Run("insert", d, NoAccount, NoAccount) \in Process
        /\ StateOK(Run("insert", d, NoAccount, NoAccount), registrant, erased)
    BY <2>1, RunOK DEF RequestPhases, Holding, CleanupPhases
  <2> QED
    BY <1>1, <2>2, MoveOnly DEF OpenNew
<1>2. CASE OpenRefused(p)
  BY <1>2, FreeOK, MoveOnly DEF OpenRefused
<1>3. CASE Reread(p)
  <2>1. CASE Becomes(p, Free)
    BY <1>3, <2>1, FreeOK, MoveOnly DEF Reread
  <2>2. CASE ~Becomes(p, Free)
    <3>1. PICK a \in Current(DeviceSubject[d]) :
            status[a] = "active" /\ Becomes(p, Run("session", d, NoAccount, a))
      BY <1>3, <2>2 DEF Reread
    <3>2. d \in Devices
      BY <1>3, Here DEF Reread, StateOK, Opening
    <3>3. a \in Accounts /\ registrant[a] = DeviceSubject[d]
      BY <3>1 DEF IInv, Ownership, Current
    <3>4. /\ Run("session", d, NoAccount, a) \in Process
          /\ StateOK(Run("session", d, NoAccount, a), registrant, erased)
      BY <3>2, <3>3, RunOK DEF RequestPhases
    <3> QED
      BY <1>3, <3>1, <3>4, MoveOnly DEF Reread
  <2> QED
    BY <2>1, <2>2
<1> QED
  BY <1>1, <1>2, <1>3

(* A registration under the unique index.                                  *)
LEMMA InsertStep ==
  ASSUME IInv, NEW p \in Processes, Insert(p)
  PROVE  IInv'
<1> DEFINE d == process[p].device
           s == DeviceSubject[d]
           x == Run("reread", d, NoAccount, NoAccount)
<1>1. d \in Devices /\ s \in Subjects /\ s # NoSubject
  BY Here, DeviceAssumption, NoneAssumption DEF Insert, StateOK, Opening
<1>2. x \in Process /\ \A reg, gone : StateOK(x, reg, gone)
  BY <1>1, RunOK DEF RequestPhases, Holding, CleanupPhases
<1>3. Becomes(p, x) /\ UNCHANGED <<cleanup, rows, billing, sessions, issued, erased>>
  BY DEF Insert
<1> HIDE DEF x
<1>4. CASE UNCHANGED <<status, subject, registrant>>
  BY <1>2, <1>3, <1>4, MoveOnly DEF tables, history
<1>5. CASE ~UNCHANGED <<status, subject, registrant>>
  <2>1. PICK a \in Accounts : /\ Current(s) = {}
                              /\ status[a] = "unused"
                              /\ status' = [status EXCEPT ![a] = "active"]
                              /\ subject' = [subject EXCEPT ![a] = s]
                              /\ registrant' = [registrant EXCEPT ![a] = s]
    BY <1>5 DEF Insert
  <2> HIDE DEF s
  <2>2. \A b \in Accounts : registrant[b] # NoSubject => registrant'[b] = registrant[b]
    BY <2>1 DEF IInv, TypeOK, Ownership
  <2>3. process' \in [Processes -> Process] /\ ProcessesOK'
    BY <1>2, <1>3, <2>2, Move
  <2>4. TypeOK'
    BY <1>1, <1>3, <2>1, <2>3 DEF IInv, TypeOK
  <2>5. Ownership'
    <3>1. \A b \in Accounts : b # a => /\ subject'[b] = subject[b]
                                       /\ registrant'[b] = registrant[b]
                                       /\ status'[b] = status[b]
      BY <2>1 DEF IInv, TypeOK
    <3>2. subject'[a] = s /\ registrant'[a] = s /\ status'[a] = "active"
      BY <2>1 DEF IInv, TypeOK
    <3>3. \A b \in Accounts : subject[b] # s
      BY <2>1 DEF Current
    <3> QED
      BY <1>1, <3>1, <3>2, <3>3 DEF IInv, Ownership
  <2>6. DataFenced' /\ NothingLeft' /\ issued' \subseteq billing' \cup erased'
    BY <1>3, <2>1 DEF IInv, TypeOK, DataFenced, Fenced, NothingLeft
  <2>7. SessionsHeld'
    BY <1>3, <2>2, DeviceAssumption, NoneAssumption DEF IInv, SessionsHeld
  <2> QED
    BY <2>3, <2>4, <2>5, <2>6, <2>7 DEF IInv
<1> QED
  BY <1>4, <1>5

(* A session is stored for the account that was looked up.                 *)
LEMMA SaveSessionStep ==
  ASSUME IInv, NEW p \in Processes, SaveSession(p)
  PROVE  IInv'
<1> DEFINE d == process[p].device
           a == process[p].account
<1>1. d \in Devices /\ a \in Accounts /\ registrant[a] = DeviceSubject[d]
  BY Here DEF SaveSession, StateOK, Opening, Holding
<1>2. UNCHANGED <<status, subject, cleanup, rows, billing, registrant, issued, erased>>
  BY DEF SaveSession, history
<1>3. process' \in [Processes -> Process] /\ ProcessesOK'
  BY <1>2, FreeOK, Move DEF SaveSession
<1>4. sessions' \in SUBSET (Devices \X Accounts) /\ SessionsHeld'
  <2>1. sessions' = sessions \/ sessions' = sessions \cup {<<d, a>>}
    BY DEF SaveSession
  <2> HIDE DEF d, a
  <2> QED
    BY <1>1, <1>2, <2>1 DEF IInv, TypeOK, SessionsHeld
<1> QED
  BY <1>2, <1>3, <1>4 DEF IInv, TypeOK, Ownership, DataFenced, Fenced, NothingLeft

(* Sessions that end, time that passes: tables shrink or do not matter.    *)
LEMMA EnvironmentStep ==
  ASSUME IInv,
         (\E session \in sessions : EndSession(session)) \/ (\E a \in Accounts : Tick(a))
  PROVE  IInv'
<1>1. CASE \E session \in sessions : EndSession(session)
  BY <1>1 DEF IInv, EndSession, TypeOK, ProcessesOK, Ownership, DataFenced, Fenced,
              NothingLeft, SessionsHeld, history
<1>2. CASE \E a \in Accounts : Tick(a)
  BY <1>2 DEF IInv, Tick, TypeOK, ProcessesOK, Ownership, DataFenced, Fenced,
              NothingLeft, SessionsHeld, history
<1> QED
  BY <1>1, <1>2

(* Requests use an account.                                                *)
LEMMA UseStep ==
  ASSUME IInv, NEW p \in Processes, Use(p)
  PROVE  IInv'
<1> DEFINE a == process[p].account
<1>1. CASE Check(p)
  <2>1. a \in Accounts
    BY <1>1, Here DEF Check, StateOK, Holding
  <2>2. /\ Run("write", NoDevice, NoAccount, a) \in Process
        /\ StateOK(Run("write", NoDevice, NoAccount, a), registrant, erased)
    BY <2>1, RunOK DEF RequestPhases, Opening
  <2> QED
    BY <1>1, <2>2, FreeOK, MoveOnly DEF Check
<1>2. CASE Write(p)
  <2>1. a \in Accounts
    BY <1>2, Here DEF Write, StateOK, Holding
  <2>2. UNCHANGED <<status, subject, cleanup, billing, sessions, registrant, issued, erased>>
    BY <1>2 DEF Write, history
  <2>3. process' \in [Processes -> Process] /\ ProcessesOK'
    <3>1. CASE UNCHANGED process
      BY <2>2, <3>1 DEF IInv, TypeOK, ProcessesOK
    <3>2. CASE Becomes(p, Free)
      BY <2>2, <3>2, FreeOK, Move
    <3> QED
      BY <1>2, <3>1, <3>2 DEF Write
  <2>4. rows' \in SUBSET Accounts /\ DataFenced'
    BY <1>2, <2>1, <2>2 DEF Write, IInv, TypeOK, DataFenced, Fenced
  <2> QED
    BY <2>2, <2>3, <2>4 DEF IInv, TypeOK, Ownership, NothingLeft, SessionsHeld
<1>3. CASE Finish(p)
  BY <1>3, FreeOK, MoveOnly DEF Finish
<1>4. CASE Identity(p)
  <2>1. a \in Accounts
    BY <1>4, Here DEF Identity, StateOK, Holding
  <2>2. UNCHANGED <<status, subject, cleanup, rows, sessions, registrant, erased>>
    BY <1>4 DEF Identity
  <2>3. process' \in [Processes -> Process] /\ ProcessesOK'
    BY <1>4, <2>2, FreeOK, Move DEF Identity
  <2>4. /\ billing' \in SUBSET (Accounts \X Environments)
        /\ issued' \in SUBSET (Accounts \X Environments)
        /\ issued' \subseteq billing' \cup erased'
        /\ NothingLeft'
    <3>1. CASE UNCHANGED <<billing, issued>>
      BY <2>2, <3>1 DEF IInv, TypeOK, NothingLeft
    <3>2. CASE ~UNCHANGED <<billing, issued>>
      <4>1. PICK e \in Environments : /\ billing' = billing \cup {<<a, e>>}
                                      /\ issued' = issued \cup {<<a, e>>}
        BY <1>4, <3>2 DEF Identity
      <4>2. status[a] # "deleted"
        BY <1>4, <3>2 DEF Identity, Fenced
      <4> HIDE DEF a
      <4> QED
        BY <2>1, <2>2, <4>1, <4>2 DEF IInv, TypeOK, NothingLeft
    <3> QED
      BY <3>1, <3>2
  <2> QED
    BY <2>2, <2>3, <2>4 DEF IInv, TypeOK, Ownership, DataFenced, Fenced, SessionsHeld
<1> QED
  BY <1>1, <1>2, <1>3, <1>4 DEF Use

-----------------------------------------------------------------------------
(* The state a cron run or a finished cleanup goes on in.                  *)
LEMMA ContinueOK ==
  ASSUME NEW p \in Processes, NEW queue \in SUBSET Accounts, NEW reg, NEW gone,
         Continue(p, queue)
  PROVE  \E x \in Process : StateOK(x, reg, gone) /\ Becomes(p, x)
<1>1. CASE Becomes(p, Free)
  BY <1>1, FreeOK
<1>2. CASE ~Becomes(p, Free)
  <2>1. PICK a \in queue : Becomes(p, Clean("begin", a, {}, NoEnvironment, queue \ {a}))
    BY <1>2 DEF Continue
  <2>2. /\ Clean("begin", a, {}, NoEnvironment, queue \ {a}) \in Process
        /\ StateOK(Clean("begin", a, {}, NoEnvironment, queue \ {a}), reg, gone)
    BY CleanOK DEF CleanupPhases
  <2> QED
    BY <2>1, <2>2
<1> QED
  BY <1>1, <1>2

(* A cleanup has an account, and typed fields.                             *)
LEMMA Cleaning ==
  ASSUME IInv, NEW p \in Processes, process[p].phase \in CleanupPhases \cup {"request", "postpone"}
  PROVE  /\ process[p].account \in Accounts
         /\ process[p].left \in SUBSET Environments
         /\ process[p].queue \in SUBSET Accounts
BY Here DEF StateOK, Holding, Process

(* The fence goes up and the rows go, in one batch.                        *)
LEMMA BeginStep ==
  ASSUME IInv, NEW p \in Processes, Begin(p)
  PROVE  IInv'
<1> DEFINE a == process[p].account
           x == Clean(IF process[p].phase = "request" THEN "begin" ELSE "pending",
                      a, {}, NoEnvironment, process[p].queue)
<1>1. a \in Accounts /\ process[p].queue \in SUBSET Accounts
  BY Cleaning DEF Begin, CleanupPhases
<1>2. x \in Process /\ StateOK(x, registrant, erased)
  BY <1>1, CleanOK DEF CleanupPhases
<1>3. Becomes(p, x) /\ rows' = rows \ {a}
      /\ UNCHANGED <<subject, billing, sessions, registrant, issued, erased>>
  BY DEF Begin, history
<1> HIDE DEF x
<1>4. process' \in [Processes -> Process] /\ ProcessesOK'
  BY <1>2, <1>3, Move
<1>5. \/ status[a] # "active" /\ UNCHANGED <<status, cleanup>>
      \/ /\ status[a] = "active"
         /\ status' = [status EXCEPT ![a] = "deleting"]
         /\ cleanup' = [cleanup EXCEPT ![a] = "due"]
  BY DEF Begin
<1> HIDE DEF a
<1>6. /\ status' \in [Accounts -> {"unused", "active", "deleting", "deleted"}]
      /\ cleanup' \in [Accounts -> {"never", "later", "due"}]
  BY <1>1, <1>5 DEF IInv, TypeOK
<1>7. \A b \in Accounts : b # a => status'[b] = status[b]
  BY <1>1, <1>5 DEF IInv, TypeOK
<1>8. status'[a] = status[a] \/ (status[a] = "active" /\ status'[a] = "deleting")
  BY <1>1, <1>5 DEF IInv, TypeOK
<1>9. TypeOK'
  BY <1>3, <1>4, <1>6 DEF IInv, TypeOK
<1>10. Ownership' /\ NothingLeft' /\ DataFenced'
  BY <1>1, <1>3, <1>7, <1>8 DEF IInv, Ownership, NothingLeft, DataFenced, Fenced
<1> QED
  BY <1>3, <1>4, <1>9, <1>10 DEF IInv, SessionsHeld

(* The list of identities to erase is read.                                *)
LEMMA PendingStep ==
  ASSUME IInv, NEW p \in Processes, Pending(p)
  PROVE  IInv'
<1> DEFINE a == process[p].account
           left == {e \in Environments : <<a, e>> \in billing}
           x == Clean(IF left = {} THEN "complete" ELSE "provider",
                      a, left, NoEnvironment, process[p].queue)
<1>1. a \in Accounts /\ process[p].queue \in SUBSET Accounts
  BY Cleaning DEF Pending, CleanupPhases
<1>2. x \in Process /\ StateOK(x, registrant, erased)
  BY <1>1, CleanOK DEF CleanupPhases
<1>3. Becomes(p, x)
  BY DEF Pending
<1> HIDE DEF x
<1> QED
  BY <1>2, <1>3, MoveOnly DEF Pending

(* The provider answers before the row goes.                               *)
LEMMA ProviderStep ==
  ASSUME IInv, NEW p \in Processes, Provider(p)
  PROVE  IInv'
<1> DEFINE a == process[p].account
           left == process[p].left
           queue == process[p].queue
<1>1. a \in Accounts /\ queue \in SUBSET Accounts /\ left \in SUBSET Environments
  BY Cleaning DEF Provider, CleanupPhases
<1>2. PICK e \in left : /\ erased' = erased \cup {<<a, e>>}
                        /\ Becomes(p, Clean("forget", a, left \ {e}, e, queue))
  BY DEF Provider
<1>3. UNCHANGED <<status, subject, cleanup, rows, billing, sessions, registrant, issued>>
  BY DEF Provider, tables
<1> HIDE DEF a, left, queue
<1> DEFINE x == Clean("forget", a, left \ {e}, e, queue)
<1>4. x \in Process /\ StateOK(x, registrant', erased')
  BY <1>1, <1>2, CleanOK DEF CleanupPhases
<1>5. Becomes(p, x)
  BY <1>2
<1> HIDE DEF x
<1>6. process' \in [Processes -> Process] /\ ProcessesOK'
  BY <1>2, <1>3, <1>4, <1>5, Move
<1>7. erased' \in SUBSET (Accounts \X Environments) /\ erased \subseteq erased'
  BY <1>1, <1>2 DEF IInv, TypeOK
<1> QED
  BY <1>3, <1>6, <1>7 DEF IInv, TypeOK, Ownership, DataFenced, Fenced, NothingLeft, SessionsHeld

(* Only what the provider has accepted is forgotten.                       *)
LEMMA ForgetStep ==
  ASSUME IInv, NEW p \in Processes, Forget(p)
  PROVE  IInv'
<1> DEFINE a == process[p].account
           left == process[p].left
           queue == process[p].queue
           x == Clean(IF left = {} THEN "complete" ELSE "provider", a, left, NoEnvironment, queue)
<1>1. a \in Accounts /\ queue \in SUBSET Accounts /\ left \in SUBSET Environments
  BY Cleaning DEF Forget, CleanupPhases
<1>2. x \in Process /\ StateOK(x, registrant, erased)
  BY <1>1, CleanOK DEF CleanupPhases
<1>3. <<a, process[p].identity>> \in erased
  BY Here DEF Forget, StateOK
<1>4. /\ Becomes(p, x)
      /\ billing' = billing \ {<<a, process[p].identity>>}
      /\ UNCHANGED <<status, subject, cleanup, rows, sessions, registrant, issued, erased>>
  BY DEF Forget, history
<1> HIDE DEF x, a
<1>5. process' \in [Processes -> Process] /\ ProcessesOK'
  BY <1>2, <1>4, Move
<1>6. /\ billing' \in SUBSET (Accounts \X Environments)
      /\ issued' \subseteq billing' \cup erased'
      /\ NothingLeft'
  BY <1>3, <1>4 DEF IInv, TypeOK, NothingLeft
<1> QED
  BY <1>4, <1>5, <1>6 DEF IInv, TypeOK, Ownership, DataFenced, Fenced, SessionsHeld

(* A deletion completes when nothing is left of the account.               *)
LEMMA CompleteStep ==
  ASSUME IInv, NEW p \in Processes, Complete(p)
  PROVE  IInv'
<1> DEFINE a == process[p].account
           final == status[a] = "deleting" /\ ~\E e \in Environments : <<a, e>> \in billing
<1>1. a \in Accounts /\ process[p].queue \in SUBSET Accounts
  BY Cleaning DEF Complete, CleanupPhases
<1>2. Continue(p, process[p].queue) /\ UNCHANGED <<rows, billing, sessions, registrant, issued, erased>>
  BY DEF Complete, history
<1>3. PICK x \in Process : StateOK(x, registrant, erased) /\ Becomes(p, x)
  BY <1>1, <1>2, ContinueOK
<1>4. process' \in [Processes -> Process] /\ ProcessesOK'
  BY <1>2, <1>3, Move
<1>5. CASE ~final
  BY <1>2, <1>4, <1>5 DEF Complete, IInv, TypeOK, Ownership, DataFenced, Fenced, NothingLeft, SessionsHeld
<1>6. CASE final
  <2>1. /\ status[a] = "deleting"
        /\ \A e \in Environments : <<a, e>> \notin billing
        /\ status' = [status EXCEPT ![a] = "deleted"]
        /\ subject' = [subject EXCEPT ![a] = NoSubject]
        /\ cleanup' = [cleanup EXCEPT ![a] = "never"]
    BY <1>6 DEF Complete
  <2> HIDE DEF a, final
  <2>2. TypeOK'
    BY <1>1, <1>2, <1>4, <2>1 DEF IInv, TypeOK
  <2>3. /\ status'[a] = "deleted" /\ subject'[a] = NoSubject
        /\ \A b \in Accounts : b # a => status'[b] = status[b] /\ subject'[b] = subject[b]
    BY <1>1, <2>1 DEF IInv, TypeOK
  <2>4. Ownership'
    BY <1>1, <1>2, <2>1, <2>3 DEF IInv, Ownership
  <2>5. DataFenced' /\ NothingLeft' /\ SessionsHeld'
    BY <1>1, <1>2, <2>1, <2>3 DEF IInv, DataFenced, Fenced, NothingLeft, SessionsHeld
  <2> QED
    BY <1>2, <1>4, <2>2, <2>4, <2>5 DEF IInv
<1> QED
  BY <1>5, <1>6

(* A failed cleanup is put off; a cron run begins.                         *)
LEMMA RetryStep ==
  ASSUME IInv, NEW p \in Processes, Postpone(p) \/ Fail(p) \/ Cron(p) \/ Crash(p)
  PROVE  IInv'
<1>1. CASE Postpone(p)
  <2> DEFINE a == process[p].account
  <2>1. a \in Accounts /\ process[p].queue \in SUBSET Accounts
    BY <1>1, Cleaning DEF Postpone
  <2>2. Continue(p, process[p].queue)
        /\ UNCHANGED <<status, subject, rows, billing, sessions, registrant, issued, erased>>
    BY <1>1 DEF Postpone, history
  <2>3. PICK x \in Process : StateOK(x, registrant, erased) /\ Becomes(p, x)
    BY <2>1, <2>2, ContinueOK
  <2>4. process' \in [Processes -> Process] /\ ProcessesOK'
    BY <2>2, <2>3, Move
  <2>5. cleanup' \in [Accounts -> {"never", "later", "due"}]
    BY <1>1, <2>1 DEF Postpone, IInv, TypeOK
  <2> QED
    BY <2>2, <2>4, <2>5 DEF IInv, TypeOK, Ownership, DataFenced, Fenced, NothingLeft, SessionsHeld
<1>2. CASE Fail(p)
  <2> DEFINE x == Clean("postpone", process[p].account, {}, NoEnvironment, process[p].queue)
  <2>1. process[p].account \in Accounts /\ process[p].queue \in SUBSET Accounts
    BY <1>2, Cleaning DEF Fail
  <2>2. x \in Process /\ StateOK(x, registrant, erased)
    BY <2>1, CleanOK
  <2> QED
    BY <1>2, <2>2, MoveOnly DEF Fail
<1>3. CASE Cron(p)
  <2> DEFINE due == {a \in Accounts : status[a] = "deleting" /\ cleanup[a] = "due"}
  <2>1. Continue(p, due) /\ UNCHANGED <<tables, history>>
    BY <1>3 DEF Cron
  <2>2. PICK x \in Process : StateOK(x, registrant, erased) /\ Becomes(p, x)
    BY <2>1, ContinueOK
  <2> QED
    BY <2>1, <2>2, MoveOnly
<1>4. CASE Crash(p)
  BY <1>4, FreeOK, MoveOnly DEF Crash
<1> QED
  BY <1>1, <1>2, <1>3, <1>4

(* Every step keeps the inductive invariant.                               *)
LEMMA NextIInv == IInv /\ [Next]_vars => IInv'
<1> SUFFICES ASSUME IInv, [Next]_vars PROVE IInv'
  OBVIOUS
<1>1. ASSUME NEW p \in Requests, Arrive(p) \/ Open(p) \/ Use(p) PROVE IInv'
  <2>1. p \in Processes
    BY DEF Processes
  <2> QED
    BY <1>1, <2>1, ArriveStep, OpenExistingStep, OpenReadStep, InsertStep, SaveSessionStep, UseStep
       DEF Open
<1>2. ASSUME NEW p \in Crons, Cron(p) PROVE IInv'
  BY <1>2, RetryStep DEF Processes
<1>3. ASSUME NEW p \in Processes, Cleanup(p) \/ Fail(p) \/ Crash(p) PROVE IInv'
  BY <1>3, BeginStep, PendingStep, ProviderStep, ForgetStep, CompleteStep, RetryStep DEF Cleanup
<1>4. CASE UNCHANGED vars
  BY <1>4 DEF vars, tables, history, IInv, TypeOK, ProcessesOK, Ownership, DataFenced, Fenced,
              NothingLeft, SessionsHeld
<1> QED
  BY <1>1, <1>2, <1>3, <1>4, EnvironmentStep DEF Next

-----------------------------------------------------------------------------
(***************************************************************************)
(* Everything the inductive invariant says holds in every reachable state  *)
(* of account registration, use and deletion.                              *)
(***************************************************************************)
THEOREM Invariance == Spec => []IInv
<1>1. Init => IInv
  BY InitIInv
<1>2. IInv /\ [Next]_vars => IInv'
  BY NextIInv
<1> QED
  BY <1>1, <1>2, PTL DEF Spec

(* The type invariant of the account tables and of every request.          *)
THEOREM TypeCorrect == Spec => []TypeOK
<1>1. IInv => TypeOK
  BY IInvImplies
<1> QED
  BY <1>1, Invariance, PTL

(* From begin on, no stale writer leaves a row in an account's tables.     *)
THEOREM Fence == Spec => []DataFenced
<1>1. IInv => DataFenced
  BY IInvImplies
<1> QED
  BY <1>1, Invariance, PTL

(* No billing customer is forgotten before the provider has deleted it.    *)
THEOREM NoCustomerForgotten == Spec => []CustomersErased
<1>1. IInv => CustomersErased
  BY IInvImplies
<1> QED
  BY <1>1, Invariance, PTL

(* One account at a time per identity, and sessions only of its own.       *)
THEOREM AccountsKeptApart == Spec => [](OneLiveAccount /\ SessionsBelong)
<1>1. IInv => OneLiveAccount /\ SessionsBelong
  BY IInvImplies
<1> QED
  BY <1>1, Invariance, PTL

(* No step takes an account back from "deleting" or "deleted".             *)
THEOREM Finality == Spec => DeletionIsFinal
<1> DEFINE Onward == \A a \in Accounts :
                       /\ status[a] = "deleting" => status'[a] \in {"deleting", "deleted"}
                       /\ status[a] = "deleted" => status'[a] = "deleted"
<1>1. IInv /\ [Next]_vars => Onward
  <2> SUFFICES ASSUME IInv, [Next]_vars, UNCHANGED status \/ ~UNCHANGED status PROVE Onward
    OBVIOUS
  <2>1. CASE UNCHANGED status
    BY <2>1
  <2>2. CASE ~UNCHANGED status
    <3>1. \E p \in Processes : Insert(p) \/ Begin(p) \/ Complete(p)
      BY <2>2 DEF Next, Processes, Arrive, ArriveOpen, ArriveWithSession, ArriveLegacy, Open,
         OpenExisting, OpenNew, OpenRefused, Reread, SaveSession, Use, Check, Write, Finish,
         Identity, Cron, Cleanup, Pending, Provider, Forget, Postpone, Fail, Crash,
         EndSession, Tick, tables, vars
    <3>2. PICK a \in Accounts, to \in {"active", "deleting", "deleted"} :
            /\ status' = [status EXCEPT ![a] = to]
            /\ to = "active" => status[a] = "unused"
            /\ to = "deleting" => status[a] = "active"
            /\ to = "deleted" => status[a] = "deleting"
      BY <2>2, <3>1, Cleaning DEF Insert, Begin, Complete, CleanupPhases
    <3> QED
      BY <3>2 DEF IInv, TypeOK
  <2> QED
    BY <2>1, <2>2
<1>2. Spec => [][Onward]_vars
  BY <1>1, Invariance, PTL DEF Spec
<1> QED
  BY <1>2 DEF DeletionIsFinal

-----------------------------------------------------------------------------
(***************************************************************************)
(* Beyond the inductive invariant, a process works on accounts that exist, *)
(* a cleanup that got past begin on one whose deletion was accepted, and   *)
(* only customers of such accounts have been erased.                       *)
(***************************************************************************)
Working == {"check", "write", "identity", "request", "postpone"} \cup CleanupPhases
PastBegin == {"pending", "provider", "forget", "complete"}

WorkOK(x, st) ==
  /\ x.phase \in Working => st[x.account] # "unused"
  /\ x.phase \in PastBegin => st[x.account] \in {"deleting", "deleted"}
  /\ \A a \in x.queue : st[a] # "unused"

WorkInv ==
  /\ \A p \in Processes : WorkOK(process[p], status)
  /\ \A a \in Accounts, e \in Environments : <<a, e>> \in erased => Fenced(a)

(* Nobody is at work yet. *)
LEMMA WorkInit == Init => WorkInv
BY DEF Init, WorkInv, WorkOK, Free, Run, Working, PastBegin, CleanupPhases

(* An account moves from its registration to the end of its deletion.      *)
LEMMA StatusMoves ==
  ASSUME IInv, [Next]_vars
  PROVE  \/ UNCHANGED status
         \/ \E p \in Processes, a \in Accounts, to \in {"active", "deleting", "deleted"} :
              /\ Insert(p) \/ Begin(p) \/ Complete(p)
              /\ status' = [status EXCEPT ![a] = to]
              /\ to = "active" => status[a] = "unused"
              /\ to = "deleting" => status[a] = "active"
              /\ to = "deleted" => status[a] = "deleting"
<1> SUFFICES ASSUME ~UNCHANGED status
             PROVE  \E p \in Processes, a \in Accounts, to \in {"active", "deleting", "deleted"} :
                      /\ Insert(p) \/ Begin(p) \/ Complete(p)
                      /\ status' = [status EXCEPT ![a] = to]
                      /\ to = "active" => status[a] = "unused"
                      /\ to = "deleting" => status[a] = "active"
                      /\ to = "deleted" => status[a] = "deleting"
  OBVIOUS
<1>1. PICK p \in Processes : Insert(p) \/ Begin(p) \/ Complete(p)
  BY DEF Next, Processes, Arrive, ArriveOpen, ArriveWithSession, ArriveLegacy, Open,
     OpenExisting, OpenNew, OpenRefused, Reread, SaveSession, Use, Check, Write, Finish,
     Identity, Cron, Cleanup, Pending, Provider, Forget, Postpone, Fail, Crash,
     EndSession, Tick, tables, vars
<1>2. CASE Insert(p)
  BY <1>2 DEF Insert
<1>3. CASE Begin(p)
  BY <1>3, Cleaning DEF Begin, CleanupPhases
<1>4. CASE Complete(p)
  BY <1>4, Cleaning DEF Complete, CleanupPhases
<1> QED
  BY <1>1, <1>2, <1>3, <1>4

(* What a process relies on of an account stays. *)
LEMMA WorkStays ==
  ASSUME IInv, [Next]_vars
  PROVE  /\ \A a \in Accounts : status[a] # "unused" => status'[a] # "unused"
         /\ \A a \in Accounts : status[a] \in {"deleting", "deleted"}
                                  => status'[a] \in {"deleting", "deleted"}
         /\ \A x \in Process : WorkOK(x, status) /\ (x.phase \in Working => x.account \in Accounts)
                                 => WorkOK(x, status')
<1>1. /\ \A a \in Accounts : status[a] # "unused" => status'[a] # "unused"
      /\ \A a \in Accounts : status[a] \in {"deleting", "deleted"}
                               => status'[a] \in {"deleting", "deleted"}
  BY StatusMoves DEF IInv, TypeOK
<1>2. PastBegin \subseteq Working
  BY DEF PastBegin, Working, CleanupPhases
<1>3. \A x \in Process : x.queue \subseteq Accounts
  BY DEF Process
<1> QED
  BY <1>1, <1>2, <1>3 DEF WorkOK

(* A cleanup that goes on to the next account finds one that exists. *)
LEMMA WorkContinues ==
  ASSUME NEW p, NEW queue, NEW st, \A a \in queue : st[a] # "unused", Continue(p, queue)
  PROVE  \E x : Becomes(p, x) /\ WorkOK(x, st)
<1>1. WorkOK(Free, st)
  BY DEF WorkOK, Free, Run, Working, PastBegin, CleanupPhases
<1>2. \A a \in queue : WorkOK(Clean("begin", a, {}, NoEnvironment, queue \ {a}), st)
  BY DEF WorkOK, Clean, Working, PastBegin, CleanupPhases
<1> QED
  BY <1>1, <1>2 DEF Continue

(* What the process that takes a step goes on to. *)
LEMMA WorkGoesOn ==
  ASSUME IInv, WorkInv, [Next]_vars, NEW p \in Processes,
         Arrive(p) \/ Open(p) \/ Use(p) \/ Cron(p) \/ Cleanup(p) \/ Fail(p) \/ Crash(p)
  PROVE  UNCHANGED process \/ \E x : Becomes(p, x) /\ WorkOK(x, status')
<1> DEFINE a == process[p].account
<1>0. /\ WorkOK(process[p], status) /\ process[p] \in Process
      /\ process[p].phase \in Working => a \in Accounts
      /\ process[p].queue \subseteq Accounts
  BY Here DEF WorkInv, StateOK, Process, Working, Holding
<1>1. WorkOK(process[p], status')
  BY <1>0, WorkStays
<1>2. /\ WorkOK(Free, status')
      /\ \A phase, device, pinned, account :
           WorkOK(Run(phase, device, pinned, account), status')
             <=> /\ phase \in Working => status'[account] # "unused"
                 /\ phase \in PastBegin => status'[account] \in {"deleting", "deleted"}
      /\ \A phase, account, left, e, queue :
           WorkOK(Clean(phase, account, left, e, queue), status')
             <=> /\ phase \in Working => status'[account] # "unused"
                 /\ phase \in PastBegin => status'[account] \in {"deleting", "deleted"}
                 /\ \A b \in queue : status'[b] # "unused"
  BY DEF WorkOK, Free, Run, Clean, Working, PastBegin, CleanupPhases
<1>3. CASE Arrive(p)
  <2>1. CASE ArriveOpen(p)
    BY <1>2, <2>1 DEF ArriveOpen, Working, PastBegin, CleanupPhases
  <2>2. CASE ArriveWithSession(p)
    <3>1. PICK session \in sessions, phase \in {"check", "identity", "request"} :
            Becomes(p, Run(phase, NoDevice, NoAccount, session[2]))
      BY <2>2 DEF ArriveWithSession
    <3>2. PICK d \in Devices, b \in Accounts : session = <<d, b>>
      BY <3>1 DEF IInv, TypeOK
    <3>3. registrant[b] = DeviceSubject[d] /\ DeviceSubject[d] # NoSubject
      BY <3>1, <3>2, DeviceAssumption, NoneAssumption DEF IInv, SessionsHeld
    <3>4. status[b] # "unused" /\ status'[b] # "unused"
      BY <3>3, WorkStays DEF IInv, Ownership
    <3>5. phase \notin PastBegin
      BY DEF PastBegin
    <3> QED
      BY <1>2, <3>1, <3>2, <3>4, <3>5
  <2>3. CASE ArriveLegacy(p)
    <3>1. PICK s \in Subjects : /\ LegacyAccount[s] # NoAccount
                                /\ status[LegacyAccount[s]] = "active"
                                /\ Becomes(p, Run("write", NoDevice, NoAccount, LegacyAccount[s]))
      BY <2>3 DEF ArriveLegacy
    <3>2. status'[LegacyAccount[s]] # "unused"
      BY <3>1, LegacyAssumption, WorkStays
    <3> QED
      BY <1>2, <3>1, <3>2 DEF PastBegin
  <2> QED
    BY <1>3, <2>1, <2>2, <2>3 DEF Arrive
<1>4. CASE Open(p)
  BY <1>2, <1>4 DEF Open, OpenExisting, OpenNew, OpenRefused, Insert, Reread, SaveSession,
                    Working, PastBegin, CleanupPhases
<1>5. CASE Use(p)
  <2>1. process[p].phase = "check" => status'[a] # "unused"
    BY <1>1 DEF WorkOK, Working
  <2> QED
    BY <1>2, <1>5, <2>1 DEF Use, Check, Write, Finish, Identity, PastBegin
<1>6. CASE Begin(p)
  <2>1. status[a] # "unused" /\ a \in Accounts /\ process[p].phase \in Working
    BY <1>0, <1>6 DEF Begin, WorkOK, Working, CleanupPhases
  <2>2. status'[a] \in {"deleting", "deleted"}
    BY <1>6, <2>1 DEF Begin, IInv, TypeOK
  <2> QED
    BY <1>1, <1>2, <1>6, <2>2 DEF Begin, WorkOK
<1>7. CASE Pending(p) \/ Provider(p) \/ Forget(p)
  <2>1. status'[a] \in {"deleting", "deleted"}
    BY <1>1, <1>7 DEF Pending, Provider, Forget, WorkOK, PastBegin
  <2>2. \A b \in process[p].queue : status'[b] # "unused"
    BY <1>1 DEF WorkOK
  <2>3. \A phase \in CleanupPhases : \A left, e :
          WorkOK(Clean(phase, a, left, e, process[p].queue), status')
    BY <1>2, <2>1, <2>2
  <2>4. \E phase \in CleanupPhases : \E left, e :
          Becomes(p, Clean(phase, a, left, e, process[p].queue))
    BY <1>7 DEF Pending, Provider, Forget, CleanupPhases
  <2> QED
    BY <2>3, <2>4
<1>8. CASE Complete(p) \/ Postpone(p)
  <2>1. \A b \in process[p].queue : status'[b] # "unused"
    BY <1>1 DEF WorkOK
  <2> QED
    BY <1>8, <2>1, WorkContinues DEF Complete, Postpone
<1>9. CASE Cron(p)
  <2>1. \A b \in {c \in Accounts : status[c] = "deleting" /\ cleanup[c] = "due"} :
          status'[b] # "unused"
    BY WorkStays
  <2> QED
    BY <1>9, <2>1, WorkContinues DEF Cron
<1>10. CASE Fail(p)
  <2>1. status'[a] # "unused" /\ \A b \in process[p].queue : status'[b] # "unused"
    BY <1>1, <1>10 DEF Fail, WorkOK, Working
  <2> QED
    BY <1>2, <1>10, <2>1 DEF Fail, PastBegin
<1>11. CASE Crash(p)
  BY <1>2, <1>11 DEF Crash
<1> QED
  BY <1>3, <1>4, <1>5, <1>6, <1>7, <1>8, <1>9, <1>10, <1>11 DEF Cleanup

(* Every step keeps processes at work on accounts that exist. *)
LEMMA WorkStep == IInv /\ WorkInv /\ [Next]_vars => WorkInv'
<1> SUFFICES ASSUME IInv, WorkInv, [Next]_vars PROVE WorkInv'
  OBVIOUS
<1>1. \/ UNCHANGED process
      \/ \E p \in Processes : \E x : Becomes(p, x) /\ WorkOK(x, status')
  <2>1. CASE \E p \in Processes :
               Arrive(p) \/ Open(p) \/ Use(p) \/ Cron(p) \/ Cleanup(p) \/ Fail(p) \/ Crash(p)
    BY <2>1, WorkGoesOn
  <2>2. CASE \/ \E session \in sessions : EndSession(session)
             \/ \E a \in Accounts : Tick(a)
             \/ UNCHANGED vars
    BY <2>2 DEF EndSession, Tick, vars
  <2> QED
    BY <2>1, <2>2 DEF Next, Processes
<1>2. \A p \in Processes : WorkOK(process[p], status')
  <2>1. \A p \in Processes : process[p] \in Process /\ WorkOK(process[p], status)
                             /\ (process[p].phase \in Working => process[p].account \in Accounts)
    BY Here DEF WorkInv, StateOK, Working, Holding
  <2> QED
    BY <2>1, WorkStays
<1>3. ASSUME NEW p \in Processes PROVE WorkOK(process[p], status)'
  <2>1. WorkOK(process'[p], status')
    BY <1>1, <1>2 DEF Becomes, IInv, TypeOK
  <2> QED
    BY <2>1 DEF WorkOK
<1>4. ASSUME NEW a \in Accounts, NEW e \in Environments, <<a, e>> \in erased'
      PROVE  Fenced(a)'
  <2>1. CASE <<a, e>> \in erased
    <3>1. status[a] \in {"deleting", "deleted"}
      BY <2>1 DEF WorkInv, Fenced, IInv, TypeOK
    <3> QED
      BY <3>1, WorkStays DEF Fenced
  <2>2. CASE <<a, e>> \notin erased
    <3>1. PICK p \in Processes : Provider(p) /\ process[p].account = a
      <4>1. PICK p \in Processes : Provider(p)
        BY <1>4, <2>2 DEF Next, Processes, Arrive, ArriveOpen, ArriveWithSession, ArriveLegacy, Open,
           OpenExisting, OpenNew, OpenRefused, Insert, Reread, SaveSession, Use, Check, Write,
           Finish, Identity, Cron, Cleanup, Begin, Pending, Forget, Complete, Postpone, Fail,
           Crash, EndSession, Tick, history, vars
      <4>2. PICK f \in process[p].left : erased' = erased \cup {<<process[p].account, f>>}
        BY <4>1 DEF Provider
      <4>3. <<a, e>> = <<process[p].account, f>>
        BY <1>4, <2>2, <4>2
      <4> QED
        BY <4>1, <4>3
    <3>2. status[a] \in {"deleting", "deleted"}
      BY <3>1 DEF WorkInv, WorkOK, Provider, PastBegin
    <3> QED
      BY <3>2, WorkStays DEF Fenced
  <2> QED
    BY <2>1, <2>2
<1> QED
  BY <1>3, <1>4 DEF WorkInv

-----------------------------------------------------------------------------
(* The registry that requests and cron runs implement (AccountRegistry.tla) *)

(* Migration 0008 leaves a registry. *)
LEMMA RegistryStarts == Init => Registry!RegistryInit
<1> SUFFICES ASSUME Init PROVE Registry!RegistryInit
  OBVIOUS
<1>1. IInv
  BY InitIInv
<1>2. \A a \in Accounts : registrant[a] = NoSubject <=> status[a] = "unused"
  BY <1>1 DEF IInv, Ownership
<1>3. \A a, b \in Accounts :
        registrant[a] = registrant[b] /\ registrant[a] # NoSubject => a = b
  <2>1. registrant = subject
    BY DEF Init
  <2> QED
    BY <1>1, <2>1 DEF IInv, Ownership
<1>4. rows \subseteq {a \in Accounts : status[a] = "active"}
  BY DEF Init, Legacy
<1>5. issued \ erased \subseteq {a \in Accounts : status[a] # "unused"} \X Environments
  BY DEF Init, Legacy
<1> QED
  BY <1>1, <1>2, <1>3, <1>4, <1>5 DEF Init, IInv, TypeOK, Registry!RegistryInit

(* Registration: the INSERT finds no account of the identity, so all it    *)
(* ever had are deleted.                                                   *)
LEMMA RegistryRegisters ==
  ASSUME IInv, NEW p \in Processes, Insert(p)
  PROVE  Registry!RegistryNext \/ UNCHANGED Registry!registryVars
<1> DEFINE s == DeviceSubject[process[p].device]
<1>0. s \in Subjects /\ s # NoSubject
  BY Here, DeviceAssumption, NoneAssumption DEF Insert, StateOK, Opening
<1>1. CASE Current(s) = {}
  <2>1. PICK a \in Accounts : /\ status[a] = "unused"
                              /\ status' = [status EXCEPT ![a] = "active"]
                              /\ registrant' = [registrant EXCEPT ![a] = s]
    BY <1>1 DEF Insert
  <2>2. ASSUME NEW b \in Accounts, registrant[b] = s PROVE status[b] = "deleted"
    <3>1. subject[b] # s
      BY <1>1 DEF Current
    <3>2. status[b] # "unused" /\ status[b] \notin {"active", "deleting"}
      BY <1>0, <2>2, <3>1 DEF IInv, Ownership
    <3> QED
      BY <3>2 DEF IInv, TypeOK
  <2>3. Registry!Register(s, a)
    BY <2>1, <2>2 DEF Insert, Registry!Register
  <2> QED
    BY <1>0, <2>3 DEF Registry!RegistryNext
<1>2. CASE Current(s) # {}
  BY <1>2 DEF Insert, Registry!registryVars
<1> QED
  BY <1>1, <1>2

(* A session is stored for the identity's account while that is active. *)
LEMMA RegistryOpens ==
  ASSUME IInv, NEW p \in Processes, SaveSession(p)
  PROVE  Registry!RegistryNext \/ UNCHANGED Registry!registryVars
<1> DEFINE d == process[p].device
           a == process[p].account
<1>1. d \in Devices /\ a \in Accounts /\ registrant[a] = DeviceSubject[d]
  BY Here DEF SaveSession, StateOK, Opening, Holding
<1>2. CASE status[a] = "active"
  <2>1. Registry!OpenSession(d, a)
    BY <1>1, <1>2 DEF SaveSession, history, Registry!OpenSession
  <2> QED
    BY <1>1, <2>1 DEF Registry!RegistryNext
<1>3. CASE status[a] # "active"
  BY <1>3 DEF SaveSession, history, Registry!registryVars
<1> QED
  BY <1>2, <1>3

(* A request writes, or becomes a customer, while its account is active.   *)
LEMMA RegistryWrites ==
  ASSUME IInv, WorkInv, NEW p \in Processes, Write(p) \/ Identity(p)
  PROVE  Registry!RegistryNext \/ UNCHANGED Registry!registryVars
<1> DEFINE a == process[p].account
<1>1. a \in Accounts /\ status[a] # "unused"
  BY Here DEF Write, Identity, StateOK, Holding, WorkInv, WorkOK, Working
<1>2. ~Fenced(a) => status[a] = "active"
  BY <1>1 DEF Fenced
<1>3. CASE Fenced(a)
  BY <1>3 DEF Write, Identity, history, Registry!registryVars
<1>4. CASE ~Fenced(a) /\ Write(p)
  <2>1. Registry!WriteRows(a)
    BY <1>2, <1>4 DEF Write, history, Registry!WriteRows
  <2> QED
    BY <1>1, <2>1 DEF Registry!RegistryNext
<1>5. CASE ~Fenced(a) /\ Identity(p)
  <2>1. PICK e \in Environments : issued' = issued \cup {<<a, e>>}
    BY <1>5 DEF Identity
  <2>2. <<a, e>> \notin erased
    BY <1>1, <1>5 DEF WorkInv
  <2>3. (issued \ erased)' = (issued \ erased) \cup {<<a, e>>}
    BY <1>5, <2>1, <2>2 DEF Identity
  <2>4. Registry!BecomeCustomer(a, e)
    BY <1>2, <1>5, <2>3 DEF Identity, Registry!BecomeCustomer
  <2> QED
    BY <1>1, <2>4 DEF Registry!RegistryNext
<1> QED
  BY <1>3, <1>4, <1>5

(* begin accepts a deletion, once. *)
LEMMA RegistryAccepts ==
  ASSUME IInv, WorkInv, NEW p \in Processes, Begin(p)
  PROVE  Registry!RegistryNext \/ UNCHANGED Registry!registryVars
<1> DEFINE a == process[p].account
<1>1. a \in Accounts /\ status[a] # "unused"
  BY Here DEF Begin, StateOK, Holding, CleanupPhases, WorkInv, WorkOK, Working
<1>2. CASE status[a] = "active"
  <2>1. Registry!AcceptDeletion(a)
    BY <1>2 DEF Begin, history, Registry!AcceptDeletion
  <2> QED
    BY <1>1, <2>1 DEF Registry!RegistryNext
<1>3. CASE status[a] # "active"
  <2>1. rows' = rows
    BY <1>1, <1>3 DEF Begin, IInv, DataFenced, Fenced
  <2> QED
    BY <1>3, <2>1 DEF Begin, history, Registry!registryVars
<1> QED
  BY <1>2, <1>3

(* The provider deletes a customer of an account that is being deleted; of *)
(* one that is deleted it has none left, and nothing changes.              *)
LEMMA RegistryErases ==
  ASSUME IInv, WorkInv, NEW p \in Processes, Provider(p)
  PROVE  Registry!RegistryNext \/ UNCHANGED Registry!registryVars
<1> DEFINE a == process[p].account
<1>1. a \in Accounts /\ status[a] \in {"deleting", "deleted"}
  BY Here DEF Provider, StateOK, Holding, CleanupPhases, WorkInv, WorkOK, PastBegin
<1>2. PICK e \in process[p].left : erased' = erased \cup {<<a, e>>}
  BY DEF Provider
<1>3. e \in Environments
  BY Here DEF Process
<1>4. (issued \ erased)' = (issued \ erased) \ {<<a, e>>}
  BY <1>2 DEF Provider
<1>5. UNCHANGED <<status, registrant, rows, sessions>>
  BY DEF Provider, tables
<1>6. CASE status[a] = "deleting"
  <2>1. Registry!EraseCustomer(a, e)
    BY <1>4, <1>5, <1>6 DEF Registry!EraseCustomer
  <2> QED
    BY <1>1, <1>3, <2>1 DEF Registry!RegistryNext
<1>7. CASE status[a] = "deleted"
  <2>1. <<a, e>> \notin issued \ erased
    BY <1>1, <1>3, <1>7 DEF IInv, NothingLeft
  <2> QED
    BY <1>4, <1>5, <2>1 DEF Registry!registryVars
<1> QED
  BY <1>1, <1>6, <1>7

(* A deletion completes when no row of a customer is left, so none is owed. *)
LEMMA RegistryCompletes ==
  ASSUME IInv, NEW p \in Processes, Complete(p)
  PROVE  Registry!RegistryNext \/ UNCHANGED Registry!registryVars
<1> DEFINE a == process[p].account
           final == status[a] = "deleting" /\ ~\E e \in Environments : <<a, e>> \in billing
<1>1. a \in Accounts
  BY Cleaning DEF Complete, CleanupPhases
<1>2. CASE final
  <2>1. \A e \in Environments : <<a, e>> \notin issued \ erased
    BY <1>2 DEF IInv
  <2>2. Registry!CompleteDeletion(a)
    BY <1>2, <2>1 DEF Complete, history, Registry!CompleteDeletion
  <2> QED
    BY <1>1, <2>2 DEF Registry!RegistryNext
<1>3. CASE ~final
  BY <1>3 DEF Complete, history, Registry!registryVars
<1> QED
  BY <1>2, <1>3

(* Every step is one of the registry's, or none of its business. *)
LEMMA RegistryStep ==
  IInv /\ WorkInv /\ [Next]_vars => [Registry!RegistryNext]_(Registry!registryVars)
<1> SUFFICES ASSUME IInv, WorkInv, [Next]_vars
             PROVE  Registry!RegistryNext \/ UNCHANGED Registry!registryVars
  OBVIOUS
<1>1. ASSUME NEW p \in Processes,
             \/ Insert(p) \/ SaveSession(p) \/ Write(p) \/ Identity(p)
             \/ Begin(p) \/ Provider(p) \/ Complete(p)
      PROVE  Registry!RegistryNext \/ UNCHANGED Registry!registryVars
  BY <1>1, RegistryRegisters, RegistryOpens, RegistryWrites, RegistryAccepts, RegistryErases,
     RegistryCompletes
<1>2. ASSUME NEW session \in sessions, EndSession(session)
      PROVE  Registry!RegistryNext
  <2>1. Registry!CloseSession(session)
    BY <1>2 DEF EndSession, history, Registry!CloseSession
  <2> QED
    BY <2>1 DEF Registry!RegistryNext
<1>3. ASSUME NEW p \in Processes,
             \/ Arrive(p) \/ OpenExisting(p) \/ OpenNew(p) \/ OpenRefused(p) \/ Reread(p)
             \/ Check(p) \/ Finish(p) \/ Cron(p) \/ Pending(p) \/ Forget(p) \/ Postpone(p)
             \/ Fail(p) \/ Crash(p)
      PROVE  UNCHANGED Registry!registryVars
  BY <1>3 DEF Arrive, ArriveOpen, ArriveWithSession, ArriveLegacy, OpenExisting, OpenNew,
              OpenRefused, Reread, Check, Finish, Cron, Pending, Forget, Postpone, Fail, Crash,
              tables, history, Registry!registryVars
<1>4. CASE UNCHANGED vars \/ \E a \in Accounts : Tick(a)
  BY <1>4 DEF Tick, vars, tables, history, Registry!registryVars
<1> QED
  BY <1>1, <1>2, <1>3, <1>4 DEF Next, Processes, Open, Use, Cleanup

(***************************************************************************)
(* usecases/accounts.ts and account_deletion.ts implement the registry:    *)
(* however requests, cleanups, failures and crashes interleave, what they  *)
(* do to accounts, sessions and customers happens as if in one step each,  *)
(* in an order the registry allows.                                        *)
(***************************************************************************)
THEOREM RegistryIsImplemented == Spec => ImplementsRegistry
<1>1. Spec => []WorkInv
  BY Invariance, WorkInit, WorkStep, PTL DEF Spec
<1> QED
  BY <1>1, Invariance, RegistryStarts, RegistryStep, PTL
     DEF Spec, ImplementsRegistry, Registry!RegistrySpec

=============================================================================
