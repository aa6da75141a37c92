--------------------------- MODULE AgentKeysProofs --------------------------
(***************************************************************************)
(* Proofs about AgentKeys for every number of requests, users, agents,      *)
(* connections and every limit.                                             *)
(***************************************************************************)
EXTENDS AgentKeys, FiniteSetTheorems, TLAPS

CreatePCs == {"begin"} \cup InTx
RevokePCs == {"revoke_get", "revoke_update", "revoke_check"}
AuthPCs == {"auth_key", "auth_user", "auth_touch"}

\* Where a handler is says which operation it runs and what it has found.
StepArgs ==
  \A r \in Requests :
    /\ pc[r] \in CreatePCs => call[r].op = "create" /\ call[r].user \in Users
                              /\ call[r].agent \in AgentIDs
    /\ pc[r] \in RevokePCs => call[r].op = "revoke"
    /\ pc[r] \in AuthPCs => call[r].op = "auth"
    /\ pc[r] \in {"revoke_update", "revoke_check", "auth_user", "auth_touch", "ok"} =>
         call[r].agent \in Stored

TInv == TypeOK /\ StepArgs

\* The steps that leave the table alone keep whatever else is well typed.
LEMMA ArriveKeepsTInv ==
  ASSUME TInv, NEW r \in Requests, Arrive(r) PROVE TInv'
<1>1. CASE CreateArrives(r)
  BY <1>1 DEF TInv, TypeOK, StepArgs, CreateArrives, Goto, history, FreshIDs, Stored,
       Calls, CreatePCs, RevokePCs, AuthPCs, InTx, LockHeld, Steps, Statements, Answers
<1>2. CASE RevokeArrives(r)
  BY <1>2 DEF TInv, TypeOK, StepArgs, RevokeArrives, Goto, history, Stored,
       Calls, CreatePCs, RevokePCs, AuthPCs, InTx, LockHeld, Steps, Statements, Answers
<1>3. CASE AuthArrives(r)
  BY <1>3 DEF TInv, TypeOK, StepArgs, AuthArrives, Goto, Stored,
       Calls, CreatePCs, RevokePCs, AuthPCs, InTx, LockHeld, Steps, Statements, Answers
<1> QED BY <1>1, <1>2, <1>3 DEF Arrive

LEMMA CreateStepKeepsTInv ==
  ASSUME TInv, NEW r \in Requests, CreateStep(r) PROVE TInv'
<1> USE DEF TInv, TypeOK, StepArgs, Goto, history, Stored, CreatePCs, RevokePCs,
      AuthPCs, InTx, LockHeld, Steps, Statements, Answers
<1>1. CASE Begin(r)
  BY <1>1 DEF Begin
<1>2. CASE LockUserForUpdate(r)
  BY <1>2 DEF LockUserForUpdate
<1>3. CASE CountActiveAgents(r)
  BY <1>3 DEF CountActiveAgents, Unlock
<1>4. CASE InsertAgent(r)
  BY <1>4 DEF InsertAgent
<1>5. CASE Commit(r)
  <2> DEFINE new == [user |-> call[r].user, revoked |-> 0, used |-> 0]
  <2>1. new \in Row /\ new # None
    BY <1>5, AgentKeysAssumption DEF Commit, Row
  <2>2. /\ call[r].agent \in AgentIDs
        /\ agents' = [agents EXCEPT ![call[r].agent] = new]
    BY <1>5 DEF Commit
  <2> HIDE DEF new
  <2> QED BY <1>5, <2>1, <2>2 DEF Commit, Unlock
<1> QED BY <1>1, <1>2, <1>3, <1>4, <1>5 DEF CreateStep

LEMMA RevokeStepKeepsTInv ==
  ASSUME TInv, NEW r \in Requests, RevokeStep(r) PROVE TInv'
<1> USE DEF TInv, TypeOK, StepArgs, Goto, history, Stored, CreatePCs, RevokePCs,
      AuthPCs, InTx, LockHeld, Steps, Statements, Answers
<1>1. CASE RevokeGet(r)
  BY <1>1 DEF RevokeGet
<1>2. CASE RevokeUpdate(r)
  <2>1. call[r].agent \in AgentIDs /\ agents[call[r].agent] \in Row
    BY <1>2 DEF RevokeUpdate
  <2>2. [agents[call[r].agent] EXCEPT !.revoked = at[r]] \in Row
    BY <2>1 DEF Row
  <2>3. CASE UNCHANGED agents
    BY <1>2, <2>3 DEF RevokeUpdate
  <2>4. CASE agents' = [agents EXCEPT ![call[r].agent].revoked = at[r]]
    BY <1>2, <2>1, <2>2, <2>4, AgentKeysAssumption DEF RevokeUpdate
  <2> QED BY <1>2, <2>3, <2>4 DEF RevokeUpdate
<1>3. CASE RevokeCheck(r)
  BY <1>3 DEF RevokeCheck
<1> QED BY <1>1, <1>2, <1>3 DEF RevokeStep

LEMMA AuthStepKeepsTInv ==
  ASSUME TInv, NEW r \in Requests, AuthStep(r) PROVE TInv'
<1> USE DEF TInv, TypeOK, StepArgs, Goto, history, Stored, CreatePCs, RevokePCs,
      AuthPCs, InTx, LockHeld, Steps, Statements, Answers
<1>1. CASE AuthGetByKeyHash(r)
  BY <1>1 DEF AuthGetByKeyHash
<1>2. CASE AuthGetUser(r)
  BY <1>2 DEF AuthGetUser
<1>3. CASE TouchLastUsed(r)
  <2>1. call[r].agent \in AgentIDs /\ agents[call[r].agent] \in Row
    BY <1>3 DEF TouchLastUsed
  <2>2. [agents[call[r].agent] EXCEPT !.used = at[r]] \in Row
    BY <2>1 DEF Row
  <2>3. CASE UNCHANGED agents
    BY <1>3, <2>3 DEF TouchLastUsed
  <2>4. CASE agents' = [agents EXCEPT ![call[r].agent].used = at[r]]
    BY <1>3, <2>1, <2>2, <2>4, AgentKeysAssumption DEF TouchLastUsed
  <2> QED BY <1>3, <2>3, <2>4 DEF TouchLastUsed
<1> QED BY <1>1, <1>2, <1>3 DEF AuthStep

LEMMA OtherStepsKeepTInv ==
  ASSUME TInv,
         \/ \E r \in Requests : StatementFails(r) \/ Return(r)
         \/ Crash \/ Tick \/ UNCHANGED vars
  PROVE  TInv'
<1> USE DEF TInv, TypeOK, StepArgs, Goto, history, Stored, CreatePCs, RevokePCs,
      AuthPCs, InTx, LockHeld, Steps, Statements, Answers
<1>1. ASSUME NEW r \in Requests, StatementFails(r) PROVE TInv'
  BY <1>1 DEF StatementFails, Unlock
<1>2. ASSUME NEW r \in Requests, Return(r) PROVE TInv'
  BY <1>2, AgentKeysAssumption DEF Return, NoCall, Calls
<1>3. CASE Crash
  BY <1>3, AgentKeysAssumption DEF Crash, NoCall, Calls
<1>4. CASE Tick
  BY <1>4, AgentKeysAssumption DEF Tick
<1>5. CASE UNCHANGED vars
  BY <1>5 DEF vars
<1> QED BY <1>1, <1>2, <1>3, <1>4, <1>5

LEMMA TInvInductive == (Init => TInv) /\ (TInv /\ [Next]_vars => TInv')
<1>1. Init => TInv
  BY AgentKeysAssumption DEF Init, TInv, TypeOK, StepArgs, NoCall, Calls,
       CreatePCs, RevokePCs, AuthPCs, InTx, LockHeld
<1>2. TInv /\ [Next]_vars => TInv'
  BY ArriveKeepsTInv, CreateStepKeepsTInv, RevokeStepKeepsTInv, AuthStepKeepsTInv,
     OtherStepsKeepTInv DEF Next, Step
<1> QED BY <1>1, <1>2

\* Every reachable state is well typed; in particular an authentication that
\* goes on has an agent in hand.
THEOREM TypeCorrect == Spec => []TypeOK
<1>1. TInv => TypeOK
  BY DEF TInv
<1> QED BY <1>1, TInvInductive, PTL DEF Spec
-----------------------------------------------------------------------------
(***************************************************************************)
(* The row lock.  LockOnlyInTransaction says that who has the lock is in    *)
(* its transaction; it is inductive only together with the converse.        *)
(***************************************************************************)
HolderHasLock ==
  \A r \in Requests : pc[r] \in LockHeld => rowLock[call[r].user] = r

LockInv == LockOnlyInTransaction /\ HolderHasLock

LEMMA CreateStepKeepsLockInv ==
  ASSUME TInv, LockInv, NEW r \in Requests, CreateStep(r) PROVE LockInv'
<1> USE DEF TInv, TypeOK, StepArgs, LockInv, LockOnlyInTransaction, HolderHasLock,
      Goto, history, CreatePCs, InTx, LockHeld
<1>1. CASE Begin(r)
  BY <1>1 DEF Begin
<1>2. CASE LockUserForUpdate(r)
  BY <1>2, AgentKeysAssumption DEF LockUserForUpdate
<1>3. CASE CountActiveAgents(r)
  BY <1>3 DEF CountActiveAgents, Unlock
<1>4. CASE InsertAgent(r)
  BY <1>4 DEF InsertAgent
<1>5. CASE Commit(r)
  BY <1>5 DEF Commit, Unlock
<1> QED BY <1>1, <1>2, <1>3, <1>4, <1>5 DEF CreateStep

\* Every other step of a request leaves the locks and who is in a transaction.
LEMMA OtherStepsKeepLockInv ==
  ASSUME TInv, LockInv,
         \/ \E r \in Requests : Arrive(r) \/ RevokeStep(r) \/ AuthStep(r)
                                \/ StatementFails(r) \/ Return(r)
         \/ Crash \/ Tick \/ UNCHANGED vars
  PROVE  LockInv'
<1> USE DEF TInv, TypeOK, StepArgs, LockInv, LockOnlyInTransaction, HolderHasLock,
      Goto, history, CreatePCs, InTx, LockHeld
<1>1. ASSUME NEW r \in Requests, Arrive(r) PROVE LockInv'
  BY <1>1 DEF Arrive, CreateArrives, RevokeArrives, AuthArrives
<1>2. ASSUME NEW r \in Requests, RevokeStep(r) PROVE LockInv'
  BY <1>2 DEF RevokeStep, RevokeGet, RevokeUpdate, RevokeCheck
<1>3. ASSUME NEW r \in Requests, AuthStep(r) PROVE LockInv'
  BY <1>3 DEF AuthStep, AuthGetByKeyHash, AuthGetUser, TouchLastUsed
<1>4. ASSUME NEW r \in Requests, StatementFails(r) PROVE LockInv'
  BY <1>4 DEF StatementFails, Unlock
<1>5. ASSUME NEW r \in Requests, Return(r) PROVE LockInv'
  BY <1>5 DEF Return, Answers
<1>6. CASE Crash
  BY <1>6 DEF Crash
<1>7. CASE Tick \/ UNCHANGED vars
  BY <1>7 DEF Tick, vars
<1> QED BY <1>1, <1>2, <1>3, <1>4, <1>5, <1>6, <1>7

LEMMA LockInvInductive ==
  (Init => LockInv) /\ (TInv /\ LockInv /\ [Next]_vars => LockInv')
<1>1. Init => LockInv
  BY DEF Init, LockInv, LockOnlyInTransaction, HolderHasLock, LockHeld
<1>2. TInv /\ LockInv /\ [Next]_vars => LockInv'
  BY CreateStepKeepsLockInv, OtherStepsKeepLockInv DEF Next, Step
<1> QED BY <1>1, <1>2

\* Whatever returns, fails or crashes, a users row stays locked only while the
\* transaction of a creation for that user is running.
THEOREM NoLockLeaks == Spec => []LockOnlyInTransaction
<1>1. LockInv => LockOnlyInTransaction
  BY DEF LockInv
<1> QED BY <1>1, TInvInductive, LockInvInductive, PTL DEF Spec
-----------------------------------------------------------------------------
(***************************************************************************)
(* Waiting.  EveryRequestAnswered is a liveness property and stays with     *)
(* TLC; its core, that requests never wait for each other in a circle, is   *)
(* an invariant, here for any number of requests, users and connections.    *)
(***************************************************************************)
\* What the guards of r's next statement ask for: a free row to lock, and outside a
\* transaction, which has its connection already, a connection.
CanGoOn(r) == /\ pc[r] \in Steps
              /\ pc[r] = "lock" => rowLock[call[r].user] = None
              /\ pc[r] \notin InTx => ConnFree

\* Whom a request waits for: who has the row it wants to lock, or, with the pool
\* used up, the transactions that have its connections.
WaitsFor(r) ==
  {q \in Requests :
     \/ pc[r] = "lock" /\ rowLock[call[r].user] = q
     \/ pc[r] \in Steps \ InTx /\ ~ConnFree /\ pc[q] \in InTx}

\* Whoever cannot go on waits for somebody who can, or who waits for somebody who can.
NoCircularWait ==
  \A r \in Requests : pc[r] \in Steps =>
    \/ CanGoOn(r)
    \/ \E q \in WaitsFor(r) : CanGoOn(q) \/ \E p \in WaitsFor(q) : CanGoOn(p)

LEMMA TransactionsGoOn ==
  ASSUME LockInv, TInv, NEW q \in Requests, pc[q] \in InTx
  PROVE  CanGoOn(q) \/ \E p \in WaitsFor(q) : CanGoOn(p)
<1>1. ASSUME NEW p \in Requests, pc[p] \in LockHeld PROVE CanGoOn(p)
  BY <1>1 DEF CanGoOn, Steps, Statements, InTx, LockHeld
<1>2. CASE pc[q] = "lock"
  <2>1. call[q].user \in Users
    BY <1>2 DEF TInv, StepArgs, CreatePCs, InTx
  <2>2. CASE rowLock[call[q].user] = None
    BY <1>2, <2>2 DEF CanGoOn, Steps, Statements, InTx
  <2>3. CASE rowLock[call[q].user] # None
    <3>1. PICK p \in Requests : p = rowLock[call[q].user]
      BY <2>1, <2>3 DEF TInv, TypeOK
    <3>2. p \in WaitsFor(q) /\ pc[p] \in LockHeld
      BY <1>2, <2>1, <2>3, <3>1 DEF WaitsFor, LockInv, LockOnlyInTransaction
    <3> QED BY <1>1, <3>2
  <2> QED BY <2>2, <2>3
<1> QED BY <1>1, <1>2 DEF InTx

\* Creations, revocations and authentications never wait for each other in a circle over
\* row locks and the pool's connections: a wait is for at most two others in a row.
THEOREM NobodyWaitsInACircle == Spec => []NoCircularWait
<1>1. TInv /\ LockInv => NoCircularWait
  <2> SUFFICES ASSUME TInv, LockInv, NEW r \in Requests, pc[r] \in Steps, ~CanGoOn(r)
               PROVE  \E q \in WaitsFor(r) :
                        CanGoOn(q) \/ \E p \in WaitsFor(q) : CanGoOn(p)
    BY DEF NoCircularWait
  <2>1. CASE pc[r] \in InTx
    <3>1. PICK q \in WaitsFor(r) : CanGoOn(q)
      BY <2>1, TransactionsGoOn
    <3> QED BY <3>1
  <2>2. CASE pc[r] \notin InTx
    <3>1. ~ConnFree
      BY <2>2 DEF CanGoOn, InTx
    <3>2. {q \in Requests : pc[q] \in InTx} # {}
      <4>1. Cardinality({}) < poolMaxConns
        BY FS_EmptySet, AgentKeysAssumption
      <4> QED BY <3>1, <4>1 DEF ConnFree
    <3>3. PICK q \in Requests : pc[q] \in InTx
      BY <3>2
    <3>4. q \in WaitsFor(r)
      BY <2>2, <3>1, <3>3 DEF WaitsFor
    <3> QED BY <3>3, <3>4, TransactionsGoOn
  <2> QED BY <2>1, <2>2
<1> QED BY <1>1, TInvInductive, LockInvInductive, PTL DEF Spec

\* The statements a handler has left at most.
StatementsLeft(step) == CASE step = "begin" -> 5
                          [] step = "lock" -> 4
                          [] step \in {"count", "revoke_get", "auth_key"} -> 3
                          [] step \in {"insert", "revoke_update", "auth_user"} -> 2
                          [] step \in {"commit", "revoke_check", "auth_touch"} -> 1
                          [] OTHER -> 0

\* No handler retries or goes back: whatever happens it has no more left than before, and
\* each step of its own makes that less.
HandlersGoForward ==
  [][\A r \in Requests : pc[r] \in Steps =>
       /\ StatementsLeft(pc'[r]) <= StatementsLeft(pc[r])
       /\ Step(r) => StatementsLeft(pc'[r]) < StatementsLeft(pc[r])]_vars

\* CreateAgent, RevokeAgent and AuthenticateAgent answer after at most five statements, as
\* long as their waits end; and NobodyWaitsInACircle says why those do.
THEOREM HandlersAreShort == Spec => HandlersGoForward
<1>1. ASSUME TInv, [Next]_vars, NEW r \in Requests, pc[r] \in Steps
      PROVE  /\ StatementsLeft(pc'[r]) <= StatementsLeft(pc[r])
             /\ Step(r) => StatementsLeft(pc'[r]) < StatementsLeft(pc[r])
  <2>. USE DEF TInv, TypeOK, Goto, Steps, Statements, InTx, LockHeld, StatementsLeft
  <2>1. CASE CreateStep(r)
    BY <1>1, <2>1
    DEF CreateStep, Begin, LockUserForUpdate, CountActiveAgents, InsertAgent, Commit
  <2>2. CASE RevokeStep(r)
    BY <1>1, <2>2 DEF RevokeStep, RevokeGet, RevokeUpdate, RevokeCheck
  <2>3. CASE AuthStep(r)
    BY <1>1, <2>3 DEF AuthStep, AuthGetByKeyHash, AuthGetUser, TouchLastUsed
  <2>4. CASE ~Step(r)
    <3>1. pc'[r] = pc[r] \/ pc'[r] \in {"idle", "internal"}
      <4>1. ASSUME NEW q \in Requests, q # r,
                   Arrive(q) \/ Step(q) \/ StatementFails(q) \/ Return(q)
            PROVE  pc'[r] = pc[r]
        BY <1>1, <4>1
        DEF Arrive, CreateArrives, RevokeArrives, AuthArrives, Step, CreateStep, Begin,
            LockUserForUpdate, CountActiveAgents, InsertAgent, Commit, RevokeStep, RevokeGet,
            RevokeUpdate, RevokeCheck, AuthStep, AuthGetByKeyHash, AuthGetUser, TouchLastUsed,
            StatementFails, Return
      <4>2. CASE Arrive(r) \/ StatementFails(r) \/ Return(r)
        BY <1>1, <4>2
        DEF Arrive, CreateArrives, RevokeArrives, AuthArrives, StatementFails, Return
      <4>3. CASE Crash \/ Tick \/ UNCHANGED vars
        BY <1>1, <4>3 DEF Crash, Tick, vars
      <4>. QED
        BY <1>1, <2>4, <4>1, <4>2, <4>3 DEF Next
    <3>. QED
      BY <1>1, <2>4, <3>1
  <2>. QED
    BY <1>1, <2>1, <2>2, <2>3, <2>4 DEF Step
<1>2. TInv /\ [Next]_vars =>
        [\A r \in Requests : pc[r] \in Steps =>
           /\ StatementsLeft(pc'[r]) <= StatementsLeft(pc[r])
           /\ Step(r) => StatementsLeft(pc'[r]) < StatementsLeft(pc[r])]_vars
  BY <1>1
<1>. QED
  BY <1>2, TInvInductive, PTL DEF Spec, HandlersGoForward
-----------------------------------------------------------------------------
(***************************************************************************)
(* The limit.  A creation counts in one step and commits in a later one;    *)
(* the invariant carries the count from the one to the other: while the row *)
(* lock is held nobody else adds an agent of that user, so there is still   *)
(* room at the commit.                                                      *)
(***************************************************************************)
RoomWhileLocked ==
  \A r \in Requests : pc[r] \in {"insert", "commit"} =>
    Cardinality(ActiveAgents(call[r].user)) < MaxAgentsPerUser

LimitInv == RoomWhileLocked /\ ActiveAgentsWithinLimit

LEMMA ActiveAgentsFinite ==
  ASSUME NEW u
  PROVE  IsFiniteSet(ActiveAgents(u)) /\ Cardinality(ActiveAgents(u)) \in Nat
<1>1. ActiveAgents(u) \subseteq AgentIDs
  BY DEF ActiveAgents, Stored
<1> QED BY <1>1, FS_Subset, FS_CardinalityType, AgentKeysAssumption

\* A step that makes no agent active leaves room where there was room.
LEMMA FewerAgentsKeepLimitInv ==
  ASSUME TInv, LimitInv,
         \A u \in Users : ActiveAgents(u)' \subseteq ActiveAgents(u),
         \A r \in Requests : pc'[r] \in {"insert", "commit"} =>
            call'[r] = call[r] /\ call[r].user \in Users
            /\ Cardinality(ActiveAgents(call[r].user)) < MaxAgentsPerUser
  PROVE  LimitInv'
<1>1. ASSUME NEW u \in Users
      PROVE  /\ Cardinality(ActiveAgents(u)') <= Cardinality(ActiveAgents(u))
             /\ Cardinality(ActiveAgents(u)') \in Nat
             /\ Cardinality(ActiveAgents(u)) \in Nat
  BY ActiveAgentsFinite, FS_Subset, FS_CardinalityType
<1>2. ActiveAgentsWithinLimit'
  BY <1>1, AgentKeysAssumption DEF LimitInv, ActiveAgentsWithinLimit
<1>3. ASSUME NEW r \in Requests, pc'[r] \in {"insert", "commit"}
      PROVE  Cardinality(ActiveAgents(call[r].user))' < MaxAgentsPerUser
  <2>1. /\ call'[r].user = call[r].user /\ call[r].user \in Users
        /\ Cardinality(ActiveAgents(call[r].user)) < MaxAgentsPerUser
    BY <1>3
  <2>2. PICK u \in Users : u = call[r].user
    BY <2>1
  <2>3. Cardinality(ActiveAgents(u)') < MaxAgentsPerUser
    BY <1>1, <2>1, <2>2, AgentKeysAssumption
  <2>4. ActiveAgents(call[r].user)' = ActiveAgents(u)'
    BY <2>1, <2>2 DEF ActiveAgents
  <2> QED BY <2>3, <2>4
<1> QED BY <1>2, <1>3 DEF LimitInv, RoomWhileLocked

\* The only step that adds an active agent.
LEMMA CommitKeepsLimitInv ==
  ASSUME TInv, LockInv, LimitInv, NEW r \in Requests, Commit(r)
  PROVE  LimitInv'
<1> DEFINE new == [user |-> call[r].user, revoked |-> 0, used |-> 0]
<1>1. PICK w \in Users, a \in AgentIDs :
        w = call[r].user /\ a = call[r].agent /\ rowLock[w] = r
        /\ Cardinality(ActiveAgents(w)) < MaxAgentsPerUser
  BY DEF Commit, TInv, StepArgs, CreatePCs, InTx, LockHeld, LockInv, HolderHasLock,
       LimitInv, RoomWhileLocked
<1>2. /\ agents' = [agents EXCEPT ![a] = new]
      /\ new.user = w
      /\ call' = call
      /\ pc \in [Requests -> {"idle"} \cup Steps \cup Answers]
      /\ agents \in [AgentIDs -> Row \cup {None}]
      /\ \A q \in Requests \ {r} : pc'[q] = pc[q]
      /\ pc'[r] \in {"ok", "internal"}
  BY <1>1 DEF Commit, Goto, TInv, TypeOK
<1> HIDE DEF new
<1>3. ActiveAgents(w)' \subseteq ActiveAgents(w) \cup {a}
  BY <1>2 DEF ActiveAgents, Stored
<1>4. ASSUME NEW u \in Users, u # w PROVE ActiveAgents(u)' \subseteq ActiveAgents(u)
  BY <1>2, <1>4 DEF ActiveAgents, Stored
<1>5. Cardinality(ActiveAgents(w)') <= MaxAgentsPerUser
  <2> DEFINE grown == ActiveAgents(w) \cup {a}
  <2>1. /\ IsFiniteSet(grown) /\ Cardinality(grown) \in Nat
        /\ Cardinality(grown) <= Cardinality(ActiveAgents(w)) + 1
    <3>1. IsFiniteSet(ActiveAgents(w)) /\ Cardinality(ActiveAgents(w)) \in Nat
      BY ActiveAgentsFinite
    <3>2. /\ IsFiniteSet(grown)
          /\ \/ Cardinality(grown) = Cardinality(ActiveAgents(w))
             \/ Cardinality(grown) = Cardinality(ActiveAgents(w)) + 1
      BY <3>1, FS_AddElement
    <3> HIDE DEF grown
    <3> QED BY <3>1, <3>2
  <2>2. Cardinality(grown) <= MaxAgentsPerUser
    BY <1>1, <2>1, ActiveAgentsFinite, AgentKeysAssumption
  <2> HIDE DEF grown
  <2>3. ActiveAgents(w)' \subseteq grown
    BY <1>3 DEF grown
  <2>4. /\ Cardinality(ActiveAgents(w)') <= Cardinality(grown)
        /\ Cardinality(ActiveAgents(w)') \in Nat
    BY <2>1, <2>3, FS_Subset, FS_CardinalityType
  <2> QED BY <2>1, <2>2, <2>4, AgentKeysAssumption
<1>6. ASSUME NEW u \in Users, u # w
      PROVE  /\ Cardinality(ActiveAgents(u)') <= Cardinality(ActiveAgents(u))
             /\ Cardinality(ActiveAgents(u)') \in Nat
             /\ Cardinality(ActiveAgents(u)) \in Nat
  BY <1>4, <1>6, ActiveAgentsFinite, FS_Subset, FS_CardinalityType
<1>7. ActiveAgentsWithinLimit'
  <2> SUFFICES ASSUME NEW u \in Users
               PROVE  Cardinality(ActiveAgents(u)') <= MaxAgentsPerUser
    BY DEF ActiveAgentsWithinLimit
  <2>1. CASE u = w
    BY <1>5, <2>1
  <2>2. CASE u # w
    BY <1>6, <2>2, AgentKeysAssumption DEF LimitInv, ActiveAgentsWithinLimit
  <2> QED BY <2>1, <2>2
<1>8. ASSUME NEW q \in Requests, pc'[q] \in {"insert", "commit"}
      PROVE  Cardinality(ActiveAgents(call[q].user))' < MaxAgentsPerUser
  <2>1. q # r /\ pc[q] \in {"insert", "commit"}
    BY <1>2, <1>8
  <2>2. PICK u \in Users : u = call[q].user /\ rowLock[u] = q
    BY <2>1 DEF TInv, StepArgs, CreatePCs, InTx, LockHeld, LockInv, HolderHasLock
  <2>3. u # w /\ Cardinality(ActiveAgents(u)) < MaxAgentsPerUser
    BY <1>1, <2>1, <2>2 DEF LimitInv, RoomWhileLocked
  <2>4. Cardinality(ActiveAgents(u)') < MaxAgentsPerUser
    BY <1>6, <2>3, AgentKeysAssumption
  <2>5. ActiveAgents(call[q].user)' = ActiveAgents(u)'
    BY <1>2, <2>2 DEF ActiveAgents
  <2> QED BY <2>4, <2>5
<1> QED BY <1>7, <1>8 DEF LimitInv, RoomWhileLocked

LEMMA CreateStepKeepsLimitInv ==
  ASSUME TInv, LockInv, LimitInv, NEW r \in Requests, CreateStep(r)
  PROVE  LimitInv'
<1>1. CASE Commit(r)
  BY <1>1, CommitKeepsLimitInv
<1>2. CASE Begin(r) \/ LockUserForUpdate(r) \/ CountActiveAgents(r) \/ InsertAgent(r)
  <2>1. call' = call /\ agents' = agents
    BY <1>2 DEF Begin, LockUserForUpdate, CountActiveAgents, InsertAgent
  <2>2. \A u \in Users : ActiveAgents(u)' \subseteq ActiveAgents(u)
    BY <2>1 DEF ActiveAgents, Stored
  <2>3. ASSUME NEW q \in Requests, pc'[q] \in {"insert", "commit"}
        PROVE  /\ call[q].user \in Users
               /\ Cardinality(ActiveAgents(call[q].user)) < MaxAgentsPerUser
    <3> USE DEF TInv, TypeOK, StepArgs, CreatePCs, InTx, LockHeld, Goto
    <3>1. CASE pc[q] \in {"insert", "commit"}
      BY <3>1 DEF LimitInv, RoomWhileLocked
    <3>2. CASE pc[q] \notin {"insert", "commit"}
      <4>1. q = r /\ CountActiveAgents(r) /\ pc[r] = "count"
        BY <1>2, <2>3, <3>2
           DEF Begin, LockUserForUpdate, CountActiveAgents, InsertAgent
      <4>2. ~(Cardinality(ActiveAgents(call[r].user)) >= MaxAgentsPerUser)
        BY <2>3, <4>1 DEF CountActiveAgents
      <4> QED BY <4>1, <4>2, ActiveAgentsFinite, AgentKeysAssumption
    <3> QED BY <3>1, <3>2
  <2> QED BY <2>1, <2>2, <2>3, FewerAgentsKeepLimitInv
<1> QED BY <1>1, <1>2 DEF CreateStep

\* The other steps of a request make no agent active, and start no insert.
LEMMA OtherStepsKeepLimitInv ==
  ASSUME TInv, LimitInv,
         \/ \E r \in Requests : Arrive(r) \/ RevokeStep(r) \/ AuthStep(r)
                                \/ StatementFails(r) \/ Return(r)
         \/ Crash \/ Tick \/ UNCHANGED vars
  PROVE  LimitInv'
<1> USE DEF Goto, history
<1>1. \A u \in Users : ActiveAgents(u)' \subseteq ActiveAgents(u)
  <2>1. CASE agents' = agents
    BY <2>1 DEF ActiveAgents, Stored
  <2>2. ASSUME NEW r \in Requests, RevokeStep(r) \/ AuthStep(r), agents' # agents
        PROVE  \A u \in Users : ActiveAgents(u)' \subseteq ActiveAgents(u)
    <3>1. call[r].agent \in Stored
      BY <2>2 DEF RevokeStep, RevokeGet, RevokeUpdate, RevokeCheck, AuthStep,
           AuthGetByKeyHash, AuthGetUser, TouchLastUsed, TInv, StepArgs
    <3>2. \/ agents' = [agents EXCEPT ![call[r].agent].revoked = at[r]]
             /\ agents[call[r].agent].revoked = 0
          \/ agents' = [agents EXCEPT ![call[r].agent].used = at[r]]
      BY <2>2 DEF RevokeStep, RevokeGet, RevokeUpdate, RevokeCheck, AuthStep,
           AuthGetByKeyHash, AuthGetUser, TouchLastUsed
    <3>3. agents[call[r].agent] \in Row /\ call[r].agent \in AgentIDs
      BY <3>1 DEF TInv, TypeOK, Stored
    <3>4. ASSUME NEW a \in AgentIDs, agents'[a] # None
          PROVE  /\ agents[a] # None /\ agents'[a].user = agents[a].user
                 /\ agents'[a].revoked = 0 => agents[a].revoked = 0
      BY <3>1, <3>2, <3>3, <3>4 DEF TInv, TypeOK, Stored, Row
    <3> QED BY <3>4 DEF ActiveAgents, Stored
  <2> QED BY <2>1, <2>2 DEF Arrive, CreateArrives, RevokeArrives, AuthArrives,
        StatementFails, Return, Crash, Tick, vars
<1>2. ASSUME NEW q \in Requests, pc'[q] \in {"insert", "commit"}
      PROVE  call'[q] = call[q] /\ pc[q] \in {"insert", "commit"}
  <2> USE DEF TInv, TypeOK
  <2>1. ASSUME NEW r \in Requests, Arrive(r)
        PROVE  call'[q] = call[q] /\ pc[q] \in {"insert", "commit"}
    BY <1>2, <2>1 DEF Arrive, CreateArrives, RevokeArrives, AuthArrives
  <2>2. ASSUME NEW r \in Requests, RevokeStep(r)
        PROVE  call'[q] = call[q] /\ pc[q] \in {"insert", "commit"}
    BY <1>2, <2>2 DEF RevokeStep, RevokeGet, RevokeUpdate, RevokeCheck
  <2>3. ASSUME NEW r \in Requests, AuthStep(r)
        PROVE  call'[q] = call[q] /\ pc[q] \in {"insert", "commit"}
    BY <1>2, <2>3 DEF AuthStep, AuthGetByKeyHash, AuthGetUser, TouchLastUsed
  <2>4. ASSUME NEW r \in Requests, StatementFails(r) \/ Return(r)
        PROVE  call'[q] = call[q] /\ pc[q] \in {"insert", "commit"}
    BY <1>2, <2>4 DEF StatementFails, Return
  <2>5. CASE Crash \/ Tick \/ UNCHANGED vars
    BY <1>2, <2>5 DEF Crash, Tick, vars
  <2> QED BY <2>1, <2>2, <2>3, <2>4, <2>5
<1>3. ASSUME NEW q \in Requests, pc'[q] \in {"insert", "commit"}
      PROVE  call'[q] = call[q] /\ call[q].user \in Users
             /\ Cardinality(ActiveAgents(call[q].user)) < MaxAgentsPerUser
  BY <1>2, <1>3 DEF TInv, StepArgs, CreatePCs, InTx, LockHeld, LimitInv, RoomWhileLocked
<1> QED BY <1>1, <1>3, FewerAgentsKeepLimitInv

LEMMA LimitInvInductive ==
  (Init => LimitInv) /\ (TInv /\ LockInv /\ LimitInv /\ [Next]_vars => LimitInv')
<1>1. Init => LimitInv
  <2> SUFFICES ASSUME Init PROVE LimitInv
    OBVIOUS
  <2>1. \A u \in Users : ActiveAgents(u) = {}
    BY DEF Init, ActiveAgents, Stored
  <2> QED BY <2>1, FS_EmptySet, AgentKeysAssumption
        DEF Init, LimitInv, RoomWhileLocked, ActiveAgentsWithinLimit
<1>2. TInv /\ LockInv /\ LimitInv /\ [Next]_vars => LimitInv'
  BY CreateStepKeepsLimitInv, OtherStepsKeepLimitInv DEF Next, Step
<1> QED BY <1>1, <1>2

\* However many creations, revocations, failures and crashes interleave, no user
\* has more than MaxAgentsPerUser active agents.
THEOREM LimitHolds == Spec => []ActiveAgentsWithinLimit
<1>1. LimitInv => ActiveAgentsWithinLimit
  BY DEF LimitInv
<1> QED BY <1>1, TInvInductive, LockInvInductive, LimitInvInductive, PTL DEF Spec
-----------------------------------------------------------------------------
(***************************************************************************)
(* What becomes of one agent: it is stored before its key is shown, its     *)
(* revocation is final, and its key is refused from then on.                *)
(***************************************************************************)
Dead == {a \in Stored : agents[a].revoked # 0}

\* A creation has an agent id to itself, and nobody has stored it yet.
OwnID ==
  /\ \A r \in Requests : pc[r] \in CreatePCs => call[r].agent \notin Stored
  /\ \A r, q \in Requests : call[r].op = "create" /\ call[q].op = "create" /\ r # q =>
       call[r].agent # call[q].agent

\* What a revocation has read still holds when it writes, or checks again.
RevokeFollows ==
  \A r \in Requests :
    /\ pc[r] \in {"revoke_update", "revoke_check"} =>
         agents[call[r].agent].user = call[r].user
    /\ pc[r] = "revoke_update" => at[r] # 0
    /\ pc[r] = "revoke_check" => call[r].agent \in Dead
    /\ pc[r] = "ok" /\ call[r].op = "revoke" => call[r].agent \in Dead

\* An acknowledged revocation is in the table, and a request that comes after it
\* can only be refused or fail.
AckFollows ==
  /\ revokeAcked \subseteq Dead
  /\ \A r \in Requests : late[r] =>
       pc[r] \in {"auth_key", "unauthorized", "internal"} /\ call[r].agent \in revokeAcked

KeyInv == OwnID /\ RevokeFollows /\ AckFollows /\ KeyShownIsStored

\* The one thing that may happen to a stored row, whoever else is at work.
RowsKept == \A a \in Stored : /\ a \in Stored' /\ agents'[a].user = agents[a].user
                              /\ agents[a].revoked # 0 => agents'[a].revoked = agents[a].revoked
-----------------------------------------------------------------------------
\* Of all steps only three write the table.
LEMMA WritersOfRows ==
  ASSUME TInv, KeyInv, [Next]_vars
  PROVE  \/ UNCHANGED agents
         \/ \E r \in Requests : Commit(r)
         \/ \E r \in Requests : RevokeUpdate(r) /\ agents[call[r].agent].revoked = 0
              /\ agents' = [agents EXCEPT ![call[r].agent].revoked = at[r]]
         \/ \E r \in Requests : TouchLastUsed(r)
              /\ agents' = [agents EXCEPT ![call[r].agent].used = at[r]]
  BY DEF Next, Arrive, Step, CreateStep, RevokeStep, AuthStep, vars,
     CreateArrives, RevokeArrives, AuthArrives, Begin, LockUserForUpdate, CountActiveAgents,
     InsertAgent, RevokeGet, RevokeUpdate, RevokeCheck, AuthGetByKeyHash, AuthGetUser,
     TouchLastUsed, StatementFails, Return, Crash, Tick

LEMMA RowsAreKept ==
  ASSUME TInv, KeyInv, [Next]_vars
  PROVE  RowsKept
<1>. SUFFICES ASSUME NEW a \in Stored
              PROVE  /\ a \in Stored' /\ agents'[a].user = agents[a].user
                     /\ agents[a].revoked # 0 => agents'[a].revoked = agents[a].revoked
  BY DEF RowsKept
<1>0. /\ a \in AgentIDs /\ agents[a] \in Row /\ agents[a] # None
      /\ agents \in [AgentIDs -> Row \cup {None}] /\ None \notin Row
  BY AgentKeysAssumption DEF Stored, TInv, TypeOK
<1>1. CASE UNCHANGED agents
  BY <1>1 DEF Stored
<1>2. ASSUME NEW r \in Requests, Commit(r) PROVE agents'[a] = agents[a]
  BY <1>2, <1>0 DEF Commit, KeyInv, OwnID, CreatePCs, InTx, LockHeld
<1>3. ASSUME NEW r \in Requests, RevokeUpdate(r), agents[call[r].agent].revoked = 0,
             agents' = [agents EXCEPT ![call[r].agent].revoked = at[r]]
      PROVE  /\ agents'[a] \in Row /\ agents'[a].user = agents[a].user
             /\ agents[a].revoked # 0 => agents'[a].revoked = agents[a].revoked
  BY <1>3, <1>0 DEF Row, TInv, TypeOK
<1>4. ASSUME NEW r \in Requests, TouchLastUsed(r),
             agents' = [agents EXCEPT ![call[r].agent].used = at[r]]
      PROVE  /\ agents'[a] \in Row /\ agents'[a].user = agents[a].user
             /\ agents'[a].revoked = agents[a].revoked
  BY <1>4, <1>0 DEF Row, TInv, TypeOK
<1>. QED
  BY <1>0, <1>1, <1>2, <1>3, <1>4, WritersOfRows DEF Stored

\* So the dead stay dead.
LEMMA DeadStayDead ==
  ASSUME TInv, KeyInv, [Next]_vars
  PROVE  Dead \subseteq Dead'
  BY RowsAreKept DEF RowsKept, Dead

\* Only a commit stores an agent that was not there.
LEMMA OnlyCommitStores ==
  ASSUME TInv, KeyInv, [Next]_vars, NEW a \in Stored', a \notin Stored
  PROVE  \E r \in Requests : Commit(r) /\ a = call[r].agent
<1>0. a \in AgentIDs /\ agents[a] = None /\ agents'[a] # None
      /\ agents \in [AgentIDs -> Row \cup {None}]
  BY DEF Stored, TInv, TypeOK
<1>1. ASSUME NEW r \in Requests, RevokeUpdate(r) \/ TouchLastUsed(r) PROVE call[r].agent \in Stored
  BY <1>1 DEF RevokeUpdate, TouchLastUsed, TInv, StepArgs
<1>. QED
  BY <1>0, <1>1, WritersOfRows DEF Stored, Commit
-----------------------------------------------------------------------------
LEMMA ArriveKeepsKeyInv ==
  ASSUME TInv, KeyInv, RowsKept, NEW r \in Requests, Arrive(r)
  PROVE  KeyInv'
<1>. USE DEF TInv, TypeOK, KeyInv, OwnID, RevokeFollows, AckFollows, KeyShownIsStored,
       Dead, Stored, CreatePCs, InTx, LockHeld, Goto, history
<1>1. CASE CreateArrives(r)
  BY <1>1 DEF CreateArrives, FreshIDs
<1>2. CASE RevokeArrives(r)
  BY <1>2 DEF RevokeArrives
<1>3. CASE AuthArrives(r)
  BY <1>3 DEF AuthArrives
<1>. QED
  BY <1>1, <1>2, <1>3 DEF Arrive

LEMMA CreateStepKeepsKeyInv ==
  ASSUME TInv, KeyInv, RowsKept, NEW r \in Requests, CreateStep(r)
  PROVE  KeyInv'
<1>. USE DEF TInv, TypeOK, StepArgs, KeyInv, OwnID, RevokeFollows, AckFollows, KeyShownIsStored,
       Dead, Stored, CreatePCs, InTx, LockHeld, Goto, history
<1>1. CASE Begin(r)
  BY <1>1 DEF Begin
<1>2. CASE LockUserForUpdate(r)
  BY <1>2 DEF LockUserForUpdate
<1>3. CASE CountActiveAgents(r)
  BY <1>3 DEF CountActiveAgents
<1>4. CASE InsertAgent(r)
  BY <1>4 DEF InsertAgent
<1>5. CASE Commit(r)
  <2>. DEFINE a == call[r].agent
              new == [user |-> call[r].user, revoked |-> 0, used |-> 0]
  <2>1. /\ pc[r] = "commit" /\ call[r].op = "create" /\ call[r].user \in Users
        /\ a \in AgentIDs \ Stored
        /\ agents' = [agents EXCEPT ![a] = new]
        /\ pc' = [pc EXCEPT ![r] = "ok"] \/ pc' = [pc EXCEPT ![r] = "internal"]
        /\ UNCHANGED <<call, at, revokeAcked, late>>
    BY <1>5 DEF Commit
  <2>2. new # None /\ new.user = call[r].user
    BY <2>1, AgentKeysAssumption DEF Row
  <2>. HIDE DEF new
  <2>3. Stored' = Stored \cup {a} /\ Dead \subseteq Dead'
    BY <2>1, <2>2 DEF RowsKept
  <2>4. agents'[a].user = call[r].user
    BY <2>1, <2>2
  <2>. HIDE DEF a, Stored, Dead
  <2>5. OwnID'
    BY <2>1, <2>3 DEF a
  <2>6. RevokeFollows'
    <3>1. ASSUME NEW q \in Requests, pc'[q] \in {"revoke_update", "revoke_check"}
          PROVE  agents'[call[q].agent].user = call[q].user
      BY <2>1, <3>1 DEF RevokePCs, RowsKept
    <3>. QED
      BY <2>1, <2>3, <3>1
  <2>7. AckFollows'
    BY <2>1, <2>3
  <2>8. KeyShownIsStored'
    <3>1. ASSUME NEW q \in Requests, q # r, pc[q] = "ok", call[q].op = "create"
          PROVE  agents'[call[q].agent].user = call[q].user
      BY <3>1 DEF RowsKept
    <3>. QED
      BY <2>1, <2>3, <2>4, <3>1 DEF a
  <2>. QED
    BY <2>5, <2>6, <2>7, <2>8
<1>. QED
  BY <1>1, <1>2, <1>3, <1>4, <1>5 DEF CreateStep

LEMMA RevokeStepKeepsKeyInv ==
  ASSUME TInv, KeyInv, RowsKept, NEW r \in Requests, RevokeStep(r)
  PROVE  KeyInv'
<1>. USE DEF TInv, TypeOK, StepArgs, KeyInv, OwnID, RevokeFollows, AckFollows, KeyShownIsStored,
       Dead, Stored, CreatePCs, InTx, LockHeld, RevokePCs, Goto, history
<1>1. CASE RevokeGet(r)
  BY <1>1 DEF RevokeGet
<1>2. CASE RevokeUpdate(r)
  <2>. DEFINE a == call[r].agent
  <2>1. /\ pc[r] = "revoke_update" /\ call[r].op = "revoke" /\ at[r] # 0
        /\ a \in Stored /\ a \in AgentIDs /\ agents[a] \in Row
        /\ UNCHANGED <<call, at, revokeAcked, late>>
    BY <1>2 DEF RevokeUpdate
  <2>2. \/ /\ agents[a].revoked # 0 /\ pc' = [pc EXCEPT ![r] = "revoke_check"]
           /\ agents' = agents
        \/ /\ pc' = [pc EXCEPT ![r] = "ok"] \/ pc' = [pc EXCEPT ![r] = "internal"]
           /\ agents' = [agents EXCEPT ![a].revoked = at[r]]
    BY <1>2 DEF RevokeUpdate
  <2>3. \A b \in AgentIDs : b \in Stored' => b \in Stored
    BY <2>1, <2>2
  <2>4. Dead \subseteq Dead' /\ a \in Dead'
    <3>1. Dead \subseteq Dead'
      BY DEF RowsKept
    <3>2. a \in Stored' /\ agents'[a].revoked # 0
      BY <2>1, <2>2 DEF RowsKept, Row
    <3>. QED
      BY <3>1, <3>2
  <2>5. Stored' = Stored
    BY <2>3 DEF RowsKept
  <2>. HIDE DEF a, Stored, Dead
  <2>6. OwnID'
    BY <2>1, <2>2, <2>5
  <2>7. RevokeFollows'
    <3>1. ASSUME NEW q \in Requests, pc'[q] \in {"revoke_update", "revoke_check"}
          PROVE  agents'[call[q].agent].user = call[q].user
      BY <2>1, <2>2, <3>1 DEF RowsKept, a
    <3>. QED
      BY <2>1, <2>2, <2>4, <3>1 DEF a
  <2>8. AckFollows'
    BY <2>1, <2>2, <2>4
  <2>9. KeyShownIsStored'
    <3>1. ASSUME NEW q \in Requests, q # r, pc[q] = "ok", call[q].op = "create"
          PROVE  agents'[call[q].agent].user = call[q].user
      BY <3>1 DEF RowsKept
    <3>. QED
      BY <2>1, <2>2, <2>5, <3>1
  <2>. QED
    BY <2>6, <2>7, <2>8, <2>9
<1>3. CASE RevokeCheck(r)
  BY <1>3 DEF RevokeCheck
<1>. QED
  BY <1>1, <1>2, <1>3 DEF RevokeStep

LEMMA AuthStepKeepsKeyInv ==
  ASSUME TInv, KeyInv, RowsKept, NEW r \in Requests, AuthStep(r)
  PROVE  KeyInv'
<1>. USE DEF TInv, TypeOK, StepArgs, KeyInv, OwnID, RevokeFollows, AckFollows, KeyShownIsStored,
       Dead, Stored, CreatePCs, InTx, LockHeld, AuthPCs, Goto, history
<1>1. CASE AuthGetByKeyHash(r)
  BY <1>1 DEF AuthGetByKeyHash
<1>2. CASE AuthGetUser(r)
  BY <1>2 DEF AuthGetUser
<1>3. CASE TouchLastUsed(r)
  BY <1>3 DEF TouchLastUsed, RowsKept
<1>. QED
  BY <1>1, <1>2, <1>3 DEF AuthStep

LEMMA OtherStepsKeepKeyInv ==
  ASSUME TInv, KeyInv,
         \/ \E r \in Requests : StatementFails(r) \/ Return(r)
         \/ Crash \/ Tick \/ UNCHANGED vars
  PROVE  KeyInv'
<1>. USE DEF TInv, TypeOK, StepArgs, KeyInv, OwnID, RevokeFollows, AckFollows, KeyShownIsStored,
       Dead, Stored, CreatePCs, InTx, LockHeld, Goto, history, NoCall
<1>1. ASSUME NEW r \in Requests, StatementFails(r) PROVE KeyInv'
  BY <1>1 DEF StatementFails, Statements
<1>2. ASSUME NEW r \in Requests, Return(r) PROVE KeyInv'
  BY <1>2 DEF Return, Answers
<1>3. CASE Crash
  BY <1>3 DEF Crash
<1>4. CASE Tick \/ UNCHANGED vars
  BY <1>4 DEF Tick, vars
<1>. QED
  BY <1>1, <1>2, <1>3, <1>4

LEMMA KeyInvInductive == (Init => KeyInv) /\ (TInv /\ KeyInv /\ [Next]_vars => KeyInv')
<1>1. Init => KeyInv
  BY DEF Init, KeyInv, OwnID, RevokeFollows, AckFollows, KeyShownIsStored, NoCall,
     CreatePCs, InTx, LockHeld
<1>2. TInv /\ KeyInv /\ [Next]_vars => KeyInv'
  BY RowsAreKept, ArriveKeepsKeyInv, CreateStepKeepsKeyInv, RevokeStepKeepsKeyInv,
     AuthStepKeepsKeyInv, OtherStepsKeepKeyInv DEF Next, Step
<1>. QED
  BY <1>1, <1>2

LEMMA KeyInvariant == Spec => [](TInv /\ KeyInv)
  BY TInvInductive, KeyInvInductive, PTL DEF Spec

\* CreateAgent shows a key only of an agent that is in the table, and the caller's.
THEOREM KeysShownAreStored == Spec => []KeyShownIsStored
<1>1. KeyInv => KeyShownIsStored
  BY DEF KeyInv
<1>. QED
  BY <1>1, KeyInvariant, PTL

\* Authenticate lets nobody in whose key was known to be dead when he came, though
\* it reads the agent once and the request that revoked it may be another one than
\* the one that said so.
THEOREM RevokedStaysOut == Spec => []RevokedKeyRefused
<1>1. KeyInv => RevokedKeyRefused
  BY DEF KeyInv, AckFollows, RevokedKeyRefused
<1>. QED
  BY <1>1, KeyInvariant, PTL

\* RevokeAgent and TouchLastUsed, both of which write a row they read earlier, never
\* bring a revoked agent back nor move the time of its revocation.
THEOREM RevokedForGood == Spec => RevocationIsFinal
<1>1. TInv /\ KeyInv /\ [Next]_vars =>
        [\A a \in Stored : agents[a].revoked # 0 =>
           a \in Stored' /\ agents'[a].revoked = agents[a].revoked]_vars
  BY RowsAreKept DEF RowsKept
<1>. QED
  BY <1>1, KeyInvariant, PTL DEF Spec, RevocationIsFinal
=============================================================================
