------------------------ MODULE AgentDirectoryProofs ------------------------
(***************************************************************************)
(* AgentKeys implements AgentDirectory, for every value of the constants.   *)
(* Each operation takes effect in one of its statements: a creation at the  *)
(* commit, a revocation at its write or where it finds the agent already    *)
(* revoked, an authentication at its read of the key.  All other statements *)
(* change nothing that the directory shows.                                 *)
(***************************************************************************)
EXTENDS AgentKeysProofs

DInv == TInv /\ LockInv /\ LimitInv /\ KeyInv

LEMMA DInvariant == Spec => []DInv
  BY TInvInductive, LockInvInductive, LimitInvInductive, KeyInvInductive, PTL
  DEF Spec, DInv

\* The refinement mapping, as AgentKeys gives it.
PhaseOf(step) == IF step \in {"auth_user", "auth_touch"} THEN "admitted"
                 ELSE IF step \in Steps THEN "pending" ELSE step

owner == [a \in AgentIDs |-> IF a \in Stored THEN agents[a].user ELSE None]
phase == [r \in Requests |-> PhaseOf(pc[r])]

\* AgentDirectory counts as AgentKeys does.
LEMMA CardinalityIs ==
  ASSUME NEW S
  PROVE  Directory!Cardinality(S) = Cardinality(S)
  BY DEF Directory!Cardinality, Cardinality, Directory!IsFiniteSet, IsFiniteSet

LEMMA DirectoryIs ==
  ASSUME DInv
  PROVE  /\ \A a : Directory!Exists(a) <=> a \in Stored
         /\ \A a \in Stored : owner[a] = agents[a].user
         /\ \A u \in Users : Directory!Active(u) = ActiveAgents(u)
<1>1. \A a \in Stored : a \in AgentIDs /\ agents[a].user \in Users
  BY DEF DInv, TInv, TypeOK, Stored, Row
<1>2. None \notin Users
  BY AgentKeysAssumption
<1>3. \A a : Directory!Exists(a) <=> a \in Stored
  BY <1>1, <1>2 DEF Directory!Exists, Stored
<1>4. \A u \in Users : Directory!Active(u) = ActiveAgents(u)
  BY <1>1, <1>2 DEF Directory!Active, ActiveAgents, Stored
<1>. QED
  BY <1>1, <1>3, <1>4 DEF owner

LEMMA PhaseMoves ==
  ASSUME DInv, NEW r \in Requests, NEW p, Goto(r, p)
  PROVE  phase[r] = PhaseOf(pc[r]) /\ phase' = [phase EXCEPT ![r] = PhaseOf(p)]
BY DEF Goto, phase, DInv, TInv, TypeOK

LEMMA Phases ==
  /\ \A p \in Statements \ {"auth_user"} : PhaseOf(p) = "pending"
  /\ PhaseOf("auth_user") = "admitted" /\ PhaseOf("auth_touch") = "admitted"
  /\ \A p \in Answers \cup {"idle"} : PhaseOf(p) = p
BY DEF PhaseOf, Steps, Statements, InTx, LockHeld, Answers

LEMMA TableSame ==
  ASSUME UNCHANGED agents
  PROVE  owner' = owner /\ Dead' = Dead
BY DEF owner, Dead, Stored

\* A statement that shows nothing: the request stays in its phase.
LEMMA GoesOn ==
  ASSUME DInv, NEW r \in Requests, NEW p, Goto(r, p), PhaseOf(p) = PhaseOf(pc[r]),
         owner' = owner, Dead' = Dead, UNCHANGED call
  PROVE  UNCHANGED Directory!vars
<1>1. phase' = phase
  BY PhaseMoves DEF phase, DInv, TInv, TypeOK
<1>. QED
  BY <1>1 DEF Directory!vars, owner, Dead, phase, PhaseOf

\* A statement with which the request passes to another phase.
LEMMA Moves ==
  ASSUME DInv, NEW r \in Requests, NEW p, Goto(r, p), UNCHANGED call
  PROVE  Directory!Move(r, call[r].op, PhaseOf(pc[r]), PhaseOf(p))
  BY PhaseMoves DEF Directory!Move, phase, PhaseOf

LEMMA FailMaps ==
  ASSUME DInv, NEW r \in Requests, pc[r] \in Statements, Goto(r, "internal"),
         UNCHANGED <<agents, call>>
  PROVE  Directory!Fail(r)
<1>1. call[r].op \in {"create", "revoke", "auth"} /\ PhaseOf(pc[r]) \in {"pending", "admitted"}
  BY Phases DEF DInv, TInv, StepArgs, Statements, CreatePCs, RevokePCs, AuthPCs
<1>2. Directory!Move(r, call[r].op, PhaseOf(pc[r]), "internal")
  BY Moves, Phases DEF Answers
<1>. QED
  BY <1>1, <1>2, TableSame DEF Directory!Fail, owner, Dead
-----------------------------------------------------------------------------
LEMMA ArriveMaps ==
  ASSUME DInv, NEW r \in Requests, Arrive(r)
  PROVE  Directory!Invoke(r)
<1>1. pc[r] = "idle" /\ UNCHANGED agents
  BY DEF Arrive, CreateArrives, RevokeArrives, AuthArrives
<1>2. PICK op \in {"create", "revoke", "auth"}, u \in Users \cup {None},
           a \in AgentIDs \cup {None} :
        call' = [call EXCEPT ![r] = [op |-> op, user |-> u, agent |-> a]]
  BY DEF Arrive, CreateArrives, RevokeArrives, AuthArrives, FreshIDs, Stored, DInv, TInv, TypeOK
<1>3. PICK p \in {"begin", "revoke_get", "auth_key", "invalid"} :
        Goto(r, p) /\ (p = "invalid" => call'[r].op = "create")
  BY DEF Arrive, CreateArrives, RevokeArrives, AuthArrives, DInv, TInv, TypeOK
<1>4. phase[r] = "idle" /\ phase' = [phase EXCEPT ![r] = IF p = "invalid" THEN p ELSE "pending"]
  BY <1>1, <1>3, PhaseMoves, Phases DEF Statements, Answers
<1>. QED
  BY <1>1, <1>2, <1>3, <1>4, TableSame DEF Directory!Invoke, owner, Dead, phase, PhaseOf

LEMMA CommitMaps ==
  ASSUME DInv, NEW r \in Requests, Commit(r)
  PROVE  Directory!Create(r)
<1>. DEFINE a == call[r].agent
            new == [user |-> call[r].user, revoked |-> 0, used |-> 0]
<1>1. /\ pc[r] = "commit" /\ call[r].op = "create" /\ call[r].user \in Users
      /\ a \in AgentIDs \ Stored /\ UNCHANGED call
      /\ agents' = [agents EXCEPT ![a] = new]
  BY DEF Commit, DInv, TInv, StepArgs, KeyInv, OwnID, CreatePCs, InTx, LockHeld
<1>2. Cardinality(Directory!Active(call[r].user)) < MaxAgentsPerUser /\ ~Directory!Exists(a)
  BY <1>1, DirectoryIs DEF DInv, LimitInv, RoomWhileLocked
<1>3. new # None /\ new.user = call[r].user /\ new.revoked = 0
  BY <1>1, AgentKeysAssumption DEF Row
<1>. HIDE DEF new
<1>4. owner' = [owner EXCEPT ![a] = call[r].user] /\ Dead' = Dead
  BY <1>1, <1>3 DEF owner, Dead, Stored, DInv, TInv, TypeOK
<1>5. \/ Directory!Move(r, "create", "pending", "ok")
      \/ Directory!Move(r, "create", "pending", "internal")
  BY <1>1, Moves, Phases DEF Commit, Statements, InTx, LockHeld, Answers
<1>. QED
  BY <1>2, <1>4, <1>5, CardinalityIs DEF Directory!Create, owner, Dead

LEMMA CreateStepMaps ==
  ASSUME DInv, NEW r \in Requests, CreateStep(r)
  PROVE  Directory!Create(r) \/ Directory!RefuseCreate(r) \/ UNCHANGED Directory!vars
<1>. USE DEF Statements, InTx, LockHeld
<1>1. CASE Begin(r)
  BY <1>1, GoesOn, Phases, TableSame DEF Begin
<1>2. CASE LockUserForUpdate(r)
  BY <1>2, GoesOn, Phases, TableSame DEF LockUserForUpdate
<1>3. CASE InsertAgent(r)
  BY <1>3, GoesOn, Phases, TableSame DEF InsertAgent
<1>4. CASE Commit(r)
  BY <1>4, CommitMaps
<1>5. CASE CountActiveAgents(r)
  <2>1. pc[r] = "count" /\ call[r].op = "create" /\ call[r].user \in Users
        /\ UNCHANGED <<agents, call>>
    BY <1>5 DEF CountActiveAgents, DInv, TInv, StepArgs, CreatePCs
  <2>2. CASE Goto(r, "insert")
    BY <2>1, <2>2, GoesOn, Phases, TableSame
  <2>3. CASE Goto(r, "forbidden")
             /\ Cardinality(ActiveAgents(call[r].user)) >= MaxAgentsPerUser
    <3>1. Directory!Move(r, "create", "pending", "forbidden")
      BY <2>1, <2>3, Moves, Phases DEF Answers
    <3>2. Cardinality(ActiveAgents(call[r].user)) = MaxAgentsPerUser
      BY <2>1, <2>3, ActiveAgentsFinite, AgentKeysAssumption
         DEF DInv, LimitInv, ActiveAgentsWithinLimit
    <3>. QED
      BY <2>1, <3>1, <3>2, DirectoryIs, CardinalityIs, TableSame
      DEF Directory!RefuseCreate, owner, Dead
  <2>. QED
    BY <1>5, <2>2, <2>3 DEF CountActiveAgents
<1>. QED
  BY <1>1, <1>2, <1>3, <1>4, <1>5 DEF CreateStep
-----------------------------------------------------------------------------
\* A revocation that answers, its agent dead by its own write or another's.
LEMMA RevokedMaps ==
  ASSUME DInv, NEW r \in Requests, pc[r] \in RevokePCs, call[r].agent \in Stored,
         agents[call[r].agent].user = call[r].user,
         Goto(r, "ok") \/ Goto(r, "internal"), UNCHANGED call,
         owner' = owner, Dead' = Dead \cup {call[r].agent}
  PROVE  Directory!Revoke(r)
<1>1. call[r].op = "revoke" /\ pc[r] \in Statements \ {"auth_user"}
  BY DEF DInv, TInv, StepArgs, RevokePCs, Statements
<1>2. \/ Directory!Move(r, "revoke", "pending", "ok")
      \/ Directory!Move(r, "revoke", "pending", "internal")
  BY <1>1, Moves, Phases DEF Answers
<1>3. Directory!Exists(call[r].agent) /\ owner[call[r].agent] = call[r].user
  BY DirectoryIs
<1>. QED
  BY <1>2, <1>3 DEF Directory!Revoke, owner, Dead

LEMMA RevokeGetMaps ==
  ASSUME DInv, NEW r \in Requests, RevokeGet(r)
  PROVE  Directory!Revoke(r) \/ Directory!RefuseRevoke(r) \/ UNCHANGED Directory!vars
<1>. DEFINE a == call[r].agent
<1>1. /\ pc[r] = "revoke_get" /\ call[r].op = "revoke" /\ UNCHANGED <<agents, call>>
      /\ pc[r] \in Statements \ {"auth_user"} /\ PhaseOf(pc[r]) = "pending"
  BY Phases DEF RevokeGet, DInv, TInv, StepArgs, RevokePCs, Statements
<1>2. CASE a \notin Stored /\ Goto(r, "not_found")
  <2>1. Directory!Move(r, "revoke", "pending", "not_found")
    BY <1>1, <1>2, Moves, Phases DEF Answers
  <2>. QED
    BY <1>1, <1>2, <2>1, DirectoryIs, TableSame DEF Directory!RefuseRevoke, owner, Dead
<1>3. CASE a \in Stored /\ agents[a].user # call[r].user /\ Goto(r, "forbidden")
  <2>1. Directory!Move(r, "revoke", "pending", "forbidden")
    BY <1>1, <1>3, Moves, Phases DEF Answers
  <2>. QED
    BY <1>1, <1>3, <2>1, DirectoryIs, TableSame DEF Directory!RefuseRevoke, owner, Dead
<1>4. CASE a \in Stored /\ agents[a].user = call[r].user /\ agents[a].revoked # 0
           /\ Goto(r, "ok")
  <2>1. Dead' = Dead \cup {a} /\ owner' = owner
    BY <1>1, <1>4, TableSame DEF Dead
  <2>. QED
    BY <1>1, <1>4, <2>1, RevokedMaps DEF RevokePCs
<1>5. CASE Goto(r, "revoke_update")
  BY <1>1, <1>5, GoesOn, Phases, TableSame DEF Statements
<1>. QED
  BY <1>2, <1>3, <1>4, <1>5 DEF RevokeGet

LEMMA RevokeUpdateMaps ==
  ASSUME DInv, NEW r \in Requests, RevokeUpdate(r)
  PROVE  Directory!Revoke(r) \/ UNCHANGED Directory!vars
<1>. DEFINE a == call[r].agent
<1>1. /\ pc[r] = "revoke_update" /\ at[r] # 0 /\ UNCHANGED call
      /\ a \in Stored /\ a \in AgentIDs /\ agents[a] \in Row /\ agents[a].user = call[r].user
  BY DEF RevokeUpdate, DInv, TInv, TypeOK, StepArgs, KeyInv, RevokeFollows, Stored
<1>2. CASE Goto(r, "revoke_check") /\ UNCHANGED agents
  BY <1>1, <1>2, GoesOn, Phases, TableSame DEF Statements
<1>3. CASE agents' = [agents EXCEPT ![a].revoked = at[r]]
           /\ (Goto(r, "ok") \/ Goto(r, "internal"))
  <2>1. /\ agents'[a].user = agents[a].user /\ agents'[a].revoked = at[r]
        /\ agents'[a] # None /\ \A b \in AgentIDs \ {a} : agents'[b] = agents[b]
    <3>1. at[r] \in 0..MaxClock /\ agents \in [AgentIDs -> Row \cup {None}]
      BY DEF DInv, TInv, TypeOK
    <3>2. [agents[a] EXCEPT !.revoked = at[r]] \in Row
      BY <1>1, <3>1 DEF Row
    <3>. QED
      BY <1>1, <1>3, <3>1, <3>2, AgentKeysAssumption DEF Row
  <2>2. Stored' = Stored
    BY <1>1, <2>1 DEF Stored
  <2>3. owner' = owner
    BY <2>1, <2>2 DEF owner
  <2>4. Dead' = Dead \cup {a}
    BY <1>1, <2>1, <2>2 DEF Dead, Stored
  <2>. QED
    BY <1>1, <1>3, <2>3, <2>4, RevokedMaps DEF RevokePCs
<1>. QED
  BY <1>2, <1>3 DEF RevokeUpdate

LEMMA RevokeStepMaps ==
  ASSUME DInv, NEW r \in Requests, RevokeStep(r)
  PROVE  Directory!Revoke(r) \/ Directory!RefuseRevoke(r) \/ UNCHANGED Directory!vars
<1>1. ASSUME RevokeCheck(r) PROVE Directory!Revoke(r)
  <2>1. /\ pc[r] = "revoke_check" /\ call[r].agent \in Dead /\ Goto(r, "ok")
        /\ agents[call[r].agent].user = call[r].user /\ UNCHANGED <<agents, call>>
    BY <1>1 DEF RevokeCheck, DInv, TInv, StepArgs, KeyInv, RevokeFollows
  <2>2. call[r].agent \in Stored /\ Dead' = Dead \cup {call[r].agent} /\ owner' = owner
    BY <2>1, TableSame DEF Dead
  <2>. QED
    BY <2>1, <2>2, RevokedMaps DEF RevokePCs
<1>. QED
  BY <1>1, RevokeGetMaps, RevokeUpdateMaps DEF RevokeStep
-----------------------------------------------------------------------------
LEMMA TouchChangesNothingSeen ==
  ASSUME DInv, NEW r \in Requests, TouchLastUsed(r)
  PROVE  owner' = owner /\ Dead' = Dead
<1>. DEFINE a == call[r].agent
<1>1. CASE agents' = [agents EXCEPT ![a].used = at[r]]
  <2>1. /\ a \in AgentIDs /\ agents[a] \in Row /\ agents[a] # None
        /\ at[r] \in 0..MaxClock /\ agents \in [AgentIDs -> Row \cup {None}]
    BY DEF TouchLastUsed, DInv, TInv, TypeOK, StepArgs, Stored
  <2>2. [agents[a] EXCEPT !.used = at[r]] \in Row
    BY <2>1 DEF Row
  <2>3. /\ agents'[a].user = agents[a].user /\ agents'[a].revoked = agents[a].revoked
        /\ agents'[a] # None /\ \A b \in AgentIDs \ {a} : agents'[b] = agents[b]
    BY <1>1, <2>1, <2>2, AgentKeysAssumption DEF Row
  <2>4. Stored' = Stored
    BY <2>1, <2>3 DEF Stored
  <2>. QED
    BY <2>3, <2>4 DEF owner, Dead, Stored
<1>. QED
  BY <1>1, TableSame DEF TouchLastUsed

LEMMA AuthStepMaps ==
  ASSUME DInv, NEW r \in Requests, AuthStep(r)
  PROVE  Directory!Authenticate(r) \/ Directory!Admit(r) \/ UNCHANGED Directory!vars
<1>1. ASSUME AuthGetByKeyHash(r) PROVE Directory!Authenticate(r)
  <2>. DEFINE live == call[r].agent \in Stored /\ agents[call[r].agent].revoked = 0
  <2>1. /\ pc[r] = "auth_key" /\ call[r].op = "auth" /\ UNCHANGED <<agents, call>>
        /\ Goto(r, IF live THEN "auth_user" ELSE "unauthorized")
    BY <1>1 DEF AuthGetByKeyHash, DInv, TInv, StepArgs, AuthPCs
  <2>2. /\ live => Directory!Move(r, "auth", "pending", "admitted")
        /\ ~live => Directory!Move(r, "auth", "pending", "unauthorized")
    <3>1. PhaseOf(pc[r]) = "pending" /\ PhaseOf("auth_user") = "admitted"
          /\ PhaseOf("unauthorized") = "unauthorized"
      BY <2>1, Phases DEF Statements, Answers
    <3>2. CASE live
      BY <2>1, <3>1, <3>2, Moves
    <3>3. CASE ~live
      BY <2>1, <3>1, <3>3, Moves
    <3>. QED
      BY <3>2, <3>3
  <2>3. live <=> Directory!Exists(call[r].agent) /\ call[r].agent \notin Dead
    BY DirectoryIs DEF Dead
  <2>. HIDE DEF live
  <2>. QED
    BY <2>1, <2>2, <2>3, TableSame DEF Directory!Authenticate, owner, Dead
<1>2. ASSUME pc[r] \in {"auth_user", "auth_touch"}, Goto(r, "ok"), UNCHANGED call,
             owner' = owner, Dead' = Dead
      PROVE  Directory!Admit(r)
  <2>1. Directory!Move(r, "auth", "admitted", "ok")
    BY <1>2, Moves, Phases DEF DInv, TInv, StepArgs, AuthPCs, Answers
  <2>. QED
    BY <1>2, <2>1 DEF Directory!Admit, owner, Dead
<1>3. ASSUME AuthGetUser(r) PROVE Directory!Admit(r) \/ UNCHANGED Directory!vars
  BY <1>2, <1>3, GoesOn, Phases, TableSame DEF AuthGetUser
<1>4. ASSUME TouchLastUsed(r) PROVE Directory!Admit(r)
  BY <1>2, <1>4, TouchChangesNothingSeen DEF TouchLastUsed
<1>. QED
  BY <1>1, <1>3, <1>4 DEF AuthStep

LEMMA OtherStepsMap ==
  ASSUME DInv
  PROVE  /\ \A r \in Requests : StatementFails(r) => Directory!Fail(r)
         /\ \A r \in Requests : Return(r) => Directory!Return(r)
         /\ Crash => Directory!Crash
         /\ Tick \/ UNCHANGED vars => UNCHANGED Directory!vars
<1>1. ASSUME NEW r \in Requests, StatementFails(r) PROVE Directory!Fail(r)
  BY <1>1, FailMaps DEF StatementFails
<1>2. ASSUME NEW r \in Requests, Return(r) PROVE Directory!Return(r)
  <2>1. /\ pc[r] \in Answers /\ Goto(r, "idle") /\ UNCHANGED agents
        /\ call' = [call EXCEPT ![r] = Directory!NoCall]
    BY <1>2 DEF Return, NoCall, Directory!NoCall
  <2>2. phase[r] \in Directory!Answers /\ phase' = [phase EXCEPT ![r] = "idle"]
    BY <2>1, PhaseMoves, Phases DEF Directory!Answers, Answers
  <2>. QED
    BY <2>1, <2>2, TableSame DEF Directory!Return, owner, Dead, phase, PhaseOf
<1>3. ASSUME Crash PROVE Directory!Crash
  <2>1. /\ phase' = [r \in Requests |-> "idle"] /\ UNCHANGED agents
        /\ call' = [r \in Requests |-> Directory!NoCall]
    BY <1>3, Phases DEF Crash, phase, NoCall, Directory!NoCall
  <2>. QED
    BY <2>1, TableSame DEF Directory!Crash, owner, Dead, phase, PhaseOf
<1>4. ASSUME Tick \/ UNCHANGED vars PROVE UNCHANGED Directory!vars
  <2>1. UNCHANGED <<agents, pc, call>>
    BY <1>4 DEF Tick, vars
  <2>. QED
    BY <2>1, TableSame DEF Directory!vars, owner, Dead, phase
<1>. QED
  BY <1>1, <1>2, <1>3, <1>4

\* CreateAgent, RevokeAgent and Authenticate, each of several statements that others
\* come between, are one directory of agents in which every request happens at one
\* instant: a creation is refused only while its user has MaxAgentsPerUser agents, and
\* a revocation that comes second answers as if it had come first.
THEOREM DirectoryImplemented == Spec => ImplementsDirectory
<1>1. Init => Directory!Init
  <2>1. ASSUME Init
        PROVE  /\ owner = [a \in AgentIDs |-> None] /\ Dead = {}
               /\ phase = [r \in Requests |-> "idle"]
               /\ call = [r \in Requests |-> Directory!NoCall]
    BY <2>1, Phases DEF Init, owner, Dead, Stored, phase, NoCall, Directory!NoCall
  <2>. QED
    BY <2>1 DEF Directory!Init, owner, Dead, phase, PhaseOf
<1>2. DInv /\ [Next]_vars => [Directory!Next]_(Directory!vars)
  <2>. SUFFICES ASSUME DInv, [Next]_vars PROVE Directory!Next \/ UNCHANGED Directory!vars
    OBVIOUS
  <2>. QED
    BY ArriveMaps, CreateStepMaps, RevokeStepMaps, AuthStepMaps, OtherStepsMap
    DEF Next, Step, Directory!Next
<1>. QED
  BY <1>1, <1>2, DInvariant, PTL DEF Spec, ImplementsDirectory, Directory!Spec
=============================================================================
