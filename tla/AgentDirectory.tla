--------------------------- MODULE AgentDirectory ---------------------------
(***************************************************************************)
(* What the agent operations promise: a directory of agents with owners in  *)
(* which each request takes effect at one instant between its arrival and   *)
(* its answer.  A request that fails has had its effect or none.            *)
(***************************************************************************)
EXTENDS Naturals, FiniteSets

CONSTANTS Requests, Users, AgentIDs, MaxAgentsPerUser, None

VARIABLES owner,    \* whose agent it is, None when there is none
          revoked,  \* agents whose key is dead
          phase,    \* idle, pending, admitted or the answer
          call      \* the operation of a request, and its arguments

vars == <<owner, revoked, phase, call>>

NoCall == [op |-> "none", user |-> None, agent |-> None]
Answers == {"ok", "invalid", "unauthorized", "forbidden", "not_found", "internal"}

Active(u) == {a \in AgentIDs \ revoked : owner[a] = u}

Exists(a) == a \in AgentIDs /\ owner[a] # None

Init == /\ owner = [a \in AgentIDs |-> None]
        /\ revoked = {}
        /\ phase = [r \in Requests |-> "idle"]
        /\ call = [r \in Requests |-> NoCall]

Move(r, op, from, to) == /\ call[r].op = op /\ phase[r] = from
                         /\ phase' = [phase EXCEPT ![r] = to]
                         /\ UNCHANGED call

Invoke(r) ==
  /\ phase[r] = "idle"
  /\ \E op \in {"create", "revoke", "auth"}, u \in Users \cup {None},
        a \in AgentIDs \cup {None} :
       call' = [call EXCEPT ![r] = [op |-> op, user |-> u, agent |-> a]]
  /\ \/ phase' = [phase EXCEPT ![r] = "pending"]
     \/ call'[r].op = "create" /\ phase' = [phase EXCEPT ![r] = "invalid"]
  /\ UNCHANGED <<owner, revoked>>

Create(r) ==
  /\ Move(r, "create", "pending", "ok") \/ Move(r, "create", "pending", "internal")
  /\ ~Exists(call[r].agent)
  /\ Cardinality(Active(call[r].user)) < MaxAgentsPerUser
  /\ owner' = [owner EXCEPT ![call[r].agent] = call[r].user]
  /\ UNCHANGED revoked

RefuseCreate(r) ==
  /\ Move(r, "create", "pending", "forbidden")
  /\ Cardinality(Active(call[r].user)) = MaxAgentsPerUser
  /\ UNCHANGED <<owner, revoked>>

Revoke(r) ==
  /\ Move(r, "revoke", "pending", "ok") \/ Move(r, "revoke", "pending", "internal")
  /\ Exists(call[r].agent) /\ owner[call[r].agent] = call[r].user
  /\ revoked' = revoked \cup {call[r].agent}
  /\ UNCHANGED owner

RefuseRevoke(r) ==
  /\ \/ Move(r, "revoke", "pending", "not_found") /\ ~Exists(call[r].agent)
     \/ /\ Move(r, "revoke", "pending", "forbidden")
        /\ Exists(call[r].agent) /\ owner[call[r].agent] # call[r].user
  /\ UNCHANGED <<owner, revoked>>

Authenticate(r) ==
  /\ IF Exists(call[r].agent) /\ call[r].agent \notin revoked
     THEN Move(r, "auth", "pending", "admitted")
     ELSE Move(r, "auth", "pending", "unauthorized")
  /\ UNCHANGED <<owner, revoked>>

Admit(r) == /\ Move(r, "auth", "admitted", "ok")
            /\ UNCHANGED <<owner, revoked>>

Fail(r) == /\ \E op \in {"create", "revoke", "auth"}, from \in {"pending", "admitted"} :
                Move(r, op, from, "internal")
           /\ UNCHANGED <<owner, revoked>>

Return(r) == /\ phase[r] \in Answers
             /\ phase' = [phase EXCEPT ![r] = "idle"]
             /\ call' = [call EXCEPT ![r] = NoCall]
             /\ UNCHANGED <<owner, revoked>>

Crash == /\ phase' = [r \in Requests |-> "idle"]
         /\ call' = [r \in Requests |-> NoCall]
         /\ UNCHANGED <<owner, revoked>>

Next == \/ \E r \in Requests :
             \/ Invoke(r) \/ Create(r) \/ RefuseCreate(r) \/ Revoke(r)
             \/ RefuseRevoke(r) \/ Authenticate(r) \/ Admit(r) \/ Fail(r) \/ Return(r)
        \/ Crash

Spec == Init /\ [][Next]_vars
=============================================================================
