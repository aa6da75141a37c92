------------------------------ MODULE AgentKeys -----------------------------
(***************************************************************************)
(* Agent API keys: create under a per-user limit, revoke, authenticate      *)
(* (server/internal/core/usecase/auth.go over                               *)
(* server/internal/adapters/postgres/agent_repository.go).                  *)
(*                                                                         *)
(* Requests run concurrently; each SQL statement is one step, and a         *)
(* transaction's insert is seen by others only once it commits.  Isolation  *)
(* is READ COMMITTED, the default the pool leaves in place: a statement     *)
(* sees what is committed when it starts.  A key stands for its agent: the  *)
(* repository finds agents by the hash of 32 random bytes.  Users are       *)
(* never deleted, so the lookups of a stored agent's user succeed.          *)
(***************************************************************************)
EXTENDS Naturals, FiniteSets

CONSTANTS Requests,            \* handlers that may run at once
          Users,
          AgentIDs,            \* agent ids newID may return
          MaxAgentsPerUser,    \* config.MaxAgentsPerUser
          agentTouchInterval,  \* least time between two writes of last_used_at
          poolMaxConns,        \* pgxpool MaxConns
          MaxClock,            \* model bound: the clock stops there
          None                 \* no value: a missing row, a free lock

Row == [user: Users, revoked: 0..MaxClock, used: 0..MaxClock] \* 0 is NULL

\* config.go refuses a limit below one.
ASSUME AgentKeysAssumption ==
  /\ IsFiniteSet(AgentIDs)
  /\ MaxAgentsPerUser \in Nat \ {0}
  /\ agentTouchInterval \in Nat
  /\ poolMaxConns \in Nat \ {0}
  /\ MaxClock \in Nat \ {0}
  /\ None \notin Requests \cup Users \cup AgentIDs \cup Row

VARIABLES agents,       \* committed rows of table agents
          rowLock,      \* who holds the FOR UPDATE lock of a users row
          clock,        \* time.Now(); 0 is kept for NULL and the zero time
          pc,           \* where a handler is, or the answer it has given
          call,         \* the operation it runs and its arguments
          row,          \* the domain.Agent an authentication read
          at,           \* the time stamp a handler took
          issued,       \* keys some client was shown
          revokeAcked,  \* history: agents whose revocation was answered with success
          late          \* history: the key was in revokeAcked when its request came

vars == <<agents, rowLock, clock, pc, call, row, at, issued, revokeAcked, late>>

NoCall == [op |-> "none", user |-> None, agent |-> None]
Calls == [op: {"none", "create", "revoke", "auth"},
          user: Users \cup {None}, agent: AgentIDs \cup {None}]

LockHeld == {"count", "insert", "commit"}
InTx == {"lock"} \cup LockHeld
Statements == {"begin", "revoke_get", "revoke_update", "revoke_check",
               "auth_key", "auth_user"} \cup InTx
Steps == Statements \cup {"auth_touch"}
Answers == {"ok", "invalid", "unauthorized", "forbidden", "not_found", "internal"}

TypeOK == /\ agents \in [AgentIDs -> Row \cup {None}]
          /\ rowLock \in [Users -> Requests \cup {None}]
          /\ clock \in 1..MaxClock
          /\ pc \in [Requests -> {"idle"} \cup Steps \cup Answers]
          /\ call \in [Requests -> Calls]
          /\ row \in [Requests -> Row \cup {None}]
          /\ \A r \in Requests :
                pc[r] \in {"auth_user", "auth_touch"} => row[r] \in Row
          /\ at \in [Requests -> 0..MaxClock]
          /\ issued \subseteq AgentIDs
          /\ revokeAcked \subseteq AgentIDs
          /\ late \in [Requests -> BOOLEAN]

Init == /\ agents = [a \in AgentIDs |-> None]
        /\ rowLock = [u \in Users |-> None]
        /\ clock = 1
        /\ pc = [r \in Requests |-> "idle"]
        /\ call = [r \in Requests |-> NoCall]
        /\ row = [r \in Requests |-> None]
        /\ at = [r \in Requests |-> 0]
        /\ issued = {}
        /\ revokeAcked = {}
        /\ late = [r \in Requests |-> FALSE]
-----------------------------------------------------------------------------
Stored == {a \in AgentIDs : agents[a] # None}

\* WHERE user_id = $1 AND revoked_at IS NULL
ActiveAgents(u) == {a \in Stored : agents[a].user = u /\ agents[a].revoked = 0}

\* A statement outside a transaction borrows a connection while it runs.
ConnFree == Cardinality({r \in Requests : pc[r] \in InTx}) < poolMaxConns

Goto(r, step) == pc' = [pc EXCEPT ![r] = step]

\* The end of r's transaction frees the row it locked.
Unlock(r) == rowLock' = [u \in Users |-> IF rowLock[u] = r THEN None ELSE rowLock[u]]

history == <<issued, revokeAcked, late>>
-----------------------------------------------------------------------------
\* newID returns an id nobody has.
FreshIDs == {a \in AgentIDs \ Stored :
               \A q \in Requests : call[q].op = "create" => call[q].agent # a}

\* POST /agents: CreateAgent builds the agent and validates its name.
CreateArrives(r) ==
  /\ pc[r] = "idle"
  /\ \E u \in Users, a \in FreshIDs :
       call' = [call EXCEPT ![r] = [op |-> "create", user |-> u, agent |-> a]]
  /\ Goto(r, "begin") \/ Goto(r, "invalid")
  /\ UNCHANGED <<agents, rowLock, clock, row, at, history>>

\* DELETE /agents/:id, of an agent somebody has or of none.
RevokeArrives(r) ==
  /\ pc[r] = "idle"
  /\ \E u \in Users, a \in Stored \cup {None} :
       call' = [call EXCEPT ![r] = [op |-> "revoke", user |-> u, agent |-> a]]
  /\ Goto(r, "revoke_get")
  /\ UNCHANGED <<agents, rowLock, clock, row, at, history>>

\* A request with a key that was once shown, or with an unknown key.
AuthArrives(r) ==
  /\ pc[r] = "idle"
  /\ \E a \in issued \cup {None} :
       /\ call' = [call EXCEPT ![r] = [op |-> "auth", user |-> None, agent |-> a]]
       /\ late' = [late EXCEPT ![r] = a \in revokeAcked]
  /\ Goto(r, "auth_key")
  /\ UNCHANGED <<agents, rowLock, clock, row, at, issued, revokeAcked>>

Begin(r) == /\ pc[r] = "begin" /\ ConnFree
            /\ Goto(r, "lock")
            /\ UNCHANGED <<agents, rowLock, clock, call, row, at, history>>

\* Mutant of LockUserForUpdate: the SELECT without FOR UPDATE waits for nobody.
SelectWithoutLock(r) ==
  /\ pc[r] = "lock"
  /\ Goto(r, "count")
  /\ UNCHANGED <<agents, rowLock, clock, call, row, at, history>>

\* Waits until no other transaction has the user's row locked.
LockUserForUpdate(r) ==
  /\ pc[r] = "lock"
  /\ rowLock[call[r].user] = None
  /\ rowLock' = [rowLock EXCEPT ![call[r].user] = r]
  /\ Goto(r, "count")
  /\ UNCHANGED <<agents, clock, call, row, at, history>>

\* Mutants of CountActiveAgents: the early return forgets the deferred rollback;
\* the query runs on the pool and not on the transaction's connection.
RefuseWithoutRollback(r) ==
  /\ pc[r] = "count"
  /\ IF Cardinality(ActiveAgents(call[r].user)) >= MaxAgentsPerUser
     THEN Goto(r, "forbidden") ELSE Goto(r, "insert")
  /\ UNCHANGED <<agents, rowLock, clock, call, row, at, history>>
CountOnPool(r) ==
  /\ pc[r] = "count" /\ ConnFree
  /\ IF Cardinality(ActiveAgents(call[r].user)) >= MaxAgentsPerUser
     THEN Goto(r, "forbidden") /\ Unlock(r)
     ELSE Goto(r, "insert") /\ UNCHANGED rowLock
  /\ UNCHANGED <<agents, clock, call, row, at, history>>

\* At the limit the early return rolls back, and CreateAgent answers forbidden.
CountActiveAgents(r) ==
  /\ pc[r] = "count"
  /\ IF Cardinality(ActiveAgents(call[r].user)) >= MaxAgentsPerUser
     THEN Goto(r, "forbidden") /\ Unlock(r)
     ELSE Goto(r, "insert") /\ UNCHANGED rowLock
  /\ UNCHANGED <<agents, clock, call, row, at, history>>

\* Mutant of InsertAgent: the success path returns before the commit.
InsertWithoutCommit(r) ==
  /\ pc[r] = "insert"
  /\ Goto(r, "ok") /\ Unlock(r)
  /\ UNCHANGED <<agents, clock, call, row, at, history>>

\* Nobody else sees the row before the commit.
InsertAgent(r) == /\ pc[r] = "insert"
                  /\ Goto(r, "commit")
                  /\ UNCHANGED <<agents, rowLock, clock, call, row, at, history>>

\* The commit takes effect; its answer may be lost, and the caller sees an error.
Commit(r) ==
  /\ pc[r] = "commit"
  /\ agents' = [agents EXCEPT ![call[r].agent] =
                  [user |-> call[r].user, revoked |-> 0, used |-> 0]]
  /\ Goto(r, "ok") \/ Goto(r, "internal")
  /\ Unlock(r)
  /\ UNCHANGED <<clock, call, row, at, history>>
-----------------------------------------------------------------------------
\* Mutant of RevokeGet: it does not compare the owner with the caller.
RevokeGetAnyOwner(r) ==
  LET a == call[r].agent
  IN  /\ pc[r] = "revoke_get" /\ ConnFree
      /\ at' = [at EXCEPT ![r] = clock]
      /\ \/ a \notin Stored /\ Goto(r, "not_found")
         \/ a \in Stored /\ agents[a].revoked # 0 /\ Goto(r, "ok")
         \/ a \in Stored /\ agents[a].revoked = 0 /\ Goto(r, "revoke_update")
      /\ UNCHANGED <<agents, rowLock, clock, call, row, history>>

\* The agent is read and checked; what follows does not look at it again.
RevokeGet(r) ==
  LET a == call[r].agent
      Mine == agents[a].user = call[r].user
  IN  /\ pc[r] = "revoke_get" /\ ConnFree
      /\ at' = [at EXCEPT ![r] = clock]
      /\ \/ a \notin Stored /\ Goto(r, "not_found")
         \/ a \in Stored /\ ~Mine /\ Goto(r, "forbidden")
         \/ a \in Stored /\ Mine /\ agents[a].revoked # 0 /\ Goto(r, "ok")
         \/ a \in Stored /\ Mine /\ agents[a].revoked = 0 /\ Goto(r, "revoke_update")
      /\ UNCHANGED <<agents, rowLock, clock, call, row, history>>

\* Mutant of RevokeUpdate: the error of a statement that did nothing is dropped.
RevokeUpdateDropsError(r) ==
  LET a == call[r].agent
  IN  /\ pc[r] = "revoke_update" /\ ConnFree
      /\ \/ /\ agents[a].revoked = 0
            /\ agents' = [agents EXCEPT ![a].revoked = at[r]]
         \/ UNCHANGED agents
      /\ Goto(r, "ok")
      /\ UNCHANGED <<rowLock, clock, call, row, at, history>>

\* UPDATE ... WHERE id = $1 AND revoked_at IS NULL: no row is left to stamp when
\* another request came first.  The effect may stay while its answer is lost.
RevokeUpdate(r) ==
  LET a == call[r].agent
  IN  /\ pc[r] = "revoke_update" /\ ConnFree
      /\ \/ /\ agents[a].revoked = 0
            /\ agents' = [agents EXCEPT ![a].revoked = at[r]]
            /\ Goto(r, "ok") \/ Goto(r, "internal")
         \/ /\ agents[a].revoked # 0
            /\ Goto(r, "revoke_check")
            /\ UNCHANGED agents
      /\ UNCHANGED <<rowLock, clock, call, row, at, history>>

\* No row was affected: the repository tells a missing agent (an error, and so
\* an internal one) from a revoked one (success).
RevokeCheck(r) ==
  /\ pc[r] = "revoke_check" /\ ConnFree
  /\ IF call[r].agent \in Stored THEN Goto(r, "ok") ELSE Goto(r, "internal")
  /\ UNCHANGED <<agents, rowLock, clock, call, row, at, history>>
-----------------------------------------------------------------------------
\* Mutant of AuthGetByKeyHash: an unknown key is not told from a known one.
AuthWithoutNotFound(r) ==
  LET a == call[r].agent
  IN  /\ pc[r] = "auth_key" /\ ConnFree
      /\ row' = [row EXCEPT ![r] = IF a \in Stored THEN agents[a] ELSE None]
      /\ Goto(r, "auth_user")
      /\ UNCHANGED <<agents, rowLock, clock, call, at, history>>

AuthGetByKeyHash(r) ==
  LET a == call[r].agent
  IN  /\ pc[r] = "auth_key" /\ ConnFree
      /\ IF a \in Stored /\ agents[a].revoked = 0
         THEN /\ row' = [row EXCEPT ![r] = agents[a]]
              /\ Goto(r, "auth_user")
         ELSE Goto(r, "unauthorized") /\ UNCHANGED row
      /\ UNCHANGED <<agents, rowLock, clock, call, at, history>>

\* The user is read, and last_used_at is due when it is unset or old in the row
\* that was read before.
AuthGetUser(r) ==
  /\ pc[r] = "auth_user" /\ ConnFree
  /\ at' = [at EXCEPT ![r] = clock]
  /\ IF row[r].used = 0 \/ row[r].used + agentTouchInterval <= clock
     THEN Goto(r, "auth_touch") ELSE Goto(r, "ok")
  /\ UNCHANGED <<agents, rowLock, clock, call, row, history>>

\* Mutant of TouchLastUsed: the whole row that was read is written back.
TouchWholeRow(r) ==
  /\ pc[r] = "auth_touch" /\ ConnFree
  /\ agents' = [agents EXCEPT ![call[r].agent] = [row[r] EXCEPT !.used = at[r]]]
  /\ Goto(r, "ok")
  /\ UNCHANGED <<rowLock, clock, call, row, at, history>>

\* Its failure, with or without effect, is logged and ignored.
TouchLastUsed(r) ==
  /\ pc[r] = "auth_touch"
  /\ \/ ConnFree /\ agents' = [agents EXCEPT ![call[r].agent].used = at[r]]
     \/ UNCHANGED agents
  /\ Goto(r, "ok")
  /\ UNCHANGED <<rowLock, clock, call, row, at, history>>
-----------------------------------------------------------------------------
\* A statement fails without effect: the database is away, or the request's
\* context has ended (its client left, or it ran for 30 s).
StatementFails(r) ==
  /\ pc[r] \in Statements
  /\ Goto(r, "internal") /\ Unlock(r)
  /\ UNCHANGED <<agents, clock, call, row, at, history>>

\* The answer reaches the client, who then has the key or knows it is dead.
Return(r) ==
  /\ pc[r] \in Answers
  /\ issued' = IF pc[r] = "ok" /\ call[r].op = "create"
               THEN issued \cup {call[r].agent} ELSE issued
  /\ revokeAcked' = IF pc[r] = "ok" /\ call[r].op = "revoke"
                    THEN revokeAcked \cup {call[r].agent} ELSE revokeAcked
  /\ Goto(r, "idle")
  /\ call' = [call EXCEPT ![r] = NoCall]
  /\ row' = [row EXCEPT ![r] = None]
  /\ at' = [at EXCEPT ![r] = 0]
  /\ late' = [late EXCEPT ![r] = FALSE]
  /\ UNCHANGED <<agents, rowLock, clock>>

\* The process dies: every handler is gone, its transaction rolled back.
Crash ==
  /\ \E r \in Requests : pc[r] # "idle"
  /\ pc' = [r \in Requests |-> "idle"]
  /\ call' = [r \in Requests |-> NoCall]
  /\ row' = [r \in Requests |-> None]
  /\ at' = [r \in Requests |-> 0]
  /\ late' = [r \in Requests |-> FALSE]
  /\ rowLock' = [u \in Users |-> None]
  /\ UNCHANGED <<agents, clock, issued, revokeAcked>>

Tick == /\ clock < MaxClock
        /\ clock' = clock + 1
        /\ UNCHANGED <<agents, rowLock, pc, call, row, at, history>>

Arrive(r) == CreateArrives(r) \/ RevokeArrives(r) \/ AuthArrives(r)
CreateStep(r) == \/ Begin(r) \/ LockUserForUpdate(r) \/ CountActiveAgents(r)
                 \/ InsertAgent(r) \/ Commit(r)
RevokeStep(r) == RevokeGet(r) \/ RevokeUpdate(r) \/ RevokeCheck(r)
AuthStep(r) == AuthGetByKeyHash(r) \/ AuthGetUser(r) \/ TouchLastUsed(r)
Step(r) == CreateStep(r) \/ RevokeStep(r) \/ AuthStep(r)

Next == \/ \E r \in Requests : Arrive(r) \/ Step(r) \/ StatementFails(r) \/ Return(r)
        \/ Crash
        \/ Tick

Spec == Init /\ [][Next]_vars

\* A handler that can run does.  Strong fairness: the pool hands connections and
\* Postgres hands row locks to those who wait, in the order they came.  That a
\* statement fails, or a request times out, is never relied on.
FairSpec == Spec /\ \A r \in Requests : SF_vars(Step(r))
-----------------------------------------------------------------------------
\* MAX_AGENTS_PER_USER (.env.example): however many creations run at once, no
\* user has more active agents than the limit.
ActiveAgentsWithinLimit ==
  \A u \in Users : Cardinality(ActiveAgents(u)) <= MaxAgentsPerUser

\* A user's row is locked only while a transaction of a creation for that very
\* user runs: every early return, error and crash lets it go.
LockOnlyInTransaction ==
  \A u \in Users : rowLock[u] # None =>
    pc[rowLock[u]] \in LockHeld /\ call[rowLock[u]].user = u

\* A creation that answers with a key has stored the agent, for its caller.
KeyShownIsStored ==
  \A r \in Requests : pc[r] = "ok" /\ call[r].op = "create" =>
    call[r].agent \in Stored /\ agents[call[r].agent].user = call[r].user

\* Once a client was told that an agent is revoked, no later request with its
\* key is let in, whichever request it was that wrote the revocation.
RevokedKeyRefused ==
  \A r \in Requests : pc[r] = "ok" /\ call[r].op = "auth" => ~late[r]

\* A revocation is never undone nor its time rewritten, by a second revocation
\* or by an authentication that read the row before.
RevocationIsFinal ==
  [][\A a \in Stored : agents[a].revoked # 0 =>
       a \in Stored' /\ agents'[a].revoked = agents[a].revoked]_vars

\* Every request is answered (or lost in a crash) without help from a timeout:
\* creations never wait for each other in a circle over locks and connections.
EveryRequestAnswered ==
  \A r \in Requests : pc[r] \in Steps ~> pc[r] \notin Steps

\* The agents that requests see are one directory, changed by one atomic step
\* of each request between its arrival and its answer.
Directory == INSTANCE AgentDirectory WITH
  owner <- [a \in AgentIDs |-> IF a \in Stored THEN agents[a].user ELSE None],
  revoked <- {a \in Stored : agents[a].revoked # 0},
  phase <- [r \in Requests |->
              IF pc[r] \in {"auth_user", "auth_touch"} THEN "admitted"
              ELSE IF pc[r] \in Steps THEN "pending" ELSE pc[r]]

ImplementsDirectory == Directory!Spec
=============================================================================
