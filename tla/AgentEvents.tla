----------------------------- MODULE AgentEvents ----------------------------
(***************************************************************************)
(* The routes under /api/v1/events from end to end: RequireAgent            *)
(* (server/internal/transport/http/middleware/auth.go) in front of the      *)
(* event handlers, which call the event service, which asks the rate        *)
(* limiter, while the router's timeout runs (controller.go) and users       *)
(* revoke their agents.                                                     *)
(*                                                                         *)
(* EventService is used as it stands, on this module's variables.  The      *)
(* limiter is FixedWindowQuota, which RateLimiter implements; the directory *)
(* of agents is read and changed in one step, as AgentKeys implements       *)
(* AgentDirectory.  Creations and deletions are modelled: GET changes       *)
(* nothing, and PUT passes the same door and the same clock as DELETE.      *)
(***************************************************************************)
EXTENDS Naturals, FiniteSets

CONSTANTS Requests, Users, EventIDs, Contents, Blank, MaxClock, None,
          AgentIDs,        \* agents whose keys are in use
          owner,           \* [AgentIDs -> Users]: the user of an agent, for good
          limits,          \* the limit of "event.create"
          Capacity,        \* windows the limiter can remember
          requestTimeout   \* of the router's timeout middleware

create == "event.create"

VARIABLES events, clock, pc, call, event, removed,  \* of EventService
          spent,      \* of FixedWindowQuota
          door,       \* where a request is with RequireAgent
          key,        \* the agent whose key a request presents, or None
          since,      \* when the request came
          revokedAt,  \* when an agent was revoked; 0 if it was not
          late,       \* history: the agent was revoked when the request came
          ticket,     \* history: the window in which a creation was counted
          counted     \* history: who made an event, and the window it was counted in

service == <<events, clock, pc, call, event, removed>>
request == <<door, key, since, late>>
count == <<spent, ticket, counted>>
vars == <<service, revokedAt, request, count>>

Service == INSTANCE EventService WITH Faults <- TRUE
Quota == INSTANCE FixedWindowQuota WITH Keys <- Users \cup AgentIDs, reply <- <<>>

ASSUME AgentEventsAssumption ==
  /\ owner \in [AgentIDs -> Users]
  /\ IsFiniteSet(Requests) /\ IsFiniteSet(EventIDs)
  /\ DOMAIN limits = {create}
  /\ limits[create].Max \in Nat \ {0} /\ limits[create].Window \in Nat \ {0}
  /\ Capacity \in Nat \ {0}
  /\ requestTimeout \in Nat \ {0}
  /\ requestTimeout <= limits[create].Window
  /\ MaxClock \in Nat \ {0}
  /\ Blank \notin Contents
  /\ None \notin Requests \cup Users \cup EventIDs \cup Contents \cup AgentIDs
                 \cup Service!Row \cup [user: Users, content: Contents]
                 \cup Quota!Slots \cup [user: Users, slot: Quota!Slots]

TypeOK == /\ Service!TypeOK
          /\ spent \in [Quota!Slots -> 0..limits[create].Max]
          /\ door \in [Requests -> {"out", "auth", "in"}]
          /\ key \in [Requests -> AgentIDs \cup {None}]
          /\ since \in [Requests -> 0..MaxClock]
          /\ revokedAt \in [AgentIDs -> 0..MaxClock]
          /\ late \in [Requests -> BOOLEAN]
          /\ ticket \in [Requests -> Quota!Slots \cup {None}]
          /\ counted \in [EventIDs -> [user: Users, slot: Quota!Slots] \cup {None}]
          /\ \A r \in Requests : door[r] # "in" => pc[r] = "idle"
          /\ \A r \in Requests : door[r] # "out" => key[r] \in AgentIDs

Init == /\ Service!Init
        /\ spent = [s \in Quota!Slots |-> 0]
        /\ door = [r \in Requests |-> "out"]
        /\ key = [r \in Requests |-> None]
        /\ since = [r \in Requests |-> 0]
        /\ revokedAt = [a \in AgentIDs |-> 0]
        /\ late = [r \in Requests |-> FALSE]
        /\ ticket = [r \in Requests |-> None]
        /\ counted = [e \in EventIDs |-> None]
-----------------------------------------------------------------------------
\* A request with an agent's key.  One with another key is refused at the door.
Arrive(r) ==
  /\ door[r] = "out"
  /\ \E a \in AgentIDs :
       /\ key' = [key EXCEPT ![r] = a]
       /\ late' = [late EXCEPT ![r] = revokedAt[a] # 0]
  /\ since' = [since EXCEPT ![r] = clock]
  /\ door' = [door EXCEPT ![r] = "auth"]
  /\ UNCHANGED <<service, revokedAt, count>>

\* What a statement needs: the request's context has not ended.
InTime(r) == clock <= since[r] + requestTimeout

LeaveDoor(r) == /\ door' = [door EXCEPT ![r] = "out"]
                /\ key' = [key EXCEPT ![r] = None]
                /\ since' = [since EXCEPT ![r] = 0]
                /\ late' = [late EXCEPT ![r] = FALSE]
                /\ ticket' = [ticket EXCEPT ![r] = None]

\* Mutant of Authenticate: the key of a revoked agent is still good.
AuthenticateRevoked(r) ==
  /\ door[r] = "auth"
  /\ \/ /\ InTime(r)
        /\ door' = [door EXCEPT ![r] = "in"]
        /\ UNCHANGED <<key, since, late, ticket>>
     \/ LeaveDoor(r)
  /\ UNCHANGED <<service, revokedAt, spent, counted>>

\* AuthenticateAgent, at the instant at which it reads the agent.  When the agent
\* is revoked, or a statement fails, the request is answered here.
Authenticate(r) ==
  /\ door[r] = "auth"
  /\ \/ /\ revokedAt[key[r]] = 0 /\ InTime(r)
        /\ door' = [door EXCEPT ![r] = "in"]
        /\ UNCHANGED <<key, since, late, ticket>>
     \/ LeaveDoor(r)
  /\ UNCHANGED <<service, revokedAt, spent, counted>>

\* The identity that the middleware leaves in the context makes the actor.
ActorOf(r) == owner[key[r]]

\* A request that was let in creates an event or deletes one.
Handle(r) ==
  /\ door[r] = "in" /\ pc[r] = "idle"
  /\ Service!CreateArrives(r) \/ Service!DeleteArrives(r)
  /\ call'[r].user = ActorOf(r)
  /\ UNCHANGED <<revokedAt, request, count>>
-----------------------------------------------------------------------------
\* Mutant of Subject: the quota is the agent's.
SubjectIsAgent(r) == key[r]

\* "user:"+actor.UserID
Subject(r) == call[r].user

\* What was counted in a window that the limiter forgets is counted no more;
\* new is what the call adds to the window it was granted in.
Forget(r, s, new) ==
  LET Lost == {t \in Quota!Slots : spent'[t] < spent[t] + (IF t = s THEN new ELSE 0)}
  IN  /\ ticket' = [q \in Requests |-> IF q = r /\ new = 1 THEN s
                                       ELSE IF ticket[q] \in Lost THEN None ELSE ticket[q]]
      /\ counted' = [e \in EventIDs |->
                        IF counted[e] # None /\ counted[e].slot \in Lost
                        THEN None ELSE counted[e]]

Allow(r) ==
  LET s == Quota!Slot(create, Subject(r))
  IN  /\ Service!Allow(r)
      /\ \/ pc'[r] = "stamp" /\ Quota!Spend(s) /\ Forget(r, s, 1)
         \/ pc'[r] = "too_many" /\ Quota!Overdraw(s) /\ Forget(r, s, 0)
      /\ UNCHANGED <<revokedAt, request>>

Stamp(r) == Service!Stamp(r) /\ UNCHANGED <<revokedAt, request, count>>

\* Mutant of Save: the statement runs without the request's context.
SaveAnyTime(r) ==
  /\ Service!Save(r)
  /\ counted' = [counted EXCEPT ![call[r].id] =
                   IF ticket[r] = None THEN None ELSE [user |-> call[r].user, slot |-> ticket[r]]]
  /\ UNCHANGED <<revokedAt, request, spent, ticket>>

Save(r) ==
  /\ Service!Save(r) /\ InTime(r)
  /\ counted' = [counted EXCEPT ![call[r].id] =
                   IF ticket[r] = None THEN None ELSE [user |-> call[r].user, slot |-> ticket[r]]]
  /\ UNCHANGED <<revokedAt, request, spent, ticket>>

\* The two statements of a deletion.
Delete(r) ==
  /\ Service!DeleteGet(r) \/ Service!Delete(r)
  /\ InTime(r)
  /\ UNCHANGED <<revokedAt, request, count>>

\* The database is away, the client has left, or its time is up.
StatementFails(r) == Service!StatementFails(r) /\ UNCHANGED <<revokedAt, request, count>>

Return(r) == /\ Service!Return(r)
             /\ LeaveDoor(r)
             /\ UNCHANGED <<revokedAt, spent, counted>>
-----------------------------------------------------------------------------
\* DELETE /agents/:id by the agent's user, at the instant it stamps the row.
Revoke == \E a \in AgentIDs :
            /\ revokedAt[a] = 0
            /\ revokedAt' = [revokedAt EXCEPT ![a] = clock]
            /\ UNCHANGED <<service, request, count>>

\* The process dies and restarts with an empty limiter.
Restart ==
  /\ \/ Service!Crash
     \/ (\A r \in Requests : pc[r] = "idle") /\ UNCHANGED service
  /\ Quota!Restart
  /\ door' = [r \in Requests |-> "out"]
  /\ key' = [r \in Requests |-> None]
  /\ since' = [r \in Requests |-> 0]
  /\ late' = [r \in Requests |-> FALSE]
  /\ ticket' = [r \in Requests |-> None]
  /\ counted' = [e \in EventIDs |-> None]
  /\ UNCHANGED revokedAt

Tick == Service!Tick /\ Quota!Tick /\ UNCHANGED <<revokedAt, request, ticket, counted>>

RequestStep(r) == \/ Arrive(r) \/ Authenticate(r) \/ Handle(r) \/ Allow(r) \/ Stamp(r)
                  \/ Save(r) \/ Delete(r) \/ StatementFails(r) \/ Return(r)

Next == (\E r \in Requests : RequestStep(r)) \/ Revoke \/ Restart \/ Tick

Spec == Init /\ [][Next]_vars
-----------------------------------------------------------------------------
\* Per-user event-creation limits (README.md): whatever is rejected, fails, loses
\* its answer or is tried again, and with whichever of a user's agents, of the
\* events a user has ever made no more than Max were counted in one window that
\* the limiter has not forgotten.
EventsWithinQuota ==
  \A u \in Users, s \in Quota!Slots :
    Cardinality({e \in EventIDs : /\ counted[e] # None /\ counted[e].user = u
                                  /\ counted[e].slot.windowStart = s.windowStart})
      <= limits[create].Max

\* An event is dated after it is counted, by another reading of the clock: in the
\* window it was counted in or, around midnight, in the next one, and never
\* later, since a request that old cannot save any more.
DatedNearCounting ==
  \A e \in Service!Stored : counted[e] # None =>
    LET start == counted[e].slot.windowStart
    IN  /\ start <= events[e].created
        /\ events[e].created < start + 2 * limits[create].Window

Wrote(r) == pc[r] \in {"save", "delete"} /\ pc'[r] # pc[r] /\ events' # events

\* Every change of an event is made by a request with a key of the event's user,
\* and not by one that came when the key's agent was already revoked.
WritesAreAuthorized ==
  [][events' # events =>
       \E r \in Requests :
         /\ Wrote(r) /\ ~late[r]
         /\ \A e \in EventIDs : events'[e] # events[e] =>
              owner[key[r]] = (IF events[e] = None THEN events'[e] ELSE events[e]).user]_vars

\* A request that was let in goes on after its agent is revoked, but for no
\* longer than the router lets a request run.
RevocationTakesHold ==
  [][\A r \in Requests : Wrote(r) /\ revokedAt[key[r]] # 0 =>
       clock <= revokedAt[key[r]] + requestTimeout]_vars
=============================================================================
