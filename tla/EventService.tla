---------------------------- MODULE EventService ----------------------------
(***************************************************************************)
(* Events: create, read, replace and delete, for many agents at once        *)
(* (server/internal/core/usecase/event.go over                              *)
(* server/internal/adapters/postgres/event_repository.go).                  *)
(*                                                                         *)
(* An update or a delete first reads the event and checks its owner, then   *)
(* writes in a second statement that looks at nothing but the id: another   *)
(* request may come between the two.  Each statement commits by itself.     *)
(* The rate limiter is an outside party that allows a creation or does not. *)
(* List, a single read, and the actor without a user, which RequireAgent    *)
(* never lets through, are left out.                                        *)
(***************************************************************************)
EXTENDS Naturals

CONSTANTS Requests,   \* handlers that may run at once
          Users,      \* actor.UserID of the calling agents
          EventIDs,   \* event ids newID may return
          Contents,   \* a name and a description; the name is not blank
          Blank,      \* a content whose name is blank
          MaxClock,   \* model bound: the clock stops there
          Faults,     \* whether statements may fail and the process may die
          None        \* no value: a missing row, an unknown id

Row == [user: Users, content: Contents, created: 1..MaxClock, updated: 1..MaxClock]

ASSUME EventServiceAssumption ==
  /\ MaxClock \in Nat \ {0}
  /\ Faults \in BOOLEAN
  /\ Blank \notin Contents
  /\ None \notin Requests \cup Users \cup EventIDs \cup Contents \cup Row
  /\ None \notin [user: Users, content: Contents]

VARIABLES events,   \* rows of table events
          clock,    \* time.Now()
          pc,       \* where a handler is, or the answer it has given
          call,     \* the operation it runs and its arguments
          event,    \* the domain.Event it has in hand
          removed   \* history: events that were deleted

vars == <<events, clock, pc, call, event, removed>>

NoCall == [op |-> "none", user |-> None, id |-> None, content |-> None]
Calls == [op: {"none", "create", "get", "update", "delete"}, user: Users \cup {None},
          id: EventIDs \cup {None}, content: Contents \cup {Blank, None}]

Statements == {"save", "get", "update_get", "update", "delete_get", "delete"}
Steps == Statements \cup {"allow", "stamp"}
Answers == {"ok", "invalid", "too_many", "forbidden", "not_found", "internal"}

TypeOK == /\ events \in [EventIDs -> Row \cup {None}]
          /\ clock \in 1..MaxClock
          /\ pc \in [Requests -> {"idle"} \cup Steps \cup Answers]
          /\ call \in [Requests -> Calls]
          /\ event \in [Requests -> Row \cup {None}]
          /\ \A r \in Requests : pc[r] \in {"save", "update"} => event[r] \in Row
          /\ removed \subseteq EventIDs

Init == /\ events = [e \in EventIDs |-> None]
        /\ clock = 1
        /\ pc = [r \in Requests |-> "idle"]
        /\ call = [r \in Requests |-> NoCall]
        /\ event = [r \in Requests |-> None]
        /\ removed = {}
-----------------------------------------------------------------------------
Stored == {e \in EventIDs : events[e] # None}

Goto(r, step) == pc' = [pc EXCEPT ![r] = step]

\* A write took effect; its answer reaches the service, or an error does.
Written(r) == Goto(r, "ok") \/ (Faults /\ Goto(r, "internal"))

\* newID returns an id nobody has had.
FreshIDs == {e \in EventIDs \ (Stored \cup removed) :
               \A q \in Requests : call[q].op = "create" => call[q].id # e}

CreateArrives(r) ==
  /\ pc[r] = "idle"
  /\ \E u \in Users, e \in FreshIDs, c \in Contents \cup {Blank} :
       call' = [call EXCEPT ![r] = [op |-> "create", user |-> u, id |-> e, content |-> c]]
  /\ Goto(r, "allow")
  /\ UNCHANGED <<events, clock, event, removed>>

GetArrives(r) ==
  /\ pc[r] = "idle"
  /\ \E e \in Stored \cup removed \cup {None} :
       call' = [call EXCEPT ![r] = [op |-> "get", user |-> None, id |-> e, content |-> None]]
  /\ Goto(r, "get")
  /\ UNCHANGED <<events, clock, event, removed>>

UpdateArrives(r) ==
  /\ pc[r] = "idle"
  /\ \E u \in Users, e \in Stored \cup removed \cup {None}, c \in Contents \cup {Blank} :
       call' = [call EXCEPT ![r] = [op |-> "update", user |-> u, id |-> e, content |-> c]]
  /\ Goto(r, "update_get")
  /\ UNCHANGED <<events, clock, event, removed>>

DeleteArrives(r) ==
  /\ pc[r] = "idle"
  /\ \E u \in Users, e \in Stored \cup removed \cup {None} :
       call' = [call EXCEPT ![r] = [op |-> "delete", user |-> u, id |-> e, content |-> None]]
  /\ Goto(r, "delete_get")
  /\ UNCHANGED <<events, clock, event, removed>>
-----------------------------------------------------------------------------
\* The limiter answers.
Allow(r) == /\ pc[r] = "allow"
            /\ Goto(r, "stamp") \/ Goto(r, "too_many")
            /\ UNCHANGED <<events, clock, call, event, removed>>

\* Mutant of Stamp: the name is not validated.
StampBlank(r) ==
  /\ pc[r] = "stamp"
  /\ event' = [event EXCEPT ![r] = [user |-> call[r].user, content |-> call[r].content,
                                     created |-> clock, updated |-> clock]]
  /\ Goto(r, "save")
  /\ UNCHANGED <<events, clock, call, removed>>

\* Mutant of Stamp: CreatedAt is left at its zero value.
StampUpdatedOnly(r) ==
  /\ pc[r] = "stamp"
  /\ IF call[r].content = Blank
     THEN Goto(r, "invalid") /\ UNCHANGED event
     ELSE /\ event' = [event EXCEPT ![r] =
                         [user |-> call[r].user, content |-> call[r].content,
                          created |-> 0, updated |-> clock]]
          /\ Goto(r, "save")
  /\ UNCHANGED <<events, clock, call, removed>>

\* Only now the event gets its time stamp, and its name is validated.
Stamp(r) ==
  /\ pc[r] = "stamp"
  /\ IF call[r].content = Blank
     THEN Goto(r, "invalid") /\ UNCHANGED event
     ELSE /\ event' = [event EXCEPT ![r] =
                         [user |-> call[r].user, content |-> call[r].content,
                          created |-> clock, updated |-> clock]]
          /\ Goto(r, "save")
  /\ UNCHANGED <<events, clock, call, removed>>

Save(r) == /\ pc[r] = "save"
           /\ events' = [events EXCEPT ![call[r].id] = event[r]]
           /\ Written(r)
           /\ UNCHANGED <<clock, call, event, removed>>

Get(r) ==
  /\ pc[r] = "get"
  /\ IF call[r].id \in Stored
     THEN event' = [event EXCEPT ![r] = events[call[r].id]] /\ Goto(r, "ok")
     ELSE Goto(r, "not_found") /\ UNCHANGED event
  /\ UNCHANGED <<events, clock, call, removed>>

\* The event is read, checked, changed in memory, stamped and validated.
UpdateGet(r) ==
  LET e == call[r].id
      c == call[r].content
      Mine == events[e].user = call[r].user
  IN  /\ pc[r] = "update_get"
      /\ \/ e \notin Stored /\ Goto(r, "not_found") /\ UNCHANGED event
         \/ e \in Stored /\ ~Mine /\ Goto(r, "forbidden") /\ UNCHANGED event
         \/ e \in Stored /\ Mine /\ c = Blank /\ Goto(r, "invalid") /\ UNCHANGED event
         \/ /\ e \in Stored /\ Mine /\ c # Blank
            /\ event' = [event EXCEPT ![r] =
                           [events[e] EXCEPT !.content = c, !.updated = clock]]
            /\ Goto(r, "update")
      /\ UNCHANGED <<events, clock, call, removed>>

\* Mutants of Update: a missing row is inserted; a missing row is not noticed.
UpdateUpserts(r) ==
  /\ pc[r] = "update"
  /\ events' = [events EXCEPT ![call[r].id] = event[r]]
  /\ Written(r)
  /\ UNCHANGED <<clock, call, event, removed>>
UpdateIgnoresAffected(r) ==
  /\ pc[r] = "update"
  /\ events' = IF call[r].id \in Stored
               THEN [events EXCEPT ![call[r].id] =
                       [@ EXCEPT !.content = event[r].content, !.updated = event[r].updated]]
               ELSE events
  /\ Written(r)
  /\ UNCHANGED <<clock, call, event, removed>>

\* UPDATE ... WHERE id = $1: with no row left the repository says not found,
\* and the service reports that as an internal error.
Update(r) ==
  /\ pc[r] = "update"
  /\ IF call[r].id \in Stored
     THEN /\ events' = [events EXCEPT ![call[r].id] =
                [@ EXCEPT !.content = event[r].content, !.updated = event[r].updated]]
          /\ Written(r)
     ELSE Goto(r, "internal") /\ UNCHANGED events
  /\ UNCHANGED <<clock, call, event, removed>>

\* Mutant of DeleteGet: it does not compare the owner with the caller.
DeleteGetAnyOwner(r) ==
  /\ pc[r] = "delete_get"
  /\ IF call[r].id \in Stored THEN Goto(r, "delete") ELSE Goto(r, "not_found")
  /\ UNCHANGED <<events, clock, call, event, removed>>

DeleteGet(r) ==
  LET e == call[r].id
      Mine == events[e].user = call[r].user
  IN  /\ pc[r] = "delete_get"
      /\ \/ e \notin Stored /\ Goto(r, "not_found")
         \/ e \in Stored /\ ~Mine /\ Goto(r, "forbidden")
         \/ e \in Stored /\ Mine /\ Goto(r, "delete")
      /\ UNCHANGED <<events, clock, call, event, removed>>

\* Mutant of Delete: a missing row is not noticed.
DeleteIgnoresAffected(r) ==
  /\ pc[r] = "delete"
  /\ events' = [events EXCEPT ![call[r].id] = None]
  /\ removed' = removed \cup {call[r].id}
  /\ Written(r)
  /\ UNCHANGED <<clock, call, event>>

\* DELETE ... WHERE id = $1: as for Update, a row that is gone is an error.
Delete(r) ==
  /\ pc[r] = "delete"
  /\ IF call[r].id \in Stored
     THEN /\ events' = [events EXCEPT ![call[r].id] = None]
          /\ removed' = removed \cup {call[r].id}
          /\ Written(r)
     ELSE Goto(r, "internal") /\ UNCHANGED <<events, removed>>
  /\ UNCHANGED <<clock, call, event>>
-----------------------------------------------------------------------------
\* A statement fails without effect: the database is away, or the request's
\* context has ended.
StatementFails(r) == /\ Faults /\ pc[r] \in Statements
                     /\ Goto(r, "internal")
                     /\ UNCHANGED <<events, clock, call, event, removed>>

Return(r) == /\ pc[r] \in Answers
             /\ Goto(r, "idle")
             /\ call' = [call EXCEPT ![r] = NoCall]
             /\ event' = [event EXCEPT ![r] = None]
             /\ UNCHANGED <<events, clock, removed>>

\* The process dies with all its handlers; what was committed stays.
Crash == /\ Faults
         /\ \E r \in Requests : pc[r] # "idle"
         /\ pc' = [r \in Requests |-> "idle"]
         /\ call' = [r \in Requests |-> NoCall]
         /\ event' = [r \in Requests |-> None]
         /\ UNCHANGED <<events, clock, removed>>

Tick == /\ clock < MaxClock
        /\ clock' = clock + 1
        /\ UNCHANGED <<events, pc, call, event, removed>>

Arrive(r) == CreateArrives(r) \/ GetArrives(r) \/ UpdateArrives(r) \/ DeleteArrives(r)
Step(r) == \/ Allow(r) \/ Stamp(r) \/ Save(r) \/ Get(r) \/ UpdateGet(r) \/ Update(r)
           \/ DeleteGet(r) \/ Delete(r)

Next == \/ \E r \in Requests : Arrive(r) \/ Step(r) \/ StatementFails(r) \/ Return(r)
        \/ Crash
        \/ Tick

Spec == Init /\ [][Next]_vars
-----------------------------------------------------------------------------
\* Only a request of the event's owner changes or deletes it, although the write
\* itself does not look at the owner, and no write moves it to another owner or
\* changes when it was created.
OnlyOwnerWrites ==
  [][\A e \in Stored : events'[e] # events[e] =>
       /\ \E r \in Requests : /\ pc[r] \in {"update", "delete"} /\ call[r].id = e
                              /\ call[r].user = events[e].user
       /\ e \in Stored' => /\ events'[e].user = events[e].user
                           /\ events'[e].created = events[e].created]_vars

\* A deleted event stays deleted, whatever updates had read it before.
NoResurrection == Stored \cap removed = {}

\* A delete that answers with success is the one that removed the event: of two
\* that read it at the same time one fails.
DeleteSucceedsOnce ==
  [][\A r \in Requests : pc[r] = "delete" /\ pc'[r] = "ok" => call[r].id \notin removed]_vars

\* An update or delete of an event that does not exist answers not found
\* (event_test.go).  The write that comes too late answers internal instead.
MissingEventIsNotFound ==
  \A r \in Requests : pc[r] = "internal" /\ call[r].op \in {"update", "delete"} =>
    call[r].id \in Stored

\* An update bumps UpdatedAt (event_test.go).  The write of an update that was
\* stamped before another one and lands after it sets it back.
UpdateBumpsUpdatedAt ==
  [][\A e \in Stored : e \in Stored' /\ events'[e] # events[e] =>
       events'[e].updated >= events[e].updated]_vars

\* Readers and writers see one store in which each request happens at an
\* instant between its arrival and its answer.
Visible(x) == IF x = None THEN None ELSE [user |-> x.user, content |-> x.content]

Store == INSTANCE EventStore WITH
  store <- [e \in EventIDs |-> Visible(events[e])],
  phase <- [r \in Requests |-> IF pc[r] \in Steps THEN "pending" ELSE pc[r]],
  result <- [r \in Requests |-> IF pc[r] = "ok" THEN Visible(event[r]) ELSE None]

ImplementsStore == Store!Spec
=============================================================================
