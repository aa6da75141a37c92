----------------------------- MODULE EventStore -----------------------------
(***************************************************************************)
(* What the event operations promise: a store of events with owners in      *)
(* which each request happens at one instant between its arrival and its    *)
(* answer, and answers with what it saw at that instant.  A request that    *)
(* fails has happened or has not.                                           *)
(***************************************************************************)
CONSTANTS Requests, Users, EventIDs, Contents, Blank, None

VARIABLES store,   \* [user, content] of each event, None when there is none
          phase,   \* idle, pending or the answer
          call,    \* the operation of a request, and its arguments
          result   \* the event an answer carries

vars == <<store, phase, call, result>>

NoCall == [op |-> "none", user |-> None, id |-> None, content |-> None]
Failures == {"invalid", "too_many", "forbidden", "not_found", "internal"}

Exists(e) == e \in EventIDs /\ store[e] # None

Init == /\ store = [e \in EventIDs |-> None]
        /\ phase = [r \in Requests |-> "idle"]
        /\ call = [r \in Requests |-> NoCall]
        /\ result = [r \in Requests |-> None]

Invoke(r) ==
  /\ phase[r] = "idle"
  /\ \E op \in {"create", "get", "update", "delete"}, u \in Users \cup {None},
        e \in EventIDs \cup {None}, c \in Contents \cup {Blank, None} :
       call' = [call EXCEPT ![r] = [op |-> op, user |-> u, id |-> e, content |-> c]]
  /\ phase' = [phase EXCEPT ![r] = "pending"]
  /\ UNCHANGED <<store, result>>

Answer(r, op, answer, value) ==
  /\ phase[r] = "pending" /\ call[r].op = op
  /\ phase' = [phase EXCEPT ![r] = answer]
  /\ result' = [result EXCEPT ![r] = value]
  /\ UNCHANGED call

\* The answer to a write that has happened: its value, or an unknown outcome.
Happened(r, op, value) == Answer(r, op, "ok", value) \/ Answer(r, op, "internal", None)

Put(r, op) ==
  LET e == call[r].id
      new == [user |-> call[r].user, content |-> call[r].content]
  IN  /\ call[r].content \in Contents
      /\ Happened(r, op, new)
      /\ store' = [store EXCEPT ![e] = new]

Create(r) == ~Exists(call[r].id) /\ Put(r, "create")

Get(r) == /\ Exists(call[r].id)
          /\ Answer(r, "get", "ok", store[call[r].id])
          /\ UNCHANGED store

Update(r) == /\ Exists(call[r].id)
             /\ store[call[r].id].user = call[r].user
             /\ Put(r, "update")

Delete(r) == /\ Exists(call[r].id)
             /\ store[call[r].id].user = call[r].user
             /\ Happened(r, "delete", None)
             /\ store' = [store EXCEPT ![call[r].id] = None]

\* What may be refused, and when.
Refuse(r) ==
  LET e == call[r].id
  IN  /\ \/ Answer(r, "create", "too_many", None)
         \/ /\ call[r].content = Blank
            /\ Answer(r, "create", "invalid", None) \/ Answer(r, "update", "invalid", None)
         \/ /\ ~Exists(e)
            /\ \E op \in {"get", "update", "delete"} : Answer(r, op, "not_found", None)
         \/ /\ Exists(e) /\ store[e].user # call[r].user
            /\ \E op \in {"update", "delete"} : Answer(r, op, "forbidden", None)
      /\ UNCHANGED store

Fail(r) == /\ \E op \in {"create", "get", "update", "delete"} :
                Answer(r, op, "internal", None)
           /\ UNCHANGED store

Return(r) == /\ phase[r] \in Failures \cup {"ok"}
             /\ phase' = [phase EXCEPT ![r] = "idle"]
             /\ call' = [call EXCEPT ![r] = NoCall]
             /\ result' = [result EXCEPT ![r] = None]
             /\ UNCHANGED store

Crash == /\ phase' = [r \in Requests |-> "idle"]
         /\ call' = [r \in Requests |-> NoCall]
         /\ result' = [r \in Requests |-> None]
         /\ UNCHANGED store

Next == \/ \E r \in Requests :
             \/ Invoke(r) \/ Create(r) \/ Get(r) \/ Update(r) \/ Delete(r)
             \/ Refuse(r) \/ Fail(r) \/ Return(r)
        \/ Crash

Spec == Init /\ [][Next]_vars
=============================================================================
