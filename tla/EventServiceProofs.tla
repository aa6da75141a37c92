------------------------- MODULE EventServiceProofs -------------------------
(***************************************************************************)
(* Proofs about EventService for every number of requests, users, events    *)
(* and contents, with and without faults.                                   *)
(***************************************************************************)
EXTENDS EventService, TLAPS

Known == Stored \cup removed

\* Where a handler is says which operation it runs and what it was given; what it
\* has in hand is what it is to write, or nothing.
CallFollows ==
  \A r \in Requests :
    /\ pc[r] = "idle" => event[r] = None
    /\ pc[r] \in {"allow", "stamp", "save"} =>
         /\ call[r].op = "create" /\ call[r].user \in Users
         /\ call[r].content \in Contents \cup {Blank}
    /\ pc[r] \in {"update_get", "update"} =>
         /\ call[r].op = "update" /\ call[r].user \in Users
         /\ call[r].content \in Contents \cup {Blank}
    /\ pc[r] \in {"delete_get", "delete"} =>
         call[r].op = "delete" /\ call[r].user \in Users
    /\ pc[r] = "get" => call[r].op = "get"
    /\ pc[r] \in {"save", "update"} => /\ event[r].user = call[r].user
                                       /\ event[r].content = call[r].content
    /\ pc[r] \in {"get", "delete_get", "delete"} => event[r] = None

\* An id that newID returned is nobody else's, and no event has it or had it until
\* it is saved; every other request came with the id of an event there is or was.
IDsFollow ==
  \A r \in Requests :
    /\ pc[r] \in {"allow", "stamp", "save"} => call[r].id \in EventIDs \ Known
    /\ pc[r] \in {"get", "update_get", "delete_get"} => call[r].id \in Known \cup {None}
    /\ pc[r] \in {"update", "delete"} => call[r].id \in Known
    /\ \A q \in Requests \ {r} :
         call[r].op = "create" /\ call[q].op = "create" => call[r].id # call[q].id

\* The owner that was compared at the read is the owner at the write, if the event
\* is still there.
OwnerFollows ==
  \A r \in Requests :
    pc[r] \in {"update", "delete"} /\ call[r].id \in Stored =>
      events[call[r].id].user = call[r].user

IInv == TypeOK /\ CallFollows /\ IDsFollow /\ OwnerFollows /\ NoResurrection
-----------------------------------------------------------------------------
LEMMA ArriveKeeps ==
  ASSUME IInv, NEW r \in Requests, Arrive(r)
  PROVE  IInv'
<1>1. PICK c \in Calls :
        /\ call' = [call EXCEPT ![r] = c]
        /\ \/ /\ CreateArrives(r) /\ c.op = "create" /\ c.user \in Users
              /\ c.id \in FreshIDs /\ c.content \in Contents \cup {Blank}
           \/ /\ GetArrives(r) /\ c.op = "get" /\ c.id \in Known \cup {None}
           \/ /\ UpdateArrives(r) /\ c.op = "update" /\ c.user \in Users
              /\ c.id \in Known \cup {None} /\ c.content \in Contents \cup {Blank}
           \/ /\ DeleteArrives(r) /\ c.op = "delete" /\ c.user \in Users
              /\ c.id \in Known \cup {None}
  <2>. USE DEF IInv, TypeOK, Calls, Known, Stored, FreshIDs
  <2>1. CASE CreateArrives(r)
    BY <2>1 DEF CreateArrives
  <2>2. CASE GetArrives(r)
    BY <2>2 DEF GetArrives
  <2>3. CASE UpdateArrives(r)
    BY <2>3 DEF UpdateArrives
  <2>4. CASE DeleteArrives(r)
    BY <2>4 DEF DeleteArrives
  <2>. QED
    BY <2>1, <2>2, <2>3, <2>4 DEF Arrive
<1>2. /\ UNCHANGED <<events, clock, event, removed>> /\ pc[r] = "idle"
      /\ call' \in [Requests -> Calls] /\ call'[r] = c
      /\ \A q \in Requests \ {r} : call'[q] = call[q]
      /\ \/ pc' = [pc EXCEPT ![r] = "allow"] /\ CreateArrives(r)
         \/ pc' = [pc EXCEPT ![r] = "get"] /\ GetArrives(r)
         \/ pc' = [pc EXCEPT ![r] = "update_get"] /\ UpdateArrives(r)
         \/ pc' = [pc EXCEPT ![r] = "delete_get"] /\ DeleteArrives(r)
  BY <1>1 DEF IInv, TypeOK, CreateArrives, GetArrives, UpdateArrives, DeleteArrives, Goto
<1>3. TypeOK'
  BY <1>2 DEF IInv, TypeOK, Steps, Statements
<1>4. /\ \A q \in Requests \ {r} : pc'[q] = pc[q]
      /\ pc'[r] \in {"allow", "get", "update_get", "delete_get"}
      /\ pc'[r] = "allow" => CreateArrives(r)
      /\ pc'[r] = "get" => GetArrives(r)
      /\ pc'[r] = "update_get" => UpdateArrives(r)
      /\ pc'[r] = "delete_get" => DeleteArrives(r)
      /\ c.op = "create" => CreateArrives(r)
  BY <1>1, <1>2 DEF IInv, TypeOK
<1>5. /\ pc'[r] = "allow" => /\ c.op = "create" /\ c.user \in Users /\ c.id \in FreshIDs
                              /\ c.content \in Contents \cup {Blank}
      /\ pc'[r] = "get" => c.op = "get" /\ c.id \in Known \cup {None}
      /\ pc'[r] = "update_get" => /\ c.op = "update" /\ c.user \in Users
                                   /\ c.id \in Known \cup {None}
                                   /\ c.content \in Contents \cup {Blank}
      /\ pc'[r] = "delete_get" => /\ c.op = "delete" /\ c.user \in Users
                                   /\ c.id \in Known \cup {None}
      /\ c.op = "create" => c.id \in FreshIDs
  BY <1>1, <1>2 DEF IInv, TypeOK, CreateArrives, GetArrives, UpdateArrives, DeleteArrives, Goto
<1>7. CallFollows'
  BY <1>2, <1>4, <1>5 DEF IInv, CallFollows
<1>8. Known' = Known /\ \A e \in FreshIDs : /\ e \in EventIDs \ Known
                                            /\ \A q \in Requests : call[q].op = "create" =>
                                                                    call[q].id # e
  BY <1>2 DEF Known, Stored, FreshIDs
<1>9. IDsFollow'
  BY <1>2, <1>4, <1>5, <1>8 DEF IInv, IDsFollow
<1>6. OwnerFollows' /\ NoResurrection'
  BY <1>2 DEF IInv, TypeOK, OwnerFollows, NoResurrection, Stored
<1>. QED
  BY <1>3, <1>6, <1>7, <1>9 DEF IInv

\* A step that leaves the table and the calls alone.
LEMMA ReadKeeps ==
  ASSUME IInv, NEW r \in Requests,
         Allow(r) \/ Stamp(r) \/ Get(r) \/ UpdateGet(r) \/ DeleteGet(r) \/ StatementFails(r)
  PROVE  IInv'
<1>. USE DEF IInv, TypeOK, CallFollows, IDsFollow, OwnerFollows, NoResurrection,
             Known, Stored, Goto, Steps, Statements, Answers
<1>1. CASE Allow(r)
  BY <1>1 DEF Allow
<1>2. CASE Stamp(r)
  BY <1>2, EventServiceAssumption DEF Stamp, Row
<1>3. CASE Get(r)
  BY <1>3 DEF Get
<1>4. CASE UpdateGet(r)
  <2>. DEFINE e == call[r].id
              new == [events[e] EXCEPT !.content = call[r].content, !.updated = clock]
  <2>1. /\ UNCHANGED <<events, clock, call, removed>> /\ pc[r] = "update_get"
        /\ \/ /\ \E answer \in {"not_found", "forbidden", "invalid"} :
                    pc' = [pc EXCEPT ![r] = answer]
              /\ UNCHANGED event
           \/ /\ e \in Stored /\ events[e].user = call[r].user /\ call[r].content # Blank
              /\ event' = [event EXCEPT ![r] = new] /\ pc' = [pc EXCEPT ![r] = "update"]
    BY <1>4 DEF UpdateGet
  <2>2. CASE /\ \E answer \in {"not_found", "forbidden", "invalid"} :
                    pc' = [pc EXCEPT ![r] = answer]
             /\ UNCHANGED event
    BY <2>1, <2>2
  <2>3. CASE /\ e \in Stored /\ events[e].user = call[r].user /\ call[r].content # Blank
             /\ event' = [event EXCEPT ![r] = new] /\ pc' = [pc EXCEPT ![r] = "update"]
    <3>1. events[e] \in Row /\ call[r].content \in Contents /\ clock \in 1..MaxClock
      BY <2>1, <2>3
    <3>2. /\ new \in Row /\ new.user = call[r].user /\ new.content = call[r].content
      BY <2>3, <3>1 DEF Row
    <3>. HIDE DEF new
    <3>3. TypeOK'
      BY <2>1, <2>3, <3>2
    <3>. QED
      BY <2>1, <2>3, <3>2, <3>3, EventServiceAssumption
  <2>. QED
    BY <2>1, <2>2, <2>3
<1>5. CASE DeleteGet(r)
  BY <1>5, EventServiceAssumption DEF DeleteGet
<1>6. CASE StatementFails(r)
  BY <1>6 DEF StatementFails
<1>. QED
  BY <1>1, <1>2, <1>3, <1>4, <1>5, <1>6

LEMMA SaveKeeps ==
  ASSUME IInv, NEW r \in Requests, Save(r)
  PROVE  IInv'
<1>. USE DEF IInv, TypeOK, Goto, Steps, Statements, Answers
<1>1. /\ call[r].id \in EventIDs \ Known /\ event[r] \in Row /\ call[r].op = "create"
      /\ events' = [events EXCEPT ![call[r].id] = event[r]]
      /\ pc' = [pc EXCEPT ![r] = "ok"] \/ pc' = [pc EXCEPT ![r] = "internal"]
      /\ UNCHANGED <<clock, call, event, removed>>
  BY DEF Save, Written, IDsFollow, CallFollows
<1>2. Stored' = Stored \cup {call[r].id}
  BY <1>1, EventServiceAssumption DEF Stored
<1>3. \A q \in Requests \ {r} : pc'[q] = pc[q]
  BY <1>1
<1>4. TypeOK'
  BY <1>1
<1>5. CallFollows'
  BY <1>1 DEF CallFollows
<1>6. IDsFollow'
  BY <1>1, <1>2, <1>3 DEF IDsFollow, CallFollows, Known
<1>7. OwnerFollows'
  BY <1>1, <1>2, <1>3 DEF OwnerFollows, IDsFollow, Known
<1>8. NoResurrection'
  BY <1>1, <1>2 DEF NoResurrection, Known
<1>. QED
  BY <1>4, <1>5, <1>6, <1>7, <1>8

LEMMA UpdateKeeps ==
  ASSUME IInv, NEW r \in Requests, Update(r)
  PROVE  IInv' /\ Stored' = Stored
<1>. USE DEF IInv, TypeOK, Goto, Steps, Statements, Answers
<1>1. /\ pc[r] = "update" /\ event[r] \in Row
      /\ pc' = [pc EXCEPT ![r] = "ok"] \/ pc' = [pc EXCEPT ![r] = "internal"]
      /\ UNCHANGED <<clock, call, event, removed>>
  BY DEF Update, Written
<1>2. /\ events' \in [EventIDs -> Row \cup {None}] /\ Stored' = Stored
      /\ \A e \in Stored : events'[e].user = events[e].user
  <2>1. CASE call[r].id \in Stored
    <3>. DEFINE e == call[r].id
                new == [events[e] EXCEPT !.content = event[r].content,
                                         !.updated = event[r].updated]
    <3>1. new \in Row /\ new.user = events[e].user
      BY <1>1, <2>1 DEF Row, Stored
    <3>2. events' = [events EXCEPT ![e] = new]
      BY <2>1 DEF Update
    <3>. HIDE DEF new
    <3>. QED
      BY <2>1, <3>1, <3>2, EventServiceAssumption DEF Stored
  <2>2. CASE call[r].id \notin Stored
    BY <2>2 DEF Update, Stored
  <2>. QED
    BY <2>1, <2>2
<1>3. TypeOK'
  BY <1>1, <1>2
<1>4. CallFollows'
  BY <1>1 DEF CallFollows
<1>5. IDsFollow'
  BY <1>1, <1>2 DEF IDsFollow, Known
<1>6. OwnerFollows' /\ NoResurrection'
  BY <1>1, <1>2 DEF OwnerFollows, NoResurrection
<1>. QED
  BY <1>2, <1>3, <1>4, <1>5, <1>6

LEMMA DeleteKeeps ==
  ASSUME IInv, NEW r \in Requests, Delete(r)
  PROVE  IInv'
<1>. USE DEF IInv, TypeOK, Goto, Steps, Statements, Answers
<1>1. /\ pc' = [pc EXCEPT ![r] = "ok"] \/ pc' = [pc EXCEPT ![r] = "internal"]
      /\ UNCHANGED <<clock, call, event>>
  BY DEF Delete, Written
<1>2. CASE call[r].id \in Stored
  <2>1. /\ events' = [events EXCEPT ![call[r].id] = None]
        /\ removed' = removed \cup {call[r].id}
    BY <1>2 DEF Delete
  <2>2. Stored' = Stored \ {call[r].id} /\ call[r].id \in EventIDs
    BY <1>2, <2>1 DEF Stored
  <2>3. /\ events' \in [EventIDs -> Row \cup {None}] /\ removed' \subseteq EventIDs
        /\ Known' = Known
        /\ \A e \in Stored' : events'[e] = events[e]
    BY <1>2, <2>1, <2>2 DEF Known
  <2>4. TypeOK'
    BY <1>1, <2>3
  <2>5. CallFollows'
    BY <1>1 DEF CallFollows
  <2>6. IDsFollow'
    BY <1>1, <2>3 DEF IDsFollow
  <2>7. OwnerFollows'
    BY <1>1, <2>2, <2>3 DEF OwnerFollows
  <2>8. NoResurrection'
    BY <2>1, <2>2 DEF NoResurrection
  <2>. QED
    BY <2>4, <2>5, <2>6, <2>7, <2>8
<1>3. CASE call[r].id \notin Stored
  BY <1>1, <1>3
  DEF Delete, CallFollows, IDsFollow, OwnerFollows, NoResurrection, Known, Stored
<1>. QED
  BY <1>2, <1>3

LEMMA OtherStepsKeep ==
  ASSUME IInv, (\E r \in Requests : Return(r)) \/ Crash \/ Tick \/ UNCHANGED vars
  PROVE  IInv'
<1>. USE EventServiceAssumption
     DEF IInv, TypeOK, CallFollows, IDsFollow, OwnerFollows, NoResurrection,
         Known, Stored, Goto, Steps, Statements, Answers
<1>1. NoCall \in Calls /\ NoCall.op = "none"
  BY DEF NoCall, Calls
<1>2. ASSUME NEW r \in Requests, Return(r) PROVE IInv'
  BY <1>1, <1>2 DEF Return
<1>3. CASE Crash
  BY <1>1, <1>3 DEF Crash
<1>4. CASE Tick
  BY <1>4 DEF Tick
<1>5. CASE UNCHANGED vars
  BY <1>5 DEF vars
<1>. QED
  BY <1>2, <1>3, <1>4, <1>5

LEMMA IInvInductive == (Init => IInv) /\ (IInv /\ [Next]_vars => IInv')
<1>1. Init => IInv
  BY EventServiceAssumption
  DEF Init, IInv, TypeOK, CallFollows, IDsFollow, OwnerFollows, NoResurrection, Known,
      Stored, NoCall, Calls
<1>2. IInv /\ [Next]_vars => IInv'
  BY ArriveKeeps, ReadKeeps, SaveKeeps, UpdateKeeps, DeleteKeeps, OtherStepsKeep
  DEF Next, Step
<1>. QED
  BY <1>1, <1>2

LEMMA Invariant == Spec => []IInv
  BY IInvInductive, PTL DEF Spec

\* Every reachable state of the event service is well typed; a handler at its write
\* has an event in hand.
THEOREM TypeCorrect == Spec => []TypeOK
<1>1. IInv => TypeOK
  BY DEF IInv
<1>. QED
  BY <1>1, Invariant, PTL

\* A deleted event stays deleted: an UPDATE that finds no row writes none, and no
\* id is drawn twice.
THEOREM DeletedForGood == Spec => []NoResurrection
<1>1. IInv => NoResurrection
  BY DEF IInv
<1>. QED
  BY <1>1, Invariant, PTL

\* Nobody but its owner changes or deletes an event, although the write looks at
\* nothing but the id: the owner it was compared with at the read cannot change.
THEOREM OnlyOwnersWrite == Spec => OnlyOwnerWrites
<1>. DEFINE Kept(e) == events'[e] = events[e]
            ByOwner(e) ==
              /\ \E r \in Requests : /\ pc[r] \in {"update", "delete"} /\ call[r].id = e
                                     /\ call[r].user = events[e].user
              /\ e \in Stored' => /\ events'[e].user = events[e].user
                                  /\ events'[e].created = events[e].created
<1>1. ASSUME IInv, NEW r \in Requests, Save(r), NEW e \in Stored
      PROVE  Kept(e)
  BY <1>1 DEF IInv, TypeOK, IDsFollow, Known, Stored, Save
<1>2. ASSUME IInv, NEW r \in Requests, Update(r), NEW e \in Stored
      PROVE  Kept(e) \/ ByOwner(e)
  <2>1. CASE call[r].id = e
    <3>1. /\ events[e] \in Row /\ call[r].user = events[e].user /\ pc[r] = "update"
          /\ events' = [events EXCEPT ![e] = [@ EXCEPT !.content = event[r].content,
                                                       !.updated = event[r].updated]]
      BY <1>2, <2>1 DEF Update, IInv, TypeOK, OwnerFollows, Stored
    <3>2. events'[e].user = events[e].user /\ events'[e].created = events[e].created
      BY <3>1, <1>2 DEF Row, IInv, TypeOK, Stored
    <3>. QED
      BY <2>1, <3>1, <3>2
  <2>2. CASE call[r].id # e
    BY <1>2, <2>2 DEF Update, IInv, TypeOK, Stored
  <2>. QED
    BY <2>1, <2>2
<1>3. ASSUME IInv, NEW r \in Requests, Delete(r), NEW e \in Stored
      PROVE  Kept(e) \/ ByOwner(e)
  <2>1. CASE call[r].id = e
    <3>1. call[r].user = events[e].user /\ pc[r] = "delete" /\ events'[e] = None
      BY <1>3, <2>1 DEF Delete, IInv, TypeOK, OwnerFollows, Stored
    <3>. QED
      BY <2>1, <3>1 DEF Stored
  <2>2. CASE call[r].id # e
    BY <1>3, <2>2 DEF Delete, IInv, TypeOK, Stored
  <2>. QED
    BY <2>1, <2>2
<1>4. IInv /\ [Next]_vars =>
        [\A e \in Stored : events'[e] # events[e] =>
           /\ \E r \in Requests : /\ pc[r] \in {"update", "delete"} /\ call[r].id = e
                                  /\ call[r].user = events[e].user
           /\ e \in Stored' => /\ events'[e].user = events[e].user
                               /\ events'[e].created = events[e].created]_vars
  <2>1. ASSUME IInv, Next, NEW e \in Stored
        PROVE  Kept(e) \/ ByOwner(e)
    <3>1. ASSUME NEW r \in Requests,
                 \/ Arrive(r) \/ Allow(r) \/ Stamp(r) \/ Get(r) \/ UpdateGet(r) \/ DeleteGet(r)
                 \/ StatementFails(r) \/ Return(r)
          PROVE  Kept(e)
      BY <3>1 DEF Arrive, CreateArrives, GetArrives, UpdateArrives, DeleteArrives,
           Allow, Stamp, Get, UpdateGet, DeleteGet, StatementFails, Return
    <3>2. CASE Crash \/ Tick
      BY <3>2 DEF Crash, Tick
    <3>. QED
      BY <2>1, <3>1, <3>2, <1>1, <1>2, <1>3 DEF Next, Step
  <2>. QED
    BY <2>1
<1>. QED
  BY <1>4, Invariant, PTL DEF Spec, OnlyOwnerWrites

\* Of the deletes of an event that have read it one succeeds, the one that finds
\* the row.
THEOREM OneDeleteWins == Spec => DeleteSucceedsOnce
<1>1. ASSUME IInv, Next, NEW r \in Requests, pc[r] = "delete", pc'[r] = "ok"
      PROVE  call[r].id \notin removed
  <2>1. ASSUME NEW q \in Requests,
               \/ Arrive(q) \/ Allow(q) \/ Stamp(q) \/ Save(q) \/ Get(q) \/ UpdateGet(q)
               \/ Update(q) \/ DeleteGet(q) \/ StatementFails(q) \/ Return(q)
        PROVE  FALSE
    <3>1. PICK p : pc' = [pc EXCEPT ![q] = p] /\ (pc[q] = "delete" => p = "internal")
      BY <2>1
      DEF Arrive, CreateArrives, GetArrives, UpdateArrives, DeleteArrives, Allow, Stamp,
          Save, Get, UpdateGet, Update, DeleteGet, StatementFails, Return, Goto, Written,
          Answers
    <3>. QED
      BY <1>1, <3>1 DEF IInv, TypeOK
  <2>2. ~Crash /\ ~Tick
    BY <1>1 DEF Crash, Tick
  <2>3. PICK q \in Requests : Delete(q)
    BY <1>1, <2>1, <2>2 DEF Next, Step
  <2>4. q = r
    BY <1>1, <2>3 DEF Delete, Goto, Written, IInv, TypeOK
  <2>. QED
    BY <1>1, <2>3, <2>4 DEF Delete, Goto, IInv, TypeOK, NoResurrection
<1>2. IInv /\ [Next]_vars =>
        [\A r \in Requests : pc[r] = "delete" /\ pc'[r] = "ok" =>
           call[r].id \notin removed]_vars
  BY <1>1
<1>. QED
  BY <1>2, Invariant, PTL DEF Spec, DeleteSucceedsOnce
-----------------------------------------------------------------------------
(***************************************************************************)
(* The refinement.  store, phase and result are the mapping of EventService. *)
(***************************************************************************)
store == [e \in EventIDs |-> Visible(events[e])]
phase == [r \in Requests |-> IF pc[r] \in Steps THEN "pending" ELSE pc[r]]
result == [r \in Requests |-> IF pc[r] = "ok" THEN Visible(event[r]) ELSE None]

\* What the store holds of a row, and of none.
LEMMA StoreIs ==
  ASSUME IInv, NEW e
  PROVE  /\ Store!Exists(e) <=> e \in Stored
         /\ e \in Stored => store[e] = [user |-> events[e].user, content |-> events[e].content]
         /\ e \in Stored => store[e].user = events[e].user
<1>1. ASSUME NEW x \in Row PROVE [user |-> x.user, content |-> x.content] # None
  <2>1. [user |-> x.user, content |-> x.content] \in [user: Users, content: Contents]
    BY DEF Row
  <2>. QED
    BY <2>1, EventServiceAssumption
<1>2. \A f \in EventIDs : events[f] \in Row \/ events[f] = None
  BY DEF IInv, TypeOK
<1>. QED
  BY <1>1, <1>2 DEF Store!Exists, store, Stored, Visible

LEMMA StoreMoves ==
  ASSUME IInv, NEW e \in EventIDs, NEW x, events' = [events EXCEPT ![e] = x]
  PROVE  store' = [store EXCEPT ![e] = Visible(x)]
BY DEF store, IInv, TypeOK

LEMMA PhaseMoves ==
  ASSUME IInv, NEW r \in Requests, NEW p, pc' = [pc EXCEPT ![r] = p],
         \A q \in Requests \ {r} : event'[q] = event[q]
  PROVE  /\ phase' = [phase EXCEPT ![r] = IF p \in Steps THEN "pending" ELSE p]
         /\ result' = [result EXCEPT ![r] = IF p = "ok" THEN Visible(event'[r]) ELSE None]
BY DEF phase, result, IInv, TypeOK

\* A request that is answered.
LEMMA Answered ==
  ASSUME IInv, NEW r \in Requests, NEW p \in Answers, pc[r] \in Steps,
         pc' = [pc EXCEPT ![r] = p],
         \A q \in Requests \ {r} : event'[q] = event[q]
  PROVE  /\ phase[r] = "pending" /\ phase' = [phase EXCEPT ![r] = p]
         /\ result' = [result EXCEPT ![r] = IF p = "ok" THEN Visible(event'[r]) ELSE None]
<1>1. p \notin Steps
  BY DEF Steps, Statements, Answers
<1>2. phase[r] = "pending"
  BY DEF phase
<1>. QED
  BY <1>1, <1>2, PhaseMoves

\* A request that goes on is still pending.
LEMMA GoesOn ==
  ASSUME IInv, NEW r \in Requests, NEW p \in Steps, pc[r] \in Steps,
         pc' = [pc EXCEPT ![r] = p], UNCHANGED <<events, call>>,
         \A q \in Requests \ {r} : event'[q] = event[q]
  PROVE  UNCHANGED Store!vars
<1>1. p # "ok" /\ pc[r] # "ok"
  BY DEF Steps, Statements
<1>2. phase' = phase /\ result' = result /\ store' = store
  BY <1>1 DEF phase, result, store, IInv, TypeOK
<1>. QED
  BY <1>2 DEF Store!vars, phase, result, store

LEMMA ArriveMaps ==
  ASSUME IInv, NEW r \in Requests, Arrive(r)
  PROVE  Store!Invoke(r)
<1>1. PICK op \in {"create", "get", "update", "delete"}, u \in Users \cup {None},
           e \in EventIDs \cup {None}, c \in Contents \cup {Blank, None} :
        call' = [call EXCEPT ![r] = [op |-> op, user |-> u, id |-> e, content |-> c]]
  BY DEF Arrive, CreateArrives, GetArrives, UpdateArrives, DeleteArrives, FreshIDs, Stored,
         IInv, TypeOK
<1>2. PICK p \in Steps : pc' = [pc EXCEPT ![r] = p]
  BY DEF Arrive, CreateArrives, GetArrives, UpdateArrives, DeleteArrives, Goto, Steps,
         Statements
<1>3. pc[r] = "idle" /\ UNCHANGED <<events, event>>
  BY DEF Arrive, CreateArrives, GetArrives, UpdateArrives, DeleteArrives
<1>4. phase[r] = "idle" /\ phase' = [phase EXCEPT ![r] = "pending"]
  BY <1>2, <1>3, PhaseMoves DEF phase, Steps, Statements
<1>5. store' = store /\ result' = result
  BY <1>2, <1>3 DEF store, result, IInv, TypeOK, Steps, Statements
<1>. QED
  BY <1>1, <1>4, <1>5 DEF Store!Invoke, store, phase, result

\* What is no success leaves no result.
LEMMA Refused ==
  ASSUME IInv, NEW r \in Requests, NEW p \in Answers \ {"ok"}, pc[r] \in Steps,
         pc' = [pc EXCEPT ![r] = p], UNCHANGED <<events, call, event>>
  PROVE  /\ phase[r] = "pending" /\ phase' = [phase EXCEPT ![r] = p]
         /\ result' = [result EXCEPT ![r] = None]
         /\ UNCHANGED store
<1>1. store' = store
  BY DEF store
<1>. QED
  BY <1>1, Answered

LEMMA Fails ==
  ASSUME IInv, NEW r \in Requests, pc[r] \in Steps,
         call[r].op \in {"create", "get", "update", "delete"},
         pc' = [pc EXCEPT ![r] = "internal"], UNCHANGED <<events, call, event>>
  PROVE  Store!Fail(r)
<1>1. "internal" \in Answers \ {"ok"}
  BY DEF Answers
<1>2. /\ phase[r] = "pending" /\ phase' = [phase EXCEPT ![r] = "internal"]
      /\ result' = [result EXCEPT ![r] = None] /\ UNCHANGED store
  BY <1>1, Refused
<1>. QED
  BY <1>2 DEF Store!Fail, Store!Answer, store, phase, result

LEMMA RefusalsMap ==
  ASSUME IInv, NEW r \in Requests, NEW p \in {"too_many", "invalid", "not_found", "forbidden"},
         pc[r] \in Steps, pc' = [pc EXCEPT ![r] = p], UNCHANGED <<events, call, event>>,
         \/ p = "too_many" /\ call[r].op = "create"
         \/ p = "invalid" /\ call[r].op \in {"create", "update"} /\ call[r].content = Blank
         \/ /\ p = "not_found" /\ call[r].op \in {"get", "update", "delete"}
            /\ call[r].id \notin Stored
         \/ /\ p = "forbidden" /\ call[r].op \in {"update", "delete"}
            /\ call[r].id \in Stored /\ events[call[r].id].user # call[r].user
  PROVE  Store!Refuse(r)
<1>1. p \in Answers \ {"ok"}
  BY DEF Answers
<1>2. /\ phase[r] = "pending" /\ phase' = [phase EXCEPT ![r] = p]
      /\ result' = [result EXCEPT ![r] = None] /\ UNCHANGED store
  BY <1>1, Refused
<1>3. /\ Store!Exists(call[r].id) <=> call[r].id \in Stored
      /\ call[r].id \in Stored => store[call[r].id].user = events[call[r].id].user
  BY StoreIs
<1>. HIDE DEF IInv
<1>. QED
  BY <1>2, <1>3 DEF Store!Refuse, Store!Answer, store, phase, result

LEMMA ReadMaps ==
  ASSUME IInv, NEW r \in Requests,
         Allow(r) \/ Stamp(r) \/ Get(r) \/ UpdateGet(r) \/ DeleteGet(r) \/ StatementFails(r)
  PROVE  Store!Refuse(r) \/ Store!Get(r) \/ Store!Fail(r) \/ UNCHANGED Store!vars
<1>. USE DEF Steps, Statements
<1>1. CASE Allow(r)
  BY <1>1, RefusalsMap, GoesOn DEF Allow, Goto, IInv, CallFollows
<1>2. CASE Stamp(r)
  BY <1>2, RefusalsMap, GoesOn DEF Stamp, Goto, IInv, TypeOK, CallFollows
<1>3. CASE Get(r)
  <2>1. CASE call[r].id \in Stored
    <3>. DEFINE e == call[r].id
    <3>1. /\ pc' = [pc EXCEPT ![r] = "ok"] /\ event' = [event EXCEPT ![r] = events[e]]
          /\ UNCHANGED <<events, call>> /\ pc[r] = "get"
      BY <1>3, <2>1 DEF Get, Goto
    <3>2. "ok" \in Answers /\ call[r].op = "get"
      BY <3>1 DEF Answers, IInv, CallFollows
    <3>3. /\ event'[r] = events[e] /\ e \in EventIDs
          /\ \A q \in Requests \ {r} : event'[q] = event[q]
      BY <2>1, <3>1 DEF IInv, TypeOK, Stored
    <3>4. /\ phase[r] = "pending" /\ phase' = [phase EXCEPT ![r] = "ok"]
          /\ result' = [result EXCEPT ![r] = Visible(events[e])]
      BY <3>1, <3>2, <3>3, Answered
    <3>5. Store!Exists(e)
      BY <2>1, StoreIs
    <3>6. store' = store /\ store[e] = Visible(events[e])
      BY <3>1, <3>3 DEF store
    <3>. QED
      BY <3>1, <3>2, <3>4, <3>5, <3>6 DEF Store!Get, Store!Answer, store, phase, result
  <2>2. CASE call[r].id \notin Stored
    BY <1>3, <2>2, RefusalsMap DEF Get, Goto, IInv, CallFollows
  <2>. QED
    BY <2>1, <2>2
<1>4. CASE UpdateGet(r)
  BY <1>4, RefusalsMap, GoesOn DEF UpdateGet, Goto, IInv, TypeOK, CallFollows
<1>5. CASE DeleteGet(r)
  BY <1>5, RefusalsMap, GoesOn DEF DeleteGet, Goto, IInv, CallFollows
<1>6. CASE StatementFails(r)
  BY <1>6, Fails DEF StatementFails, Goto, IInv, CallFollows
<1>. QED
  BY <1>1, <1>2, <1>3, <1>4, <1>5, <1>6

\* A write that took effect, whatever the request was told of it.
LEMMA WriteMaps ==
  ASSUME IInv, NEW r \in Requests, pc[r] \in {"save", "update", "delete"}, Written(r),
         UNCHANGED <<call, event>>
  PROVE  /\ phase[r] = "pending"
         /\ \/ /\ phase' = [phase EXCEPT ![r] = "ok"]
               /\ result' = [result EXCEPT ![r] = Visible(event[r])]
            \/ /\ phase' = [phase EXCEPT ![r] = "internal"]
               /\ result' = [result EXCEPT ![r] = None]
<1>1. pc[r] \in Steps /\ "ok" \in Answers /\ "internal" \in Answers
  BY DEF Steps, Statements, Answers
<1>2. PICK p \in {"ok", "internal"} : pc' = [pc EXCEPT ![r] = p]
  BY DEF Written, Goto
<1>. QED
  BY <1>1, <1>2, Answered

\* What a handler that creates or updates has in hand.
LEMMA InHand ==
  ASSUME IInv, NEW r \in Requests, pc[r] \in {"save", "update"}
  PROVE  /\ Visible(event[r]) = [user |-> call[r].user, content |-> call[r].content]
         /\ call[r].content \in Contents
<1>1. event[r] \in Row /\ event[r].user = call[r].user /\ event[r].content = call[r].content
  BY DEF IInv, TypeOK, CallFollows
<1>2. event[r] # None /\ event[r].content \in Contents
  BY <1>1, EventServiceAssumption DEF Row
<1>. QED
  BY <1>1, <1>2 DEF Visible

LEMMA SaveMaps ==
  ASSUME IInv, NEW r \in Requests, Save(r)
  PROVE  Store!Create(r)
<1>. DEFINE e == call[r].id
            new == [user |-> call[r].user, content |-> call[r].content]
<1>1. /\ e \in EventIDs /\ e \notin Stored /\ call[r].op = "create"
      /\ Visible(event[r]) = new /\ call[r].content \in Contents
  BY InHand DEF Save, IInv, CallFollows, IDsFollow, Known
<1>2. Store!Happened(r, "create", new)
  BY <1>1, WriteMaps DEF Save, Store!Happened, Store!Answer, phase, result
<1>3. store' = [store EXCEPT ![e] = new]
  BY <1>1, StoreMoves DEF Save
<1>4. ~Store!Exists(e)
  BY <1>1, StoreIs
<1>. QED
  BY <1>1, <1>2, <1>3, <1>4 DEF Store!Create, Store!Put, Store!Happened, Store!Answer, store

LEMMA UpdateMaps ==
  ASSUME IInv, NEW r \in Requests, Update(r)
  PROVE  Store!Update(r) \/ Store!Fail(r)
<1>. DEFINE e == call[r].id
            new == [user |-> call[r].user, content |-> call[r].content]
<1>1. pc[r] = "update" /\ call[r].op = "update" /\ pc[r] \in Steps
  BY DEF Update, IInv, CallFollows, Steps, Statements
<1>2. CASE e \in Stored
  <2>. DEFINE row == [events[e] EXCEPT !.content = event[r].content,
                                       !.updated = event[r].updated]
  <2>1. /\ e \in EventIDs /\ events[e] \in Row /\ events[e].user = call[r].user
        /\ event[r] \in Row /\ event[r].content = call[r].content
    BY <1>1, <1>2 DEF IInv, TypeOK, CallFollows, OwnerFollows, Stored
  <2>2. row \in Row /\ row.user = call[r].user /\ row.content = call[r].content
    BY <2>1 DEF Row
  <2>3. events' = [events EXCEPT ![e] = row] /\ Written(r) /\ UNCHANGED <<call, event>>
    BY <1>2 DEF Update
  <2>. HIDE DEF row
  <2>4. Visible(row) = new
    BY <2>2, EventServiceAssumption DEF Visible
  <2>5. Store!Happened(r, "update", new) /\ call[r].content \in Contents
    BY <1>1, <2>3, WriteMaps, InHand DEF Store!Happened, Store!Answer, phase, result
  <2>6. store' = [store EXCEPT ![e] = new]
    BY <2>1, <2>3, <2>4, StoreMoves
  <2>7. Store!Exists(e) /\ store[e].user = call[r].user
    BY <1>2, <2>1, StoreIs
  <2>. QED
    BY <2>5, <2>6, <2>7 DEF Store!Update, Store!Put, Store!Happened, Store!Answer, store
<1>3. CASE e \notin Stored
  BY <1>1, <1>3, Fails DEF Update, Goto
<1>. QED
  BY <1>2, <1>3

LEMMA DeleteMaps ==
  ASSUME IInv, NEW r \in Requests, Delete(r)
  PROVE  Store!Delete(r) \/ Store!Fail(r)
<1>. DEFINE e == call[r].id
<1>1. /\ pc[r] = "delete" /\ call[r].op = "delete" /\ pc[r] \in Steps
      /\ event[r] = None /\ UNCHANGED <<call, event>>
  BY DEF Delete, IInv, CallFollows, Steps, Statements
<1>2. CASE e \in Stored
  <2>1. /\ e \in EventIDs /\ events[e].user = call[r].user /\ Written(r)
        /\ events' = [events EXCEPT ![e] = None]
    BY <1>1, <1>2 DEF Delete, IInv, OwnerFollows, Stored
  <2>2. Store!Happened(r, "delete", None)
    BY <1>1, <2>1, WriteMaps DEF Visible, Store!Happened, Store!Answer, phase, result
  <2>3. store' = [store EXCEPT ![e] = None]
    BY <2>1, StoreMoves DEF Visible
  <2>4. Store!Exists(e) /\ store[e].user = call[r].user
    BY <1>2, <2>1, StoreIs
  <2>. QED
    BY <2>2, <2>3, <2>4 DEF Store!Delete, store
<1>3. CASE e \notin Stored
  BY <1>1, <1>3, Fails DEF Delete, Goto
<1>. QED
  BY <1>2, <1>3

LEMMA OtherStepsMap ==
  ASSUME IInv
  PROVE  /\ \A r \in Requests : Return(r) => Store!Return(r)
         /\ Crash => Store!Crash
         /\ Tick \/ UNCHANGED vars => UNCHANGED Store!vars
<1>1. ASSUME NEW r \in Requests, Return(r) PROVE Store!Return(r)
  <2>1. /\ pc[r] \in Answers /\ pc' = [pc EXCEPT ![r] = "idle"] /\ UNCHANGED events
        /\ call' = [call EXCEPT ![r] = NoCall] /\ event' = [event EXCEPT ![r] = None]
    BY <1>1 DEF Return, Goto
  <2>2. \A q \in Requests \ {r} : event'[q] = event[q]
    BY <2>1 DEF IInv, TypeOK
  <2>3. phase' = [phase EXCEPT ![r] = "idle"] /\ result' = [result EXCEPT ![r] = None]
    BY <2>1, <2>2, PhaseMoves DEF Steps, Statements
  <2>4. phase[r] \in Store!Failures \cup {"ok"} /\ store' = store /\ NoCall = Store!NoCall
    BY <2>1 DEF phase, store, Answers, Steps, Statements, Store!Failures, NoCall, Store!NoCall
  <2>. QED
    BY <2>1, <2>3, <2>4 DEF Store!Return, store, phase, result
<1>2. ASSUME Crash PROVE Store!Crash
  <2>1. /\ phase' = [r \in Requests |-> "idle"] /\ result' = [r \in Requests |-> None]
        /\ store' = store /\ call' = [r \in Requests |-> Store!NoCall]
    BY <1>2 DEF Crash, phase, result, store, Steps, Statements, NoCall, Store!NoCall
  <2>. QED
    BY <2>1 DEF Store!Crash, store, phase, result
<1>3. ASSUME Tick \/ UNCHANGED vars PROVE UNCHANGED Store!vars
  <2>1. UNCHANGED <<events, pc, call, event>>
    BY <1>3 DEF Tick, vars
  <2>. QED
    BY <2>1 DEF Store!vars
<1>. QED
  BY <1>1, <1>2, <1>3

\* Create, Get, Update and Delete, each of a read and a write that do not know of
\* each other, are a store in which every request happens at one instant and answers
\* with what it saw then: the write misses its row, or finds the owner unchanged.
THEOREM StoreImplemented == Spec => ImplementsStore
<1>1. Init => Store!Init
  <2>1. ASSUME Init
        PROVE  /\ store = [e \in EventIDs |-> None] /\ phase = [r \in Requests |-> "idle"]
               /\ result = [r \in Requests |-> None]
               /\ call = [r \in Requests |-> Store!NoCall]
    BY <2>1 DEF Init, store, phase, result, Visible, Steps, Statements, NoCall, Store!NoCall
  <2>. QED
    BY <2>1 DEF Store!Init, store, phase, result
<1>2. IInv /\ [Next]_vars => [Store!Next]_(Store!vars)
  <2>. SUFFICES ASSUME IInv, [Next]_vars PROVE Store!Next \/ UNCHANGED Store!vars
    OBVIOUS
  <2>. QED
    BY ArriveMaps, ReadMaps, SaveMaps, UpdateMaps, DeleteMaps, OtherStepsMap
    DEF Next, Step, Store!Next
<1>. QED
  BY <1>1, <1>2, Invariant, PTL DEF Spec, ImplementsStore, Store!Spec
-----------------------------------------------------------------------------
(***************************************************************************)
(* What is true of the two promises that the code breaks (runs event_bump   *)
(* and event_missing).                                                      *)
(***************************************************************************)
Dated(x) == x.created <= x.updated /\ x.updated <= clock

\* UpdatedAt may go back, but never before CreatedAt nor ahead of the clock, in the
\* table and in every answer.
DatesInOrder == /\ \A e \in Stored : Dated(events[e])
                /\ \A r \in Requests : event[r] # None => Dated(event[r])

\* Without faults, an update or delete answers internal only when another request
\* has deleted the event since it was read.
InternalMeansRemoved ==
  ~Faults => \A r \in Requests : pc[r] = "internal" =>
               call[r].op \in {"update", "delete"} /\ call[r].id \in removed

CreatedFollows ==
  \A r \in Requests : pc[r] = "update" /\ call[r].id \in Stored =>
    event[r].created = events[call[r].id].created

DateInv == DatesInOrder /\ CreatedFollows

LEMMA StoredRows ==
  ASSUME IInv
  PROVE  /\ clock \in Nat
         /\ \A e \in Stored : events[e] \in Row /\ e \in EventIDs
         /\ \A x \in Row : x.created \in Nat /\ x.updated \in Nat /\ x # None
BY EventServiceAssumption DEF IInv, TypeOK, Stored, Row

\* Of a write, only what it put into the table or took out of it matters.
LEMMA DatesKept ==
  ASSUME IInv, DateInv, NEW x, Dated(x) \/ x = None, NEW e,
         \A f \in EventIDs \ {e} : events'[f] = events[f],
         e \in EventIDs => events'[e] = x, clock' = clock, event' = event
  PROVE  DatesInOrder'
<1>1. \A f \in Stored' : f = e \/ (f \in Stored /\ events'[f] = events[f])
  BY DEF Stored
<1>2. \A f \in Stored' : Dated(events'[f])
  BY <1>1 DEF DateInv, DatesInOrder, Stored
<1>. QED
  BY <1>2 DEF DateInv, DatesInOrder, Dated

LEMMA WritesKeepDates ==
  ASSUME IInv, DateInv, NEW r \in Requests, Save(r) \/ Update(r) \/ Delete(r)
  PROVE  DateInv'
<1>1. /\ pc[r] \in {"save", "update", "delete"} /\ UNCHANGED <<clock, call, event>>
      /\ \A q \in Requests : pc'[q] = "update" => pc[q] = "update" /\ q # r
  BY DEF Save, Update, Delete, Written, Goto, IInv, TypeOK
<1>2. CASE Save(r)
  <2>1. PICK e \in EventIDs : e = call[r].id
    BY <1>2 DEF Save, IInv, IDsFollow
  <2>2. /\ events' = [events EXCEPT ![e] = event[r]] /\ e \notin Known
        /\ event[r] # None
    BY <1>2, <2>1, EventServiceAssumption DEF Save, IInv, TypeOK, IDsFollow
  <2>3. \A f \in EventIDs : events'[f] = IF f = e THEN event[r] ELSE events[f]
    BY <2>2 DEF IInv, TypeOK
  <2>4. DatesInOrder'
    BY <1>1, <2>2, <2>3, DatesKept DEF DateInv, DatesInOrder
  <2>5. \A q \in Requests : pc[q] = "update" => call[q].id # e
    BY <2>2 DEF IInv, IDsFollow
  <2>. QED
    BY <1>1, <2>3, <2>4, <2>5 DEF DateInv, CreatedFollows, Stored
<1>3. CASE Update(r)
  <2>1. CASE call[r].id \notin Stored
    <3>1. events' = events
      BY <1>3, <2>1 DEF Update
    <3>. QED
      BY <1>1, <3>1 DEF DateInv, DatesInOrder, CreatedFollows, Dated, Stored
  <2>2. CASE call[r].id \in Stored
    <3>. DEFINE new == [events[call[r].id] EXCEPT !.content = event[r].content,
                                                  !.updated = event[r].updated]
    <3>1. PICK e \in Stored : e = call[r].id
      BY <2>2
    <3>2. /\ events[e] \in Row /\ event[r] \in Row /\ pc[r] = "update"
          /\ event[r].created = events[e].created
      BY <1>3, <3>1, StoredRows DEF Update, IInv, TypeOK, DateInv, CreatedFollows
    <3>3. /\ new.created = event[r].created /\ new.updated = event[r].updated
          /\ new.created = events[e].created
      BY <3>1, <3>2 DEF Row
    <3>4. Dated(new)
      BY <3>2, <3>3, EventServiceAssumption DEF DateInv, DatesInOrder, Dated
    <3>5. events' = [events EXCEPT ![e] = new]
      BY <1>3, <3>1 DEF Update
    <3>. HIDE DEF new
    <3>6. \A f \in EventIDs : events'[f] = IF f = e THEN new ELSE events[f]
      BY <3>5 DEF IInv, TypeOK
    <3>7. DatesInOrder'
      BY <1>1, <3>4, <3>6, DatesKept
    <3>8. CreatedFollows'
      <4>1. \A f \in Stored' : f \in Stored /\ events'[f].created = events[f].created
        BY <3>1, <3>3, <3>6 DEF Stored
      <4>. QED
        BY <1>1, <4>1 DEF DateInv, CreatedFollows
    <3>. QED
      BY <3>7, <3>8 DEF DateInv
  <2>. QED
    BY <2>1, <2>2
<1>4. CASE Delete(r)
  <2>1. \A f \in EventIDs : events'[f] \in {events[f], None}
    BY <1>4 DEF Delete, IInv, TypeOK
  <2>2. \A f \in Stored' : f \in Stored /\ events'[f] = events[f]
    BY <2>1 DEF Stored
  <2>. QED
    BY <1>1, <2>2 DEF DateInv, DatesInOrder, CreatedFollows, Dated
<1>. QED
  BY <1>2, <1>3, <1>4

LEMMA ReadsKeepDates ==
  ASSUME IInv, DateInv, NEW r \in Requests,
         \/ Arrive(r) \/ Allow(r) \/ Stamp(r) \/ Get(r) \/ UpdateGet(r) \/ DeleteGet(r)
         \/ StatementFails(r) \/ Return(r)
  PROVE  DateInv'
<1>1. UNCHANGED <<events, clock>> /\ Stored' = Stored
  BY DEF Arrive, CreateArrives, GetArrives, UpdateArrives, DeleteArrives, Allow, Stamp, Get,
         UpdateGet, DeleteGet, StatementFails, Return, Stored
<1>2. \A q \in Requests \ {r} : /\ pc'[q] = pc[q] /\ call'[q] = call[q]
                                /\ event'[q] = event[q]
  BY DEF Arrive, CreateArrives, GetArrives, UpdateArrives, DeleteArrives, Allow, Stamp, Get,
         UpdateGet, DeleteGet, StatementFails, Return, Goto, IInv, TypeOK
<1>3. CASE UpdateGet(r) /\ pc'[r] = "update"
  <2>1. /\ call[r].id \in Stored /\ call' = call
        /\ event'[r] = [events[call[r].id] EXCEPT !.content = call[r].content, !.updated = clock]
    BY <1>3 DEF UpdateGet, Goto, IInv, TypeOK
  <2>2. events[call[r].id] \in Row /\ Dated(events[call[r].id]) /\ clock \in Nat
    BY <2>1, StoredRows DEF DateInv, DatesInOrder
  <2>3. /\ event'[r].created = events[call[r].id].created /\ event'[r].updated = clock
    BY <2>1, <2>2 DEF Row
  <2>4. Dated(event'[r])
    BY <2>2, <2>3, StoredRows DEF Dated
  <2>. QED
    BY <1>1, <1>2, <2>1, <2>3, <2>4 DEF DateInv, DatesInOrder, CreatedFollows, Dated
<1>4. CASE ~(UpdateGet(r) /\ pc'[r] = "update")
  <2>1. pc'[r] # "update"
    BY <1>4 DEF Arrive, CreateArrives, GetArrives, UpdateArrives, DeleteArrives, Allow, Stamp,
         Get, UpdateGet, DeleteGet, StatementFails, Return, Goto, IInv, TypeOK
  <2>2. \/ event'[r] \in {event[r], None}
        \/ event'[r].created = clock /\ event'[r].updated = clock
        \/ call[r].id \in Stored /\ event'[r] = events[call[r].id]
    <3>1. CASE UpdateGet(r)
      BY <1>4, <3>1 DEF UpdateGet, Goto, IInv, TypeOK
    <3>2. CASE ~UpdateGet(r)
      BY <3>2 DEF Arrive, CreateArrives, GetArrives, UpdateArrives, DeleteArrives, Allow, Stamp,
         Get, DeleteGet, StatementFails, Return, Goto, IInv, TypeOK
    <3>. QED
      BY <3>1, <3>2
  <2>3. event'[r] # None => Dated(event'[r])
    BY <2>2, StoredRows DEF DateInv, DatesInOrder, Dated
  <2>. QED
    BY <1>1, <1>2, <2>1, <2>3 DEF DateInv, DatesInOrder, CreatedFollows, Dated
<1>. QED
  BY <1>3, <1>4

\* The dates of an event are in order, whatever updates race.
THEOREM DatesStayInOrder == Spec => []DatesInOrder
<1>1. Init => DateInv
  BY DEF Init, DateInv, DatesInOrder, CreatedFollows, Stored
<1>2. ASSUME IInv, DateInv, Crash \/ Tick \/ UNCHANGED vars PROVE DateInv'
  <2>1. CASE Crash
    BY <1>2, <2>1 DEF Crash, DateInv, DatesInOrder, CreatedFollows, Dated, Stored
  <2>2. CASE Tick
    <3>1. /\ clock' = clock + 1 /\ UNCHANGED <<events, pc, call, event>>
          /\ Stored' = Stored
      BY <2>2 DEF Tick, Stored
    <3>2. ASSUME NEW x \in Row, Dated(x) PROVE x.updated <= clock'
      BY <1>2, <3>1, <3>2, StoredRows DEF Dated
    <3>3. \A r \in Requests : event[r] # None => event[r] \in Row
      BY <1>2 DEF IInv, TypeOK
    <3>. QED
      BY <1>2, <3>1, <3>2, <3>3, StoredRows DEF DateInv, DatesInOrder, CreatedFollows, Dated
  <2>3. CASE UNCHANGED vars
    BY <1>2, <2>3 DEF vars, DateInv, DatesInOrder, CreatedFollows, Dated, Stored
  <2>. QED
    BY <1>2, <2>1, <2>2, <2>3
<1>3. IInv /\ DateInv /\ [Next]_vars => DateInv'
  BY <1>2, WritesKeepDates, ReadsKeepDates DEF Next, Step
<1>4. DateInv => DatesInOrder
  BY DEF DateInv
<1>. QED
  BY <1>1, <1>3, <1>4, Invariant, PTL DEF Spec

\* An internal error that no fault explains is a lost race with a deletion.
THEOREM InternalIsLostRace == Spec => []InternalMeansRemoved
<1>1. Init => InternalMeansRemoved
  BY DEF Init, InternalMeansRemoved
<1>2. IInv /\ InternalMeansRemoved /\ [Next]_vars => InternalMeansRemoved'
  <2>. SUFFICES ASSUME IInv, InternalMeansRemoved, [Next]_vars, ~Faults
                PROVE  InternalMeansRemoved'
    BY DEF InternalMeansRemoved
  <2>. USE DEF InternalMeansRemoved
  <2>1. ASSUME NEW r \in Requests, Arrive(r) PROVE InternalMeansRemoved'
    BY <2>1 DEF Arrive, CreateArrives, GetArrives, UpdateArrives, DeleteArrives, Goto, IInv, TypeOK
  <2>2. ASSUME NEW r \in Requests, Allow(r) \/ Stamp(r) \/ Save(r) \/ Get(r)
                                   \/ UpdateGet(r) \/ DeleteGet(r)
        PROVE  InternalMeansRemoved'
    BY <2>2 DEF Allow, Stamp, Save, Written, Get, UpdateGet, DeleteGet, Goto, IInv, TypeOK
  <2>3. ASSUME NEW r \in Requests, Update(r) \/ Delete(r) PROVE InternalMeansRemoved'
    <3>1. /\ UNCHANGED call /\ removed \subseteq removed'
          /\ \A q \in Requests \ {r} : pc'[q] = pc[q]
      BY <2>3 DEF Update, Delete, Written, Goto, IInv, TypeOK
    <3>2. call[r].op \in {"update", "delete"} /\ call[r].id \in Known
      BY <2>3 DEF Update, Delete, IInv, CallFollows, IDsFollow
    <3>3. pc'[r] = "internal" => call[r].id \notin Stored
      BY <2>3 DEF Update, Delete, Written, Goto, IInv, TypeOK
    <3>. QED
      BY <3>1, <3>2, <3>3 DEF Known
  <2>4. ASSUME NEW r \in Requests, StatementFails(r) \/ Return(r) PROVE InternalMeansRemoved'
    BY <2>4 DEF StatementFails, Return, Goto, IInv, TypeOK
  <2>5. ASSUME Crash \/ Tick \/ UNCHANGED vars PROVE InternalMeansRemoved'
    BY <2>5 DEF Crash, Tick, vars
  <2>. QED
    BY <2>1, <2>2, <2>3, <2>4, <2>5 DEF Next, Step
<1>. QED
  BY <1>1, <1>2, Invariant, PTL DEF Spec
=============================================================================
