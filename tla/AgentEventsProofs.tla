-------------------------- MODULE AgentEventsProofs -------------------------
(***************************************************************************)
(* Proofs about AgentEvents: the quota, the dates and the authority of the  *)
(* events, for every number of requests, agents, users and events, every    *)
(* quota, window and timeout.                                               *)
(*                                                                         *)
(* Every step is one of the event service or leaves it alone, so what       *)
(* EventServiceProofs says of the service is cited and not proved again.    *)
(***************************************************************************)
EXTENDS AgentEvents, FiniteSetTheorems, TLAPS

SP == INSTANCE EventServiceProofs WITH Faults <- TRUE

LEMMA ServiceInductive ==
  (SP!Init => SP!IInv) /\ (SP!IInv /\ [SP!Next]_(SP!vars) => SP!IInv')
  BY SP!IInvInductive, AgentEventsAssumption DEF SP!Row, Service!Row

LEMMA ServiceMoves ==
  ASSUME [Next]_vars
  PROVE  [SP!Next]_(SP!vars)
<1>. USE DEF Service!Goto, SP!Goto
<1>1. ASSUME NEW r \in Requests, Handle(r) PROVE SP!Arrive(r)
  BY <1>1 DEF Handle, SP!Arrive, Service!CreateArrives, SP!CreateArrives, Service!DeleteArrives,
     SP!DeleteArrives, Service!FreshIDs, SP!FreshIDs, Service!Stored, SP!Stored
<1>2. ASSUME NEW r \in Requests, Allow(r) PROVE SP!Allow(r)
  BY <1>2 DEF Allow, Service!Allow, SP!Allow
<1>3. ASSUME NEW r \in Requests, Stamp(r) PROVE SP!Stamp(r)
  BY <1>3 DEF Stamp, Service!Stamp, SP!Stamp
<1>4. ASSUME NEW r \in Requests, Save(r) PROVE SP!Save(r)
  BY <1>4 DEF Save, Service!Save, SP!Save, Service!Written, SP!Written
<1>5. ASSUME NEW r \in Requests, Delete(r) PROVE SP!DeleteGet(r) \/ SP!Delete(r)
  BY <1>5 DEF Delete, Service!Delete, SP!Delete, Service!Written, SP!Written,
     Service!DeleteGet, SP!DeleteGet, Service!Stored, SP!Stored
<1>6. ASSUME NEW r \in Requests, StatementFails(r) PROVE SP!StatementFails(r)
  BY <1>6 DEF StatementFails, Service!StatementFails, SP!StatementFails,
     Service!Statements, SP!Statements
<1>7. ASSUME NEW r \in Requests, Return(r) PROVE SP!Return(r)
  BY <1>7 DEF Return, Service!Return, SP!Return, Service!Answers, SP!Answers,
     Service!NoCall, SP!NoCall
<1>8. ASSUME Restart PROVE SP!Crash \/ UNCHANGED SP!vars
  BY <1>8 DEF Restart, Service!Crash, SP!Crash, service, SP!vars, Service!NoCall, SP!NoCall
<1>9. ASSUME Tick PROVE SP!Tick
  BY <1>9 DEF Tick, Service!Tick, SP!Tick
<1>10. ASSUME \/ \E r \in Requests : Arrive(r) \/ Authenticate(r)
              \/ Revoke \/ UNCHANGED vars
       PROVE  UNCHANGED SP!vars
  BY <1>10 DEF Arrive, Authenticate, Revoke, vars, service, SP!vars
<1>. QED
  BY <1>1, <1>2, <1>3, <1>4, <1>5, <1>6, <1>7, <1>8, <1>9, <1>10
  DEF Next, RequestStep, SP!Next, SP!Step

\* What the rest of the proofs needs to know of the service.
LEMMA ServiceFacts ==
  ASSUME SP!IInv
  PROVE  /\ Service!TypeOK
         /\ \A r \in Requests :
              /\ pc[r] \in {"allow", "stamp", "save"} =>
                   call[r].user \in Users /\ call[r].id \in EventIDs
              /\ pc[r] = "save" => event[r] \in Service!Row /\ event[r].user = call[r].user
              /\ pc[r] = "delete" /\ call[r].id \in Service!Stored =>
                   events[call[r].id].user = call[r].user
<1>1. Service!TypeOK
  BY DEF SP!IInv, SP!TypeOK, Service!TypeOK, SP!Row, Service!Row, SP!Calls, Service!Calls,
     SP!Steps, Service!Steps, SP!Statements, Service!Statements, SP!Answers, Service!Answers
<1>2. ASSUME NEW r \in Requests
      PROVE  /\ pc[r] \in {"allow", "stamp", "save"} =>
                  call[r].user \in Users /\ call[r].id \in EventIDs
             /\ pc[r] = "save" => event[r].user = call[r].user
             /\ pc[r] = "delete" /\ call[r].id \in Service!Stored =>
                  events[call[r].id].user = call[r].user
  BY DEF SP!IInv, SP!CallFollows, SP!IDsFollow, SP!OwnerFollows, SP!Stored, Service!Stored
<1>. QED
  BY <1>1, <1>2 DEF Service!TypeOK
-----------------------------------------------------------------------------
(***************************************************************************)
(* The door.  What let a request in was looked at once; the invariant says  *)
(* what of it holds for the rest of the request.                            *)
(***************************************************************************)
DoorFollows ==
  \A r \in Requests :
    /\ door[r] # "in" => pc[r] = "idle"
    /\ door[r] # "out" => key[r] \in AgentIDs
    /\ since[r] <= clock
    /\ late[r] => door[r] = "auth" /\ revokedAt[key[r]] # 0
    /\ door[r] = "in" /\ revokedAt[key[r]] # 0 => since[r] <= revokedAt[key[r]]
    /\ pc[r] # "idle" => call[r].user = owner[key[r]]

DoorTypes == /\ door \in [Requests -> {"out", "auth", "in"}]
             /\ key \in [Requests -> AgentIDs \cup {None}]
             /\ since \in [Requests -> 0..MaxClock]
             /\ revokedAt \in [AgentIDs -> 0..MaxClock]
             /\ late \in [Requests -> BOOLEAN]

DoorInv == DoorTypes /\ DoorFollows

LEMMA DoorInvInductive ==
  ASSUME SP!IInv, DoorInv, [Next]_vars
  PROVE  DoorInv'
<1>0. Service!TypeOK
  BY ServiceFacts
<1>. USE <1>0, AgentEventsAssumption DEF DoorInv, DoorTypes, DoorFollows, service, request, count,
       Service!TypeOK, Service!Goto
<1>1. ASSUME NEW r \in Requests, Arrive(r) PROVE DoorInv'
  BY <1>1 DEF Arrive
<1>2. ASSUME NEW r \in Requests, Authenticate(r) PROVE DoorInv'
  <2>1. CASE LeaveDoor(r)
    BY <1>2, <2>1 DEF Authenticate, LeaveDoor
  <2>2. CASE /\ door' = [door EXCEPT ![r] = "in"] /\ revokedAt[key[r]] = 0
             /\ UNCHANGED <<key, since, late, ticket>>
    BY <1>2, <2>2 DEF Authenticate
  <2>. QED
    BY <1>2, <2>1, <2>2 DEF Authenticate
<1>3. ASSUME NEW r \in Requests, Handle(r) PROVE DoorInv'
  BY <1>3 DEF Handle, ActorOf, Service!CreateArrives, Service!DeleteArrives
<1>4. ASSUME NEW r \in Requests, Allow(r) \/ Stamp(r) \/ Save(r) \/ StatementFails(r)
      PROVE DoorInv'
  BY <1>4 DEF Allow, Service!Allow, Stamp, Service!Stamp, Save, Service!Save, Service!Written,
     StatementFails, Service!StatementFails, Service!Statements
<1>5. ASSUME NEW r \in Requests, Delete(r) PROVE DoorInv'
  BY <1>5 DEF Delete, Service!DeleteGet, Service!Delete, Service!Written
<1>6. ASSUME NEW r \in Requests, Return(r) PROVE DoorInv'
  BY <1>6 DEF Return, Service!Return, LeaveDoor
<1>7. CASE Revoke
  BY <1>7 DEF Revoke
<1>8. CASE Restart
  BY <1>8 DEF Restart, Service!Crash
<1>9. CASE Tick
  BY <1>9 DEF Tick, Service!Tick
<1>10. CASE UNCHANGED vars
  BY <1>10 DEF vars
<1>. QED
  BY <1>1, <1>2, <1>3, <1>4, <1>5, <1>6, <1>7, <1>8, <1>9, <1>10 DEF Next, RequestStep

LEMMA DoorInvariant == Spec => [](SP!IInv /\ DoorInv)
<1>1. Init => SP!IInv /\ DoorInv
  <2>1. Init => SP!Init
    BY DEF Init, Service!Init, SP!Init, Service!NoCall, SP!NoCall
  <2>2. Init => DoorInv
    BY AgentEventsAssumption DEF Init, Service!Init, DoorInv, DoorTypes, DoorFollows
  <2>. QED
    BY <2>1, <2>2, ServiceInductive
<1>2. SP!IInv /\ DoorInv /\ [Next]_vars => (SP!IInv /\ DoorInv)'
  BY ServiceInductive, ServiceMoves, DoorInvInductive
<1>. QED
  BY <1>1, <1>2, PTL DEF Spec

\* The two steps that change an event, and what each does to it.
LEMMA WritersOfEvents ==
  ASSUME SP!IInv, DoorInv, [Next]_vars, events' # events
  PROVE  \E r \in Requests :
           /\ InTime(r) /\ door[r] = "in" /\ Wrote(r)
           /\ \A q \in Requests : Wrote(q) => q = r
           /\ \A e \in EventIDs : events'[e] # events[e] =>
                (IF events[e] = None THEN events'[e] ELSE events[e]).user = call[r].user
<1>. USE ServiceFacts DEF Service!TypeOK, Service!Goto, service
<1>1. PICK r \in Requests : Save(r) \/ Delete(r)
  BY DEF Next, RequestStep, Arrive, Authenticate, Handle, Service!CreateArrives,
     Service!DeleteArrives, Allow, Service!Allow, Stamp, Service!Stamp, StatementFails,
     Service!StatementFails, Return, Service!Return, Revoke, Restart, Service!Crash,
     Tick, Service!Tick, vars
<1>2. CASE Save(r)
  <2>1. /\ pc[r] = "save" /\ pc'[r] \in {"ok", "internal"} /\ InTime(r)
        /\ \A q \in Requests \ {r} : pc'[q] = pc[q]
        /\ events' = [events EXCEPT ![call[r].id] = event[r]]
    BY <1>2 DEF Save, Service!Save, Service!Written
  <2>2. SP!IDsFollow /\ call[r].id \in EventIDs /\ events[call[r].id] = None
    BY <2>1 DEF SP!IInv, SP!IDsFollow, SP!Known, SP!Stored
  <2>3. event[r].user = call[r].user
    BY <2>1
  <2>. QED
    BY <2>1, <2>2, <2>3 DEF Wrote, DoorInv, DoorFollows
<1>3. CASE Delete(r)
  <2>1. Service!Delete(r) /\ InTime(r)
    BY <1>3 DEF Delete, Service!DeleteGet
  <2>2. /\ pc[r] = "delete" /\ pc'[r] \in {"ok", "internal"}
        /\ \A q \in Requests \ {r} : pc'[q] = pc[q]
        /\ call[r].id \in Service!Stored
        /\ events' = [events EXCEPT ![call[r].id] = None]
    BY <2>1 DEF Service!Delete, Service!Written
  <2>3. events[call[r].id].user = call[r].user /\ events[call[r].id] # None
    BY <2>2 DEF Service!Stored
  <2>. QED
    BY <2>1, <2>2, <2>3 DEF Wrote, DoorInv, DoorFollows
<1>. QED
  BY <1>1, <1>2, <1>3

\* RequireAgent looks at the key once, before the handler runs; still every change of
\* an event is made for the agent's user, by a request that came while the key was good.
THEOREM WritesAuthorized == Spec => WritesAreAuthorized
<1>1. SP!IInv /\ DoorInv /\ [Next]_vars =>
        [events' # events =>
           \E r \in Requests :
             /\ Wrote(r) /\ ~late[r]
             /\ \A e \in EventIDs : events'[e] # events[e] =>
                  owner[key[r]] = (IF events[e] = None THEN events'[e] ELSE events[e]).user]_vars
  <2>. SUFFICES ASSUME SP!IInv, DoorInv, [Next]_vars, events' # events
                PROVE  \E r \in Requests :
                         /\ Wrote(r) /\ ~late[r]
                         /\ \A e \in EventIDs : events'[e] # events[e] => owner[key[r]] =
                              (IF events[e] = None THEN events'[e] ELSE events[e]).user
    OBVIOUS
  <2>1. PICK r \in Requests :
           /\ door[r] = "in" /\ Wrote(r)
           /\ \A e \in EventIDs : events'[e] # events[e] =>
                (IF events[e] = None THEN events'[e] ELSE events[e]).user = call[r].user
    BY WritersOfEvents
  <2>2. ~late[r] /\ call[r].user = owner[key[r]]
    BY <2>1 DEF DoorInv, DoorFollows, Wrote
  <2>. QED
    BY <2>1, <2>2
<1>. QED
  BY <1>1, DoorInvariant, PTL DEF Spec, WritesAreAuthorized

\* A request that outlives its agent's revocation writes nothing once the router's
\* timeout has run from then.
THEOREM RevocationIsTimely == Spec => RevocationTakesHold
<1>1. SP!IInv /\ DoorInv /\ [Next]_vars =>
        [\A r \in Requests : Wrote(r) /\ revokedAt[key[r]] # 0 =>
           clock <= revokedAt[key[r]] + requestTimeout]_vars
  <2>. SUFFICES ASSUME SP!IInv, DoorInv, [Next]_vars, NEW r \in Requests, Wrote(r),
                       revokedAt[key[r]] # 0
                PROVE  clock <= revokedAt[key[r]] + requestTimeout
    OBVIOUS
  <2>1. InTime(r) /\ door[r] = "in"
    BY WritersOfEvents DEF Wrote
  <2>2. /\ since[r] <= revokedAt[key[r]] /\ since[r] \in Nat /\ revokedAt[key[r]] \in Nat
        /\ clock \in Nat /\ requestTimeout \in Nat
    BY <2>1, ServiceFacts, AgentEventsAssumption
    DEF DoorInv, DoorTypes, DoorFollows, Service!TypeOK
  <2>. QED
    BY <2>1, <2>2 DEF InTime
<1>. QED
  BY <1>1, DoorInvariant, PTL DEF Spec, RevocationTakesHold
-----------------------------------------------------------------------------
(***************************************************************************)
(* The quota.  An event is counted when its creation is allowed and made in *)
(* a later step, perhaps in another window; in between a ticket stands for  *)
(* it.  Of one window there are never more tickets and events than it has   *)
(* spent, nor, once it is over and its count is gone, than Max: no new      *)
(* ticket of it is given then.                                              *)
(***************************************************************************)
Max == limits[create].Max
Window == limits[create].Window
Over(s) == s.windowStart + Window <= clock

Waiting(s) == {r \in Requests : ticket[r] = s /\ pc[r] \in {"stamp", "save"}}
CountedIn(s) == {e \in EventIDs : counted[e] # None /\ counted[e].slot = s}
Held(s) == Cardinality(Waiting(s)) + Cardinality(CountedIn(s))

HeldWithinSpent ==
  \A s \in Quota!Slots : Held(s) <= Max /\ (~Over(s) => Held(s) <= spent[s])

\* A ticket is of its user's current or last window, and an event is dated by it.
TicketsFollow ==
  \A r \in Requests : pc[r] \in {"stamp", "save"} /\ ticket[r] # None =>
    /\ ticket[r].key = call[r].user
    /\ ticket[r].windowStart <= clock /\ since[r] < ticket[r].windowStart + Window
    /\ pc[r] = "save" => ticket[r].windowStart <= event[r].created /\ event[r].created <= clock

CountedFollow == \A e \in EventIDs : counted[e] # None => counted[e].slot.key = counted[e].user

QuotaTypes ==
  /\ spent \in [Quota!Slots -> 0..Max]
  /\ ticket \in [Requests -> Quota!Slots \cup {None}]
  /\ counted \in [EventIDs -> [user: Users, slot: Quota!Slots] \cup {None}]

Now == SP!IInv /\ DoorInv
CountInv == QuotaTypes /\ TicketsFollow /\ CountedFollow /\ DatedNearCounting

LEMMA Numbers ==
  /\ Max \in Nat \ {0} /\ Window \in Nat \ {0} /\ MaxClock \in Nat
  /\ requestTimeout \in Nat /\ requestTimeout <= Window
  /\ \A s \in Quota!Slots : /\ s.windowStart \in Nat /\ s.action = create /\ s # None
                            /\ limits[s.action].Max = Max /\ limits[s.action].Window = Window
                            /\ s = [action |-> create, key |-> s.key,
                                    windowStart |-> s.windowStart]
  /\ \A x \in [user: Users, slot: Quota!Slots] : x # None
  BY AgentEventsAssumption DEF Max, Window, Quota!Slots

\* The window of a call is the one the clock is in.
LEMMA SlotIsCurrent ==
  ASSUME clock \in 1..MaxClock, NEW u \in Users
  PROVE  /\ Quota!Slot(create, u) \in Quota!Slots /\ Quota!Slot(create, u).key = u
         /\ Quota!Slot(create, u).windowStart <= clock
         /\ clock < Quota!Slot(create, u).windowStart + Window
<1>1. ASSUME NEW w \in Nat \ {0}, NEW t \in Nat
      PROVE  /\ (t \div w) * w = t - (t % w) /\ t % w \in 0..(w - 1)
             /\ (t \div w) * w \in Nat /\ (t \div w) * w <= t /\ t < (t \div w) * w + w
  <2>1. (t \div w) * w = t - (t % w) /\ t % w \in 0..(w - 1) /\ t \div w \in Nat
    OBVIOUS
  <2>2. ASSUME NEW q \in Nat PROVE q * w \in Nat
    OBVIOUS
  <2>. QED
    BY <2>1, <2>2
<1>. DEFINE start == (clock \div limits[create].Window) * limits[create].Window
<1>2. clock \in Nat /\ clock <= MaxClock /\ MaxClock \in Nat /\ limits[create].Window \in Nat \ {0}
  BY AgentEventsAssumption
<1>3. start \in Nat /\ start <= clock /\ clock < start + limits[create].Window
  BY <1>1, <1>2
<1>. HIDE DEF start
<1>4. start \in 0..MaxClock
  BY <1>2, <1>3
<1>5. Quota!Slot(create, u) = [action |-> create, key |-> u, windowStart |-> start]
  BY DEF Quota!Slot, start
<1>. QED
  BY <1>3, <1>4, <1>5, AgentEventsAssumption DEF Quota!Slots, Window

LEMMA SpentStays ==
  ASSUME QuotaTypes, NEW s \in Quota!Slots
  PROVE  /\ Quota!Spend(s) => spent' \in [Quota!Slots -> 0..Max] /\ spent'[s] >= 1
         /\ Quota!Overdraw(s) => spent' \in [Quota!Slots -> 0..Max]
<1>1. ASSUME NEW rest PROVE Quota!Kept(rest) \in [Quota!Slots -> 0..Max]
  BY Numbers DEF Quota!Kept, QuotaTypes
<1>2. ASSUME Quota!Spend(s) PROVE spent' \in [Quota!Slots -> 0..Max] /\ spent'[s] >= 1
  <2>1. PICK rest : /\ Quota!Kept(rest)[s] < Max
                    /\ spent' = [Quota!Kept(rest) EXCEPT ![s] = @ + 1]
    BY <1>2, Numbers DEF Quota!Spend
  <2>2. Quota!Kept(rest)[s] + 1 \in 0..Max /\ Quota!Kept(rest)[s] + 1 >= 1
    BY <1>1, <2>1, Numbers
  <2>. QED
    BY <1>1, <2>1, <2>2
<1>3. ASSUME Quota!Overdraw(s) PROVE spent' \in [Quota!Slots -> 0..Max]
  BY <1>1, <1>3 DEF Quota!Overdraw
<1>. QED
  BY <1>2, <1>3
-----------------------------------------------------------------------------
LEMMA HeldIs ==
  ASSUME NEW s
  PROVE  /\ IsFiniteSet(Waiting(s)) /\ Cardinality(Waiting(s)) \in Nat
         /\ IsFiniteSet(CountedIn(s)) /\ Cardinality(CountedIn(s)) \in Nat
         /\ Held(s) \in Nat
<1>1. Waiting(s) \subseteq Requests /\ CountedIn(s) \subseteq EventIDs
  BY DEF Waiting, CountedIn
<1>2. /\ IsFiniteSet(Waiting(s)) /\ Cardinality(Waiting(s)) \in Nat
      /\ IsFiniteSet(CountedIn(s)) /\ Cardinality(CountedIn(s)) \in Nat
  BY <1>1, FS_Subset, FS_CardinalityType, AgentEventsAssumption
<1>. QED
  BY <1>2 DEF Held

LEMMA HeldAtMost ==
  ASSUME NEW s, NEW w, NEW c, IsFiniteSet(w), IsFiniteSet(c),
         Waiting(s)' \subseteq w, CountedIn(s)' \subseteq c
  PROVE  Held(s)' \in Nat /\ Held(s)' <= Cardinality(w) + Cardinality(c)
<1>1. /\ Cardinality(Waiting(s)') <= Cardinality(w) /\ Cardinality(Waiting(s)') \in Nat
      /\ Cardinality(CountedIn(s)') <= Cardinality(c) /\ Cardinality(CountedIn(s)') \in Nat
      /\ Cardinality(w) \in Nat /\ Cardinality(c) \in Nat
  BY FS_Subset, FS_CardinalityType
<1>. QED
  BY <1>1 DEF Held

LEMMA OneMore ==
  ASSUME NEW S, IsFiniteSet(S), NEW x
  PROVE  /\ IsFiniteSet(S \cup {x}) /\ Cardinality(S \cup {x}) \in Nat
         /\ Cardinality(S) \in Nat /\ Cardinality(S \cup {x}) <= Cardinality(S) + 1
<1>. DEFINE grown == S \cup {x}
<1>1. IsFiniteSet(grown)
      /\ (Cardinality(grown) = Cardinality(S) \/ Cardinality(grown) = Cardinality(S) + 1)
  BY FS_AddElement
<1>2. Cardinality(S) \in Nat
  BY FS_CardinalityType
<1>. HIDE DEF grown
<1>3. Cardinality(grown) \in Nat /\ Cardinality(grown) <= Cardinality(S) + 1
  BY <1>1, <1>2
<1>. QED
  BY <1>1, <1>2, <1>3 DEF grown

\* A step that gives no ticket, counts no event and does not touch the limiter.
LEMMA FewerHeld ==
  ASSUME QuotaTypes, HeldWithinSpent, UNCHANGED <<clock, spent>>,
         \A s \in Quota!Slots : Waiting(s)' \subseteq Waiting(s) /\ CountedIn(s)' \subseteq CountedIn(s)
  PROVE  HeldWithinSpent'
<1>. SUFFICES ASSUME NEW s \in Quota!Slots
              PROVE  Held(s)' <= Max /\ (~Over(s) => Held(s)' <= spent'[s])
  BY DEF HeldWithinSpent, Over, Max, Window, Quota!Slots
<1>1. Held(s)' \in Nat /\ Held(s)' <= Held(s)
  BY HeldIs, HeldAtMost DEF Held
<1>2. Held(s) \in Nat /\ Held(s) <= Max /\ (~Over(s) => Held(s) <= spent[s])
  BY HeldIs DEF HeldWithinSpent
<1>3. spent[s] \in Nat /\ Max \in Nat
  BY Numbers DEF QuotaTypes
<1>. QED
  BY <1>1, <1>2, <1>3
-----------------------------------------------------------------------------
(***************************************************************************)
(* A call on the limiter, and the steps after it.                           *)
(***************************************************************************)
\* What the limiter forgets of a window is forgotten with its tickets and events;
\* of a window it keeps there is at most one ticket more, for a call it grants.
LEMMA AllowKeepsHeld ==
  ASSUME Now, QuotaTypes, HeldWithinSpent, NEW r \in Requests, Allow(r)
  PROVE  HeldWithinSpent'
<1>. DEFINE current == Quota!Slot(create, Subject(r))
<1>1. /\ pc[r] = "allow" /\ UNCHANGED clock /\ pc'[r] \in {"stamp", "too_many"}
      /\ \A q \in Requests \ {r} : pc'[q] = pc[q]
      /\ clock \in 1..MaxClock /\ Subject(r) \in Users
  BY ServiceFacts DEF Now, Allow, Service!Allow, Service!Goto, Service!TypeOK, Subject
<1>2. PICK s \in Quota!Slots, new \in {0, 1} :
        /\ s = current /\ ~Over(s)
        /\ \/ new = 1 /\ pc'[r] = "stamp" /\ Quota!Spend(s)
           \/ new = 0 /\ pc'[r] = "too_many" /\ Quota!Overdraw(s)
        /\ Forget(r, s, new)
  <2>1. current \in Quota!Slots /\ ~Over(current)
    BY <1>1, SlotIsCurrent, Numbers DEF Over
  <2>2. PICK s \in Quota!Slots : s = current
    BY <2>1
  <2>3. CASE pc'[r] = "stamp" /\ Quota!Spend(current) /\ Forget(r, current, 1)
    BY <2>1, <2>2, <2>3
  <2>4. CASE pc'[r] = "too_many" /\ Quota!Overdraw(current) /\ Forget(r, current, 0)
    BY <2>1, <2>2, <2>4
  <2>. QED
    BY <2>3, <2>4 DEF Allow
<1>. HIDE DEF current
<1>3. spent' \in [Quota!Slots -> 0..Max] /\ (new = 1 => spent'[s] >= 1)
  BY <1>2, SpentStays
<1>. SUFFICES ASSUME NEW t \in Quota!Slots
              PROVE  Held(t)' <= Max /\ (~Over(t) => Held(t)' <= spent'[t])
  BY <1>1 DEF HeldWithinSpent, Over, Max, Window, Quota!Slots
<1>. DEFINE more == IF t = s THEN new ELSE 0
            token == IF more = 1 THEN {r} ELSE {}
<1>4. /\ Held(t) \in Nat /\ Held(t) <= Max /\ (~Over(t) => Held(t) <= spent[t])
      /\ spent[t] \in Nat /\ spent'[t] \in 0..Max /\ Max \in Nat \ {0} /\ more \in {0, 1}
      /\ more = 1 => spent'[t] >= 1 /\ ~Over(t)
  BY <1>2, <1>3, HeldIs, Numbers DEF HeldWithinSpent, QuotaTypes
<1>5. CASE spent'[t] < spent[t] + more
  <2>1. Waiting(t)' \subseteq token /\ CountedIn(t)' \subseteq {}
    BY <1>1, <1>2, <1>5, Numbers DEF Forget, Waiting, CountedIn, QuotaTypes
  <2>2. IsFiniteSet(token) /\ Cardinality(token) = more /\ IsFiniteSet({}) /\ Cardinality({}) = 0
    <3>1. IsFiniteSet({r}) /\ Cardinality({r}) = 1 /\ IsFiniteSet({}) /\ Cardinality({}) = 0
      BY FS_Singleton, FS_EmptySet
    <3>. HIDE DEF more
    <3>2. CASE more = 1
      BY <3>1, <3>2
    <3>3. CASE more = 0
      BY <3>1, <3>3
    <3>. QED
      BY <1>4, <3>2, <3>3
  <2>. HIDE DEF more, token
  <2>3. Held(t)' \in Nat /\ Held(t)' <= more
    BY <1>4, <2>1, <2>2, HeldAtMost
  <2>. QED
    BY <1>4, <2>3
<1>6. CASE ~(spent'[t] < spent[t] + more)
  <2>1. Waiting(t)' \subseteq Waiting(t) \cup token /\ CountedIn(t)' \subseteq CountedIn(t)
    BY <1>1, <1>2, Numbers DEF Forget, Waiting, CountedIn, QuotaTypes
  <2>2. /\ IsFiniteSet(Waiting(t) \cup token)
        /\ Cardinality(Waiting(t) \cup token) <= Cardinality(Waiting(t)) + more
        /\ Cardinality(Waiting(t) \cup token) \in Nat
    <3>1. IsFiniteSet(Waiting(t)) /\ Cardinality(Waiting(t)) \in Nat
      BY HeldIs
    <3>. HIDE DEF more
    <3>2. CASE more = 1
      BY <3>1, <3>2, OneMore
    <3>3. CASE more = 0
      <4>1. Waiting(t) \cup token = Waiting(t)
        BY <3>3
      <4>. QED
        BY <3>1, <3>3, <4>1
    <3>. QED
      BY <1>4, <3>2, <3>3
  <2>3. Held(t)' \in Nat /\ Held(t)' <= Cardinality(Waiting(t) \cup token) + Cardinality(CountedIn(t))
    BY <2>1, <2>2, HeldIs, HeldAtMost
  <2>4. Held(t)' <= Held(t) + more
    BY <1>4, <2>2, <2>3, HeldIs DEF Held
  <2>. HIDE DEF more
  <2>. QED
    BY <1>4, <1>6, <2>3, <2>4
<1>. QED
  BY <1>5, <1>6

\* An event takes the place of its ticket.
LEMMA SaveKeepsHeld ==
  ASSUME Now, QuotaTypes, HeldWithinSpent, NEW r \in Requests, Save(r)
  PROVE  HeldWithinSpent'
<1>1. /\ pc[r] = "save" /\ pc'[r] \in {"ok", "internal"} /\ UNCHANGED <<clock, spent, ticket>>
      /\ \A q \in Requests \ {r} : pc'[q] = pc[q]
  BY ServiceFacts DEF Now, Save, Service!Save, Service!Written, Service!Goto, Service!TypeOK
<1>2. PICK e \in EventIDs, k \in Quota!Slots \cup {None} :
        /\ k = ticket[r]
        /\ counted' = [counted EXCEPT ![e] =
                         IF k = None THEN None ELSE [user |-> call[r].user, slot |-> k]]
  BY <1>1, ServiceFacts DEF Now, Save, QuotaTypes
<1>. SUFFICES ASSUME NEW s \in Quota!Slots
              PROVE  Held(s)' <= Max /\ (~Over(s) => Held(s)' <= spent[s])
  BY <1>1 DEF HeldWithinSpent, Over, Max, Window, Quota!Slots
<1>3. s # None /\ Held(s) <= Max /\ (~Over(s) => Held(s) <= spent[s])
      /\ spent[s] \in Nat /\ Max \in Nat
  BY Numbers DEF HeldWithinSpent, QuotaTypes
<1>4. Held(s)' \in Nat /\ Held(s)' <= Held(s)
  <2>1. CASE k = s
    <3>1. /\ r \in Waiting(s) /\ Waiting(s)' \subseteq Waiting(s) \ {r}
          /\ CountedIn(s)' \subseteq CountedIn(s) \cup {e}
      BY <1>1, <1>2, <2>1 DEF Waiting, CountedIn, QuotaTypes
    <3>2. /\ IsFiniteSet(Waiting(s) \ {r})
          /\ Cardinality(Waiting(s) \ {r}) = Cardinality(Waiting(s)) - 1
      BY <3>1, HeldIs, FS_RemoveElement
    <3>3. /\ IsFiniteSet(CountedIn(s) \cup {e})
          /\ Cardinality(CountedIn(s) \cup {e}) <= Cardinality(CountedIn(s)) + 1
          /\ Cardinality(CountedIn(s) \cup {e}) \in Nat
      BY HeldIs, OneMore
    <3>4. Held(s)' \in Nat
          /\ Held(s)' <= Cardinality(Waiting(s) \ {r}) + Cardinality(CountedIn(s) \cup {e})
      BY <3>1, <3>2, <3>3, HeldAtMost
    <3>. QED
      BY <3>2, <3>3, <3>4, HeldIs DEF Held
  <2>2. CASE k # s
    <3>1. Waiting(s)' \subseteq Waiting(s) /\ CountedIn(s)' \subseteq CountedIn(s)
      BY <1>1, <1>2, <2>2, AgentEventsAssumption DEF Waiting, CountedIn, QuotaTypes
    <3>. QED
      BY <3>1, HeldIs, HeldAtMost DEF Held
  <2>. QED
    BY <2>1, <2>2
<1>. QED
  BY <1>3, <1>4, HeldIs

\* The count of a window that ends is lost, but no ticket of it is given any more.
LEMMA TickKeepsHeld ==
  ASSUME Now, QuotaTypes, HeldWithinSpent, Tick
  PROVE  HeldWithinSpent'
<1>1. /\ clock' = clock + 1 /\ clock \in Nat /\ UNCHANGED <<pc, ticket, counted>>
      /\ spent' = [s \in Quota!Slots |->
                     IF s.windowStart + limits[s.action].Window <= clock + 1 THEN 0 ELSE spent[s]]
  BY ServiceFacts DEF Now, Tick, Quota!Tick, Service!Tick, Service!TypeOK, Quota!Slots
<1>. SUFFICES ASSUME NEW s \in Quota!Slots
              PROVE  Held(s)' <= Max /\ (~Over(s)' => Held(s)' <= spent'[s])
  BY DEF HeldWithinSpent, Over, Max, Window, Quota!Slots
<1>2. Held(s)' = Held(s) /\ (~Over(s)' => ~Over(s) /\ spent'[s] = spent[s])
  BY <1>1, Numbers DEF Held, Waiting, CountedIn, Over, Window
<1>. QED
  BY <1>2 DEF HeldWithinSpent

LEMMA HeldInductive ==
  ASSUME Now, QuotaTypes, HeldWithinSpent, [Next]_vars
  PROVE  HeldWithinSpent'
<1>. USE ServiceFacts DEF Now, Service!TypeOK, Service!Goto, service, count, request, Waiting, CountedIn
<1>1. ASSUME NEW r \in Requests, Arrive(r) \/ Handle(r) PROVE HeldWithinSpent'
  BY <1>1, FewerHeld DEF Arrive, Handle, Service!CreateArrives, Service!DeleteArrives
<1>2. ASSUME NEW r \in Requests, Authenticate(r) \/ Return(r) PROVE HeldWithinSpent'
  <2>1. /\ UNCHANGED <<clock, spent, counted>>
        /\ ticket' = ticket \/ ticket' = [ticket EXCEPT ![r] = None]
        /\ pc' = pc \/ pc' = [pc EXCEPT ![r] = "idle"]
    BY <1>2 DEF Authenticate, Return, LeaveDoor, Service!Return
  <2>. QED
    BY <2>1, FewerHeld, Numbers DEF QuotaTypes
<1>3. ASSUME NEW r \in Requests, Stamp(r) \/ Delete(r) \/ StatementFails(r)
      PROVE  HeldWithinSpent'
  BY <1>3, FewerHeld DEF Stamp, Service!Stamp, Delete, Service!DeleteGet, Service!Delete,
     Service!Written, StatementFails, Service!StatementFails
<1>4. CASE Revoke \/ UNCHANGED vars
  BY <1>4, FewerHeld DEF Revoke, vars
<1>5. CASE Restart
  <2>1. /\ ticket' = [r \in Requests |-> None] /\ counted' = [e \in EventIDs |-> None]
        /\ spent' = [s \in Quota!Slots |-> 0]
    BY <1>5 DEF Restart, Quota!Restart, Quota!Slots
  <2>. SUFFICES ASSUME NEW s \in Quota!Slots
                PROVE  Held(s)' <= Max /\ Held(s)' <= spent'[s]
    BY DEF HeldWithinSpent, Over, Max, Window, Quota!Slots
  <2>2. Waiting(s)' \subseteq {} /\ CountedIn(s)' \subseteq {}
    BY <2>1, Numbers
  <2>3. Held(s)' \in Nat /\ Held(s)' <= 0
    BY <2>2, HeldAtMost, FS_EmptySet
  <2>. QED
    BY <2>1, <2>3, Numbers
<1>. QED
  BY <1>1, <1>2, <1>3, <1>4, <1>5, AllowKeepsHeld, SaveKeepsHeld, TickKeepsHeld
  DEF Next, RequestStep
-----------------------------------------------------------------------------
(***************************************************************************)
(* Windows and dates.                                                       *)
(***************************************************************************)
LEMMA ArriveKeepsCountInv ==
  ASSUME Now, CountInv, NEW r \in Requests, Arrive(r) \/ Authenticate(r) \/ Handle(r) \/ Return(r)
  PROVE  CountInv'
<1>. USE ServiceFacts, AgentEventsAssumption DEF Now, DoorInv, DoorTypes, DoorFollows, CountInv,
       QuotaTypes, TicketsFollow, CountedFollow, DatedNearCounting, Max, Window, Service!Stored,
       Service!TypeOK, Service!Goto, service, count, request, Quota!Slots
<1>1. CASE Arrive(r)
  BY <1>1 DEF Arrive
<1>2. CASE Authenticate(r)
  BY <1>2 DEF Authenticate, LeaveDoor
<1>3. CASE Handle(r)
  BY <1>3 DEF Handle, Service!CreateArrives, Service!DeleteArrives
<1>4. CASE Return(r)
  BY <1>4 DEF Return, LeaveDoor, Service!Return
<1>. QED
  BY <1>1, <1>2, <1>3, <1>4

\* A ticket is of the window the clock is in, in which its request came or before.
LEMMA AllowKeepsCountInv ==
  ASSUME Now, CountInv, NEW r \in Requests, Allow(r)
  PROVE  CountInv'
<1>1. /\ pc[r] = "allow" /\ UNCHANGED <<events, clock, call, event, request>>
      /\ pc' \in [Requests -> {pc[q] : q \in Requests} \cup {"stamp", "too_many"}]
      /\ pc'[r] \in {"stamp", "too_many"}
      /\ \A q \in Requests \ {r} : pc'[q] = pc[q]
      /\ clock \in 1..MaxClock /\ call[r].user \in Users
  BY ServiceFacts DEF Now, Allow, Service!Allow, Service!Goto, Service!TypeOK
<1>2. PICK s \in Quota!Slots, new \in {0, 1} :
        /\ s.key = call[r].user /\ s.windowStart <= clock /\ clock < s.windowStart + Window
        /\ spent' \in [Quota!Slots -> 0..Max] /\ Forget(r, s, new)
        /\ pc'[r] = "stamp" => new = 1
  <2>. DEFINE current == Quota!Slot(create, Subject(r))
  <2>1. /\ current \in Quota!Slots /\ current.key = call[r].user
        /\ current.windowStart <= clock /\ clock < current.windowStart + Window
    BY <1>1, SlotIsCurrent DEF Subject
  <2>2. PICK s \in Quota!Slots : s = current
    BY <2>1
  <2>3. spent' \in [Quota!Slots -> 0..Max]
    BY <2>2, SpentStays DEF Allow, CountInv
  <2>. HIDE DEF current
  <2>4. Forget(r, s, 1) \/ (Forget(r, s, 0) /\ pc'[r] = "too_many")
    BY <2>2 DEF Allow, current
  <2>. QED
    BY <2>1, <2>2, <2>3, <2>4
<1>3. /\ \A q \in Requests : ticket'[q] \in {ticket[q], None} \/ (q = r /\ ticket'[q] = s)
      /\ \A e \in EventIDs : counted'[e] \in {counted[e], None}
      /\ DOMAIN ticket' = Requests /\ DOMAIN counted' = EventIDs
      /\ ticket' = [q \in Requests |-> ticket'[q]]
      /\ counted' = [e \in EventIDs |-> counted'[e]]
  BY <1>2 DEF Forget
<1>4. QuotaTypes'
  BY <1>2, <1>3 DEF CountInv, QuotaTypes, Quota!Slots, Max
<1>5. since[r] <= clock /\ since[r] \in Nat /\ clock \in Nat /\ Window \in Nat
      /\ s.windowStart \in Nat
  BY <1>1, Numbers DEF Now, DoorInv, DoorFollows, DoorTypes
<1>6. TicketsFollow'
  <2>. SUFFICES ASSUME NEW q \in Requests, pc'[q] \in {"stamp", "save"}, ticket'[q] # None
                PROVE  /\ ticket'[q].key = call'[q].user
                       /\ ticket'[q].windowStart <= clock'
                       /\ since'[q] < ticket'[q].windowStart + Window
                       /\ pc'[q] = "save" => /\ ticket'[q].windowStart <= event'[q].created
                                             /\ event'[q].created <= clock'
    BY DEF TicketsFollow, Window
  <2>1. CASE q = r /\ ticket'[q] = s
    BY <1>1, <1>2, <1>5, <2>1 DEF request
  <2>2. CASE q # r /\ ticket'[q] = ticket[q]
    BY <1>1, <2>2 DEF request, CountInv, TicketsFollow
  <2>3. CASE q = r /\ ticket'[q] # s
    BY <1>1, <1>2, <2>3 DEF Forget
  <2>. QED
    BY <1>3, <2>1, <2>2, <2>3
<1>7. CountedFollow' /\ DatedNearCounting'
  BY <1>1, <1>3 DEF CountInv, CountedFollow, DatedNearCounting, Service!Stored
<1>. QED
  BY <1>4, <1>6, <1>7 DEF CountInv

LEMMA StampKeepsCountInv ==
  ASSUME Now, CountInv, NEW r \in Requests, Stamp(r) \/ StatementFails(r)
  PROVE  CountInv'
<1>. USE ServiceFacts DEF Now, DoorInv, DoorTypes, CountInv, QuotaTypes, TicketsFollow,
       CountedFollow, DatedNearCounting, Max, Window, Service!Stored, Service!TypeOK,
       Service!Goto, service, count, request, Quota!Slots
<1>1. CASE Stamp(r)
  BY <1>1 DEF Stamp, Service!Stamp
<1>2. CASE StatementFails(r)
  BY <1>2 DEF StatementFails, Service!StatementFails
<1>. QED
  BY <1>1, <1>2

LEMMA DeleteKeepsCountInv ==
  ASSUME Now, CountInv, NEW r \in Requests, Delete(r)
  PROVE  CountInv'
<1>1. /\ UNCHANGED <<clock, call, event, request, count>>
      /\ \A q \in Requests : pc'[q] \in {"stamp", "save"} => pc'[q] = pc[q]
      /\ \A e \in EventIDs : events'[e] \in {events[e], None}
  BY ServiceFacts DEF Now, Delete, Service!DeleteGet, Service!Delete, Service!Written,
     Service!Goto, Service!TypeOK
<1>2. QuotaTypes' /\ TicketsFollow' /\ CountedFollow'
  BY <1>1 DEF CountInv, QuotaTypes, TicketsFollow, CountedFollow, count, request, Max, Window,
     Quota!Slots
<1>3. DatedNearCounting'
  BY <1>1 DEF CountInv, DatedNearCounting, count, Service!Stored
<1>. QED
  BY <1>2, <1>3 DEF CountInv

\* The statement of a save runs within the request's time, which began before the
\* window of its ticket was over: the date it writes is less than a window later.
LEMMA SaveKeepsCountInv ==
  ASSUME Now, CountInv, NEW r \in Requests, Save(r)
  PROVE  CountInv'
<1>1. /\ pc[r] = "save" /\ pc'[r] \in {"ok", "internal"}
      /\ \A q \in Requests \ {r} : pc'[q] = pc[q]
      /\ UNCHANGED <<clock, call, event, request, spent, ticket>>
      /\ clock \in Nat /\ event[r].created \in Nat /\ InTime(r)
      /\ events' = [events EXCEPT ![call[r].id] = event[r]] /\ events \in [EventIDs -> Service!Row \cup {None}]
      /\ call[r].id \in EventIDs /\ call[r].user \in Users
      /\ since[r] \in Nat
  BY ServiceFacts DEF Now, Save, Service!Save, Service!Written, Service!Goto, Service!TypeOK,
     request, DoorInv, DoorTypes, Service!Row
<1>2. PICK e \in EventIDs, k \in Quota!Slots \cup {None} :
        /\ e = call[r].id /\ k = ticket[r]
        /\ counted' = [counted EXCEPT ![e] =
                         IF k = None THEN None ELSE [user |-> call[r].user, slot |-> k]]
  BY <1>1 DEF Save, CountInv, QuotaTypes
<1>3. QuotaTypes'
  <2>1. k # None => [user |-> call[r].user, slot |-> k] \in [user: Users, slot: Quota!Slots]
    BY <1>1
  <2>2. QuotaTypes
    BY DEF CountInv
  <2>. QED
    BY <1>1, <1>2, <2>1, <2>2 DEF QuotaTypes, Quota!Slots, Max
<1>4. TicketsFollow'
  BY <1>1 DEF CountInv, TicketsFollow, request, Window
<1>5. k # None => /\ k.key = call[r].user /\ k.windowStart \in Nat
                  /\ k.windowStart <= event[r].created
                  /\ event[r].created < k.windowStart + 2 * Window
  <2>. SUFFICES ASSUME k # None
                PROVE  /\ k.key = call[r].user /\ k.windowStart \in Nat
                       /\ k.windowStart <= event[r].created
                       /\ event[r].created < k.windowStart + 2 * Window
    OBVIOUS
  <2>1. /\ k.key = call[r].user /\ since[r] < k.windowStart + Window
        /\ k.windowStart <= event[r].created /\ event[r].created <= clock
    BY <1>1, <1>2 DEF CountInv, TicketsFollow
  <2>2. clock <= since[r] + requestTimeout /\ requestTimeout <= Window
        /\ requestTimeout \in Nat /\ Window \in Nat /\ k.windowStart \in Nat
    BY <1>1, Numbers DEF InTime
  <2>. QED
    BY <1>1, <2>1, <2>2
<1>6. CountedFollow'
  BY <1>2, <1>5 DEF CountInv, QuotaTypes, CountedFollow
<1>7. DatedNearCounting'
  <2>. SUFFICES ASSUME NEW d \in EventIDs, events'[d] # None, counted'[d] # None
                PROVE  /\ counted'[d].slot.windowStart <= events'[d].created
                       /\ events'[d].created < counted'[d].slot.windowStart + 2 * Window
    BY DEF DatedNearCounting, Service!Stored, Window
  <2>1. CASE d = e
    BY <1>1, <1>2, <1>5, <2>1 DEF CountInv, QuotaTypes
  <2>2. CASE d # e
    BY <1>1, <1>2, <2>2 DEF CountInv, QuotaTypes, DatedNearCounting, Service!Stored, Window
  <2>. QED
    BY <2>1, <2>2
<1>. QED
  BY <1>3, <1>4, <1>6, <1>7 DEF CountInv

LEMMA CountInvInductive ==
  ASSUME Now, CountInv, [Next]_vars
  PROVE  CountInv'
<1>1. CASE Revoke \/ UNCHANGED vars
  BY <1>1 DEF Revoke, vars, service, request, count, CountInv, QuotaTypes, TicketsFollow,
     CountedFollow, DatedNearCounting, Service!Stored, Max, Window, Quota!Slots
<1>2. CASE Restart
  <2>1. /\ ticket' = [r \in Requests |-> None] /\ counted' = [e \in EventIDs |-> None]
        /\ spent' = [s \in Quota!Slots |-> 0]
    BY <1>2 DEF Restart, Quota!Restart, Quota!Slots
  <2>2. QuotaTypes'
    BY <2>1, Numbers DEF QuotaTypes, Quota!Slots, Max
  <2>. QED
    BY <2>1, <2>2 DEF CountInv, TicketsFollow, CountedFollow, DatedNearCounting, Service!Stored
<1>3. CASE Tick
  <2>1. /\ clock' = clock + 1 /\ clock \in Nat
        /\ UNCHANGED <<events, pc, call, event, request, ticket, counted>>
        /\ spent' = [s \in Quota!Slots |->
                       IF s.windowStart + limits[s.action].Window <= clock + 1
                       THEN 0 ELSE spent[s]]
    BY <1>3, ServiceFacts
    DEF Now, Tick, Quota!Tick, Service!Tick, Service!TypeOK, Quota!Slots, request
  <2>2. QuotaTypes'
    <3>1. spent' \in [Quota!Slots -> 0..Max]
      BY <2>1, Numbers DEF CountInv, QuotaTypes
    <3>2. UNCHANGED <<Quota!Slots, Max>>
      BY DEF Quota!Slots, Max
    <3>. QED
      BY <2>1, <3>1, <3>2 DEF CountInv, QuotaTypes
  <2>3. TicketsFollow'
    <3>1. \A q \in Requests : pc[q] = "save" => event[q].created \in Nat
      BY ServiceFacts DEF Now, Service!TypeOK, Service!Row
    <3>2. \A q \in Requests : ticket[q] # None => ticket[q].windowStart \in Nat
      BY Numbers DEF CountInv, QuotaTypes
    <3>. QED
      BY <2>1, <3>1, <3>2 DEF CountInv, TicketsFollow, request, Window
  <2>4. CountedFollow' /\ DatedNearCounting'
    BY <2>1 DEF CountInv, CountedFollow, DatedNearCounting, Service!Stored
  <2>. QED
    BY <2>2, <2>3, <2>4 DEF CountInv
<1>. QED
  BY <1>1, <1>2, <1>3, ArriveKeepsCountInv, AllowKeepsCountInv, StampKeepsCountInv,
     SaveKeepsCountInv, DeleteKeepsCountInv
  DEF Next, RequestStep

LEMMA CountInvariant == Spec => [](Now /\ CountInv /\ HeldWithinSpent)
<1>1. Init => CountInv
  BY Numbers DEF Init, Service!Init, CountInv, QuotaTypes, TicketsFollow, CountedFollow,
     DatedNearCounting, Service!Stored
<1>2. Init => HeldWithinSpent
  <2>. SUFFICES ASSUME Init, NEW s \in Quota!Slots
                PROVE  Held(s) <= Max /\ Held(s) <= spent[s]
    BY DEF HeldWithinSpent
  <2>1. Waiting(s) = {} /\ CountedIn(s) = {}
    BY DEF Init, Service!Init, Waiting, CountedIn
  <2>2. Held(s) = 0
    BY <2>1, FS_EmptySet DEF Held
  <2>3. spent[s] = 0
    BY DEF Init
  <2>. QED
    BY <2>2, <2>3, Numbers
<1>3. Now /\ CountInv /\ HeldWithinSpent /\ [Next]_vars => (CountInv /\ HeldWithinSpent)'
  BY CountInvInductive, HeldInductive DEF CountInv
<1>. QED
  BY <1>1, <1>2, <1>3, DoorInvariant, PTL DEF Spec, Now
-----------------------------------------------------------------------------
\* The state of the service, the door, the limiter and what is noted of them.
THEOREM TypeCorrect == Spec => []TypeOK
<1>1. Now /\ CountInv => TypeOK
  BY ServiceFacts DEF Now, DoorInv, DoorTypes, DoorFollows, CountInv, QuotaTypes, TypeOK, Max
<1>. QED
  BY <1>1, CountInvariant, PTL

\* Limiter.Allow and Save are two steps with a date between them, and a request may
\* fail after either or be tried again: still no more events are made of one window
\* than RATE_LIMIT_EVENTS_PER_DAY, by whichever of a user's agents.
THEOREM QuotaForEvents == Spec => []EventsWithinQuota
<1>1. Now /\ CountInv /\ HeldWithinSpent => EventsWithinQuota
  <2>. SUFFICES ASSUME Now, CountInv, HeldWithinSpent, NEW u \in Users, NEW s \in Quota!Slots
                PROVE  Cardinality({e \in EventIDs :
                          /\ counted[e] # None /\ counted[e].user = u
                          /\ counted[e].slot.windowStart = s.windowStart}) <= Max
    BY DEF EventsWithinQuota, Max
  <2>. DEFINE made == {e \in EventIDs : /\ counted[e] # None /\ counted[e].user = u
                                        /\ counted[e].slot.windowStart = s.windowStart}
              slot == [action |-> create, key |-> u, windowStart |-> s.windowStart]
  <2>1. slot \in Quota!Slots
    BY AgentEventsAssumption DEF Quota!Slots
  <2>2. \A e \in made : counted[e].slot = slot
    BY Numbers DEF CountInv, QuotaTypes, CountedFollow
  <2>3. made \subseteq CountedIn(slot)
    BY <2>2 DEF CountedIn
  <2>4. Held(slot) <= Max
    BY <2>1 DEF HeldWithinSpent
  <2>. HIDE DEF made, slot
  <2>5. Cardinality(made) <= Cardinality(CountedIn(slot)) /\ Cardinality(made) \in Nat
    BY <2>3, HeldIs, FS_Subset, FS_CardinalityType
  <2>. QED
    BY <2>4, <2>5, HeldIs, Numbers DEF Held, made
<1>. QED
  BY <1>1, CountInvariant, PTL

\* The window is read in Allow and CreatedAt after it: the router's timeout is what
\* keeps the two from lying more than one window apart.
THEOREM DatesFollowCounting == Spec => []DatedNearCounting
<1>1. CountInv => DatedNearCounting
  BY DEF CountInv
<1>. QED
  BY <1>1, CountInvariant, PTL
-----------------------------------------------------------------------------
(***************************************************************************)
(* What EventService implements, the routes implement.                      *)
(***************************************************************************)

\* The door, the limiter, the timeout and the revocations in front of the service
\* only leave steps of it out: the events routes are the atomic store too.
THEOREM RoutesImplementStore == Spec => SP!ImplementsStore
<1>1. Init => SP!Init
  BY DEF Init, Service!Init, SP!Init, Service!NoCall, SP!NoCall
<1>2. [Next]_vars => [SP!Next]_(SP!vars)
  BY ServiceMoves
<1>3. Spec => SP!Spec
  BY <1>1, <1>2, PTL DEF Spec, SP!Spec
<1>4. SP!Spec => SP!ImplementsStore
  BY SP!StoreImplemented, AgentEventsAssumption DEF SP!Row, Service!Row
<1>. QED
  BY <1>3, <1>4
=============================================================================
