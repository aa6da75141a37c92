-------------------------- MODULE FixedWindowQuota --------------------------
(***************************************************************************)
(* What a fixed-window rate limiter promises, without saying how it counts: *)
(* in every window of an action a key is granted its first Max calls and    *)
(* refused every later one.  Its memory is bounded and is not durable: a    *)
(* call that finds Capacity windows running forgets just as many of them as *)
(* makes room for one, and a restart forgets all.  RateLimiter implements   *)
(* this specification; AgentEvents and ExchangeDoor are written on top of   *)
(* it.                                                                      *)
(***************************************************************************)
EXTENDS Naturals, FiniteSets

CONSTANTS Keys,      \* what is limited: "user:<id>" or "ip:<address>"
          limits,    \* [limited action -> [Max, Window]]
          Capacity,  \* running windows it can remember
          MaxClock   \* bound on the clock

VARIABLES clock,     \* seconds
          spent,     \* calls granted, per running window, since it was last forgotten
          reply      \* the answer to the latest call on a limited action

Slots == [action: DOMAIN limits, key: Keys, windowStart: 0..MaxClock]

\* The slot of a call is that of the whole window the clock is in.
Slot(action, key) ==
  [action |-> action, key |-> key,
   windowStart |-> (clock \div limits[action].Window) * limits[action].Window]

Running == {s \in Slots : spent[s] > 0}

Init == /\ clock = 0
        /\ spent = [s \in Slots |-> 0]
        /\ reply = <<>>

\* What a call may leave of the running windows.
Remembered ==
  {rest \in SUBSET Running :
     IF Cardinality(Running) < Capacity
     THEN rest = Running ELSE Cardinality(rest) + 1 = Capacity}

Kept(rest) == [s \in Slots |-> IF s \in rest THEN spent[s] ELSE 0]

\* A call in slot s is granted, or finds its quota spent.
Spend(s) == \E rest \in Remembered :
              /\ Kept(rest)[s] < limits[s.action].Max
              /\ spent' = [Kept(rest) EXCEPT ![s] = @ + 1]

Overdraw(s) == \E rest \in Remembered :
                 /\ Kept(rest)[s] = limits[s.action].Max
                 /\ spent' = Kept(rest)

Grant(s) == UNCHANGED clock /\ reply' = <<s, TRUE>> /\ Spend(s)
Refuse(s) == UNCHANGED clock /\ reply' = <<s, FALSE>> /\ Overdraw(s)

\* The count of a window that ends is of no more use.
Tick == /\ clock' = clock + 1
        /\ spent' = [s \in Slots |-> IF s.windowStart + limits[s.action].Window <= clock + 1
                                     THEN 0 ELSE spent[s]]
        /\ UNCHANGED reply

Restart == /\ UNCHANGED <<clock, reply>>
           /\ spent' = [s \in Slots |-> 0]

Next == \/ Tick
        \/ Restart
        \/ \E action \in DOMAIN limits, key \in Keys :
              Grant(Slot(action, key)) \/ Refuse(Slot(action, key))

Spec == Init /\ [][Next]_<<clock, spent, reply>>
=============================================================================
