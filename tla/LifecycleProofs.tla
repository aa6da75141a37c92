-------------------------- MODULE LifecycleProofs --------------------------
(***************************************************************************)
(* Proofs about Lifecycle: its type invariant, and its safety properties    *)
(* from one inductive invariant that ties each part of the process to how   *)
(* many hooks are started and not yet stopped.                              *)
(***************************************************************************)
EXTENDS Lifecycle, SequenceTheorems, TLAPS

Constructing == {"load", "open", "migrate", "verifier"}

\* The constructors append the hooks in one order.
HooksInOrder ==
  /\ main = "load" => Len(hooks) = 0
  /\ main = "open" => Len(hooks) = 1
  /\ main \in {"migrate", "verifier"} => Len(hooks) = 2
  /\ main \in {"starting", "running"} \cup Stopping =>
       Len(hooks) = 4 /\ hooks[3] = "server" /\ hooks[4] = "cleanup"
  /\ main \notin {"load", "exited"} => hooks[1] = "logger"
  /\ main \notin {"load", "open", "exited"} => hooks[2] = "pool"

\* started says how far the start has come, and the stop.
StartedFollows ==
  /\ main \in Constructing => started = 0
  /\ main = "running" => started = 4
  /\ main = "shutdown" => started = 3
  /\ main = "closing" => started = 2

PoolFollows ==
  /\ main \in {"load", "open"} => pool = "none"
  /\ main \in {"migrate", "verifier", "starting", "running", "shutdown"} => pool = "open"
  /\ main = "closing" => pool = "closing"
  /\ main = "stopping" => pool = IF started >= 2 THEN "open" ELSE "closed"
  /\ Alive /\ pool = "closed" => InUse = {}

SchemaComplete ==
  main \in {"verifier", "starting", "running"} \cup Stopping => version = latestVersion

ListeningFollows ==
  Alive /\ listening => started >= 3 /\ main \in {"starting", "running", "stopping"}

\* The loop runs only between its two hooks, or is cancelled.
CleanerFollows ==
  /\ Alive => cleaner = "none" \/ cancelled \/ started = 4
  /\ main \in Stopping /\ ~failed /\ started <= 3 => cancelled

FailedFollows == main \in Booting \cup {"running"} => ~failed

\* Requests outlive srv.Shutdown only when its time was up.
RequestsFollow ==
  /\ Alive /\ started <= 2 /\ InProgress # {} =>
       main \in Stopping /\ failed /\ stopAge >= shutdownTimeout
  /\ main = "shutdown" => hookAge <= stopAge

ExitFollows == Alive => exit = "none"

IInv == /\ TypeOK
        /\ HooksInOrder /\ StartedFollows /\ PoolFollows /\ SchemaComplete
        /\ ListeningFollows /\ CleanerFollows /\ FailedFollows /\ RequestsFollow
        /\ ExitFollows /\ CleanExit /\ NoFalseAlarm
-----------------------------------------------------------------------------
\* The parts of TypeOK: what there is of sequences, of Booleans, and the rest.
HooksTyped == hooks \in Seq({"logger", "pool", "server", "cleanup"}) /\ started \in 0..Len(hooks)
FlagsTyped == /\ failed \in BOOLEAN /\ reachable \in BOOLEAN
              /\ listening \in BOOLEAN /\ cancelled \in BOOLEAN
OthersTyped ==
  /\ main \in {"exited", "running"} \cup Booting \cup Stopping
  /\ exit \in {"none", "ok", "error", "killed"}
  /\ version \in 0..latestVersion
  /\ pool \in {"none", "open", "closing", "closed"}
  /\ stopAge \in 0..stopTimeout
  /\ hookAge \in 0..shutdownTimeout
  /\ pc \in [Requests -> {"idle", "reading", "waiting", "query", "refused"}]
  /\ cleaner \in {"none", "wants", "query", "waiting", "done"}
  /\ alarm \in {"none", "postgres", "closed_pool"}

LEMMA TypeParts == TypeOK <=> HooksTyped /\ FlagsTyped /\ OthersTyped
BY DEF TypeOK, HooksTyped, FlagsTyped, OthersTyped

\* The hook that is started next, and the one that is stopped next.
LEMMA StartsAt ==
  ASSUME IInv
  PROVE  /\ Starts("logger") => started = 0
         /\ Starts("pool") => started = 1
         /\ Starts("server") => started = 2
         /\ Starts("cleanup") => started = 3
<1>1. main = "starting" => started \in 0..4
  BY DEF IInv, TypeOK, HooksInOrder
<1>. QED
  BY <1>1 DEF IInv, HooksInOrder, Starts

LEMMA StopsAt ==
  ASSUME IInv
  PROVE  /\ Stops("logger") => started = 1
         /\ Stops("pool") => started = 2
         /\ Stops("server") => started = 3
         /\ Stops("cleanup") => started = 4
<1>1. main = "stopping" => started \in 0..4
  BY DEF IInv, TypeOK, HooksInOrder, Stopping
<1>. QED
  BY <1>1 DEF IInv, HooksInOrder, Stops, Stopping

Hooks == {"logger", "pool", "server", "cleanup"}

\* What Open and NewServer do to the list of hooks.
LEMMA AppendToOne ==
  ASSUME NEW S, NEW s \in Seq(S), NEW e \in S, Len(s) = 1
  PROVE  Len(Append(s, e)) = 2 /\ Append(s, e)[1] = s[1] /\ Append(s, e)[2] = e
BY AppendProperties

LEMMA ConcatToTwo ==
  ASSUME NEW S, NEW s \in Seq(S), NEW t \in Seq(S), Len(s) = 2, Len(t) = 2
  PROVE  /\ Len(s \o t) = 4
         /\ (s \o t)[1] = s[1] /\ (s \o t)[2] = s[2]
         /\ (s \o t)[3] = t[1] /\ (s \o t)[4] = t[2]
<1>. DEFINE u == s \o t
<1>1. Len(u) = Len(s) + Len(t)
  BY ConcatProperties
<1>2. \A i \in 1..Len(s) + Len(t) : u[i] = IF i <= Len(s) THEN s[i] ELSE t[i - Len(s)]
  BY ConcatProperties
<1>. HIDE DEF u
<1>3. Len(u) = 4 /\ u[1] = s[1] /\ u[2] = s[2] /\ u[3] = t[1] /\ u[4] = t[2]
  BY <1>1, <1>2
<1>. QED
  BY <1>3 DEF u

LEMMA OpenAppends ==
  ASSUME IInv, main = "open"
  PROVE  /\ Len(Append(hooks, "pool")) = 2
         /\ Append(hooks, "pool")[1] = "logger" /\ Append(hooks, "pool")[2] = "pool"
<1>1. hooks \in Seq(Hooks) /\ Len(hooks) = 1 /\ hooks[1] = "logger"
  BY TypeParts DEF IInv, HooksInOrder, HooksTyped, Hooks
<1>2. "pool" \in Hooks
  BY DEF Hooks
<1>. QED
  BY <1>1, <1>2, AppendToOne

LEMMA NewServerAppends ==
  ASSUME IInv, main = "verifier"
  PROVE  LET h == hooks \o <<"server", "cleanup">>
         IN  /\ Len(h) = 4 /\ h[1] = "logger" /\ h[2] = "pool"
             /\ h[3] = "server" /\ h[4] = "cleanup"
<1>1. hooks \in Seq(Hooks) /\ Len(hooks) = 2 /\ hooks[1] = "logger" /\ hooks[2] = "pool"
  BY TypeParts DEF IInv, HooksInOrder, HooksTyped, Hooks
<1>. DEFINE t == <<"server", "cleanup">>
<1>2. t \in Seq(Hooks) /\ Len(t) = 2 /\ t[1] = "server" /\ t[2] = "cleanup"
  BY DEF Hooks
<1>. HIDE DEF t
<1>3. /\ Len(hooks \o t) = 4
      /\ (hooks \o t)[1] = "logger" /\ (hooks \o t)[2] = "pool"
      /\ (hooks \o t)[3] = "server" /\ (hooks \o t)[4] = "cleanup"
  BY <1>1, <1>2, ConcatToTwo
<1>. QED
  BY <1>3 DEF t

\* The cleanup loop meets no closed pool unless it is cancelled.
LEMMA CleanerHasPool ==
  ASSUME IInv, Alive, cleaner = "wants", ~cancelled
  PROVE  pool \notin {"closing", "closed"}
<1>1. started = 4
  BY DEF IInv, CleanerFollows
<1>2. main \in {"starting", "running", "stopping"}
  BY <1>1, TypeParts
  DEF IInv, StartedFollows, OthersTyped, Alive, Booting, Stopping, Constructing
<1>. QED
  BY <1>1, <1>2 DEF IInv, PoolFollows

\* A request that goes anywhere but to a statement starts none.
LEMMA NoNewQuery ==
  ASSUME OthersTyped, NEW r \in Requests, NEW step, step # "query", Goto(r, step),
         \A q \in Requests : pc[q] # "query"
  PROVE  \A q \in Requests : pc'[q] # "query"
BY DEF OthersTyped, Goto

LEMMA NumbersAre == IInv => stopAge \in Nat /\ hookAge \in Nat /\ started \in Nat
BY TypeParts, LifecycleAssumption DEF IInv, OthersTyped, HooksTyped

LEMMA IInvInit == Init => IInv
<1>. SUFFICES ASSUME Init PROVE IInv
  OBVIOUS
<1>1. HooksTyped
  BY DEF Init, HooksTyped
<1>2. OthersTyped
  BY LifecycleAssumption DEF Init, OthersTyped
<1>3. TypeOK
  <2>1. FlagsTyped
    BY Zenon DEF Init, FlagsTyped
  <2>. QED
    BY <1>1, <1>2, <2>1, TypeParts
<1>4. Len(hooks) = 0
  BY DEF Init
<1>. QED
  BY <1>3, <1>4
  DEF Init, IInv, HooksInOrder, StartedFollows, PoolFollows, SchemaComplete,
      ListeningFollows, CleanerFollows, FailedFollows, RequestsFollow, ExitFollows,
      CleanExit, NoFalseAlarm, Alive, Booting, Stopping, Constructing
-----------------------------------------------------------------------------
LEMMA OthersNext == IInv /\ [Next]_vars => OthersTyped'
<1>. SUFFICES ASSUME IInv, [Next]_vars PROVE OthersTyped'
  OBVIOUS
<1>0. OthersTyped
  BY TypeParts DEF IInv
<1>. USE <1>0, LifecycleAssumption DEF OthersTyped, Booting, Stopping, process, outside, serving
<1>1. CASE Boot
  BY <1>1 DEF Boot
<1>2. CASE Load
  BY <1>2 DEF Load, Exit, ConstructorFails
<1>3. CASE Open
  BY <1>3 DEF Open, Exit, ConstructorFails
<1>4. CASE Migrate
  BY <1>4 DEF Migrate, Exit, ConstructorFails
<1>5. CASE NewServer
  BY <1>5 DEF NewServer, Exit, ConstructorFails
<1>6. CASE StartNothing
  BY <1>6, StartsAt DEF StartNothing, Starts
<1>7. CASE StartServer
  BY <1>7, StartsAt DEF StartServer, Starts
<1>8. CASE StartCleanup
  BY <1>8, StartsAt DEF StartCleanup, Starts
<1>9. CASE Running
  BY <1>9 DEF Running
<1>10. CASE StopCleanup
  BY <1>10, StopsAt DEF StopCleanup, Stops
<1>11. CASE StopServer
  BY <1>11, StopsAt DEF StopServer, Stops
<1>12. CASE ShutdownEnds
  BY <1>12 DEF ShutdownEnds
<1>13. CASE StopPool
  BY <1>13, StopsAt DEF StopPool, Stops
<1>14. CASE CloseEnds
  BY <1>14 DEF CloseEnds
<1>15. CASE StopLogger
  BY <1>15, StopsAt DEF StopLogger, Stops
<1>16. CASE Stopped
  BY <1>16 DEF Stopped, Exit
<1>17. CASE StopTimesOut
  BY <1>17 DEF StopTimesOut, Exit
<1>18. CASE Signal
  BY <1>18 DEF Signal
<1>19. CASE ServeFails
  BY <1>19 DEF ServeFails
<1>20. CASE CleanerAcquires
  BY <1>20 DEF CleanerAcquires, ConnFree
<1>21. CASE CleanerDeletes
  BY <1>21 DEF CleanerDeletes
<1>22. CASE CleanerWaits
  BY <1>22 DEF CleanerWaits
<1>23. CASE PostgresHangsOrReturns
  BY <1>23 DEF PostgresHangsOrReturns
<1>24. CASE Crash
  BY <1>24 DEF Crash, Exit
<1>25. CASE Tick
  BY <1>25 DEF Tick
<1>26. ASSUME NEW r \in Requests, Arrive(r) PROVE OthersTyped'
  BY <1>26 DEF Arrive, Goto
<1>27. ASSUME NEW r \in Requests, Handle(r) PROVE OthersTyped'
  BY <1>27 DEF Handle, Goto
<1>28. ASSUME NEW r \in Requests, Acquire(r) PROVE OthersTyped'
  BY <1>28 DEF Acquire, ConnFree, Goto
<1>29. ASSUME NEW r \in Requests, QueryEnds(r) PROVE OthersTyped'
  BY <1>29 DEF QueryEnds, Goto
<1>30. ASSUME NEW r \in Requests, RequestFails(r) PROVE OthersTyped'
  BY <1>30 DEF RequestFails, Goto
<1>31. CASE UNCHANGED vars
  BY <1>31 DEF vars
<1>. QED
  BY <1>1, <1>2, <1>3, <1>4, <1>5, <1>6, <1>7, <1>8, <1>9, <1>10, <1>11, <1>12, <1>13, <1>14, <1>15, <1>16, <1>17, <1>18, <1>19, <1>20, <1>21, <1>22, <1>23, <1>24, <1>25, <1>26, <1>27, <1>28, <1>29, <1>30, <1>31
     DEF Next, BootStep, StopStep, RequestStep, CleanerStep

LEMMA HooksNext == IInv /\ [Next]_vars => HooksTyped'
<1>. SUFFICES ASSUME IInv, [Next]_vars PROVE HooksTyped'
  OBVIOUS
<1>0. HooksTyped /\ OthersTyped
  BY TypeParts DEF IInv
<1>. USE <1>0, LifecycleAssumption DEF HooksTyped, process, outside, serving
<1>1. CASE Boot
  BY <1>1 DEF Boot
<1>2. CASE Load
  BY <1>2 DEF Load, Exit, ConstructorFails
<1>3. CASE Open
  BY <1>3 DEF Open, Exit, ConstructorFails
<1>4. CASE Migrate
  BY <1>4 DEF Migrate, Exit, ConstructorFails
<1>5. CASE NewServer
  <2>1. <<"server", "cleanup">> \in Seq({"logger", "pool", "server", "cleanup"})
    OBVIOUS
  <2>2. CASE hooks' = hooks \o <<"server", "cleanup">> /\ started' = started
    BY <2>1, <2>2, ConcatProperties
  <2>3. CASE UNCHANGED <<hooks, started>>
    BY <2>3
  <2>. QED
    BY <1>5, <2>2, <2>3 DEF NewServer, Exit, ConstructorFails
<1>6. CASE StartNothing
  BY <1>6, StartsAt DEF StartNothing, Starts
<1>7. CASE StartServer
  BY <1>7, StartsAt DEF StartServer, Starts
<1>8. CASE StartCleanup
  BY <1>8, StartsAt DEF StartCleanup, Starts
<1>9. CASE Running
  BY <1>9 DEF Running
<1>10. CASE StopCleanup
  BY <1>10, StopsAt DEF StopCleanup, Stops
<1>11. CASE StopServer
  BY <1>11, StopsAt DEF StopServer, Stops
<1>12. CASE ShutdownEnds
  BY <1>12 DEF ShutdownEnds, IInv, StartedFollows
<1>13. CASE StopPool
  BY <1>13, StopsAt DEF StopPool, Stops
<1>14. CASE CloseEnds
  BY <1>14 DEF CloseEnds, IInv, StartedFollows
<1>15. CASE StopLogger
  BY <1>15, StopsAt DEF StopLogger, Stops
<1>16. CASE Stopped
  BY <1>16 DEF Stopped, Exit
<1>17. CASE StopTimesOut
  BY <1>17 DEF StopTimesOut, Exit
<1>18. CASE Signal
  BY <1>18 DEF Signal
<1>19. CASE ServeFails
  BY <1>19 DEF ServeFails
<1>20. CASE CleanerAcquires
  BY <1>20 DEF CleanerAcquires, ConnFree
<1>21. CASE CleanerDeletes
  BY <1>21 DEF CleanerDeletes
<1>22. CASE CleanerWaits
  BY <1>22 DEF CleanerWaits
<1>23. CASE PostgresHangsOrReturns
  BY <1>23 DEF PostgresHangsOrReturns
<1>24. CASE Crash
  BY <1>24 DEF Crash, Exit
<1>25. CASE Tick
  BY <1>25 DEF Tick
<1>26. ASSUME NEW r \in Requests, Arrive(r) PROVE HooksTyped'
  BY <1>26 DEF Arrive, Goto
<1>27. ASSUME NEW r \in Requests, Handle(r) PROVE HooksTyped'
  BY <1>27 DEF Handle, Goto
<1>28. ASSUME NEW r \in Requests, Acquire(r) PROVE HooksTyped'
  BY <1>28 DEF Acquire, ConnFree, Goto
<1>29. ASSUME NEW r \in Requests, QueryEnds(r) PROVE HooksTyped'
  BY <1>29 DEF QueryEnds, Goto
<1>30. ASSUME NEW r \in Requests, RequestFails(r) PROVE HooksTyped'
  BY <1>30 DEF RequestFails, Goto
<1>31. CASE UNCHANGED vars
  BY <1>31 DEF vars
<1>. QED
  BY <1>1, <1>2, <1>3, <1>4, <1>5, <1>6, <1>7, <1>8, <1>9, <1>10, <1>11, <1>12, <1>13, <1>14, <1>15, <1>16, <1>17, <1>18, <1>19, <1>20, <1>21, <1>22, <1>23, <1>24, <1>25, <1>26, <1>27, <1>28, <1>29, <1>30, <1>31
     DEF Next, BootStep, StopStep, RequestStep, CleanerStep

LEMMA FlagsNext == IInv /\ [Next]_vars => FlagsTyped'
<1>. SUFFICES ASSUME IInv, [Next]_vars PROVE FlagsTyped'
  OBVIOUS
<1>0. FlagsTyped
  BY TypeParts DEF IInv
<1>. USE <1>0 DEF FlagsTyped, process, outside, serving
<1>1. CASE Boot
  BY <1>1, Zenon DEF Boot
<1>2. CASE Load
  BY <1>2, Zenon DEF Load, Exit, ConstructorFails
<1>3. CASE Open
  BY <1>3, Zenon DEF Open, Exit, ConstructorFails
<1>4. CASE Migrate
  BY <1>4, Zenon DEF Migrate, Exit, ConstructorFails
<1>5. CASE NewServer
  BY <1>5, Zenon DEF NewServer, Exit, ConstructorFails
<1>6. CASE StartNothing
  BY <1>6, Zenon DEF StartNothing
<1>7. CASE StartServer
  BY <1>7, Zenon DEF StartServer
<1>8. CASE StartCleanup
  BY <1>8, Zenon DEF StartCleanup
<1>9. CASE Running
  BY <1>9, Zenon DEF Running
<1>10. CASE StopCleanup
  BY <1>10, Zenon DEF StopCleanup
<1>11. CASE StopServer
  BY <1>11, Zenon DEF StopServer
<1>12. CASE ShutdownEnds
  BY <1>12, Zenon DEF ShutdownEnds
<1>13. CASE StopPool
  BY <1>13, Zenon DEF StopPool
<1>14. CASE CloseEnds
  BY <1>14, Zenon DEF CloseEnds
<1>15. CASE StopLogger
  BY <1>15, Zenon DEF StopLogger
<1>16. CASE Stopped
  BY <1>16, Zenon DEF Stopped, Exit
<1>17. CASE StopTimesOut
  BY <1>17, Zenon DEF StopTimesOut, Exit
<1>18. CASE Signal
  BY <1>18, Zenon DEF Signal
<1>19. CASE ServeFails
  BY <1>19, Zenon DEF ServeFails
<1>20. CASE CleanerAcquires
  BY <1>20, Zenon DEF CleanerAcquires
<1>21. CASE CleanerDeletes
  BY <1>21, Zenon DEF CleanerDeletes
<1>22. CASE CleanerWaits
  BY <1>22, Zenon DEF CleanerWaits
<1>23. CASE PostgresHangsOrReturns
  BY <1>23, Zenon DEF PostgresHangsOrReturns
<1>24. CASE Crash
  BY <1>24, Zenon DEF Crash, Exit
<1>25. CASE Tick
  BY <1>25, Zenon DEF Tick
<1>26. ASSUME NEW r \in Requests, Arrive(r) PROVE FlagsTyped'
  BY <1>26, Zenon DEF Arrive
<1>27. ASSUME NEW r \in Requests, Handle(r) PROVE FlagsTyped'
  BY <1>27, Zenon DEF Handle
<1>28. ASSUME NEW r \in Requests, Acquire(r) PROVE FlagsTyped'
  BY <1>28, Zenon DEF Acquire
<1>29. ASSUME NEW r \in Requests, QueryEnds(r) PROVE FlagsTyped'
  BY <1>29, Zenon DEF QueryEnds
<1>30. ASSUME NEW r \in Requests, RequestFails(r) PROVE FlagsTyped'
  BY <1>30, Zenon DEF RequestFails
<1>31. CASE UNCHANGED vars
  BY <1>31, Zenon DEF vars
<1>. QED
  BY <1>1, <1>2, <1>3, <1>4, <1>5, <1>6, <1>7, <1>8, <1>9, <1>10, <1>11, <1>12, <1>13, <1>14, <1>15, <1>16, <1>17, <1>18, <1>19, <1>20, <1>21, <1>22, <1>23, <1>24, <1>25, <1>26, <1>27, <1>28, <1>29, <1>30, <1>31
     DEF Next, BootStep, StopStep, RequestStep, CleanerStep

LEMMA IInvNext == IInv /\ [Next]_vars => IInv'
<1>. SUFFICES ASSUME IInv, [Next]_vars PROVE IInv'
  OBVIOUS
<1>0. TypeOK /\ TypeOK'
  <2>1. (HooksTyped /\ FlagsTyped /\ OthersTyped)'
    BY HooksNext, FlagsNext, OthersNext
  <2>. QED
    BY <2>1, TypeParts DEF IInv, TypeOK, HooksTyped, FlagsTyped, OthersTyped, Booting, Stopping
<1>. USE <1>0, LifecycleAssumption
      DEF IInv, HooksInOrder, StartedFollows, PoolFollows,
          SchemaComplete, ListeningFollows, CleanerFollows, FailedFollows, RequestsFollow,
          ExitFollows, CleanExit, NoFalseAlarm, Alive, Booting, Stopping, Constructing,
          InProgress, InUse, process, outside, serving
<1>1. CASE Boot
  BY <1>1 DEF Boot
<1>2. CASE Load
  <2>1. HooksInOrder'
    <3>1. CASE main = "load" /\ main' = "open" /\ hooks' = Append(hooks, "logger")
      <4>1. Len(hooks') = 1 /\ hooks'[1] = "logger"
        BY <3>1, AppendProperties
      <4>. QED
        BY <3>1, <4>1
    <3>2. CASE main' = "exited"
      BY <3>2
    <3>. QED
      BY <1>2, <3>1, <3>2 DEF Load, Exit, ConstructorFails
  <2>. QED
    BY <1>2, <2>1 DEF Load, Exit, ConstructorFails
<1>3. CASE Open
  <2>1. HooksInOrder'
    <3>1. CASE main = "open" /\ main' = "migrate" /\ hooks' = Append(hooks, "pool")
      <4>1. Len(hooks') = 2 /\ hooks'[1] = "logger" /\ hooks'[2] = "pool"
        BY <3>1, OpenAppends
      <4>. QED
        BY <3>1, <4>1
    <3>2. CASE main' = "exited"
      BY <3>2
    <3>. QED
      BY <1>3, <3>1, <3>2 DEF Open, Exit, ConstructorFails
  <2>. QED
    BY <1>3, <2>1 DEF Open, Exit, ConstructorFails
<1>4. CASE Migrate
  BY <1>4 DEF Migrate, Exit, ConstructorFails
<1>5. CASE NewServer
  <2>1. HooksInOrder'
    <3>1. CASE main = "verifier" /\ main' = "starting" /\ hooks' = hooks \o <<"server", "cleanup">>
      <4>2. /\ Len(hooks') = 4 /\ hooks'[1] = "logger" /\ hooks'[2] = "pool"
            /\ hooks'[3] = "server" /\ hooks'[4] = "cleanup"
        BY <3>1, NewServerAppends
      <4>. QED
        BY <3>1, <4>2
    <3>2. CASE main' = "exited"
      BY <3>2
    <3>. QED
      BY <1>5, <3>1, <3>2 DEF NewServer, Exit, ConstructorFails
  <2>. QED
    BY <1>5, <2>1 DEF NewServer, Exit, ConstructorFails
<1>6. CASE StartNothing
  BY <1>6, StartsAt DEF StartNothing, Starts
<1>7. CASE StartServer
  <2>1. ListeningFollows'
    <3>1. started = 2 /\ main = "starting"
      BY <1>7, StartsAt DEF StartServer, Starts
    <3>2. CASE started' = started + 1 /\ main' = main
      BY <3>1, <3>2
    <3>3. CASE UNCHANGED <<listening, started>>
      BY <3>1, <3>3
    <3>. QED
      BY <1>7, <3>2, <3>3 DEF StartServer
  <2>. QED
    BY <1>7, StartsAt, <2>1 DEF StartServer, Starts
<1>8. CASE StartCleanup
  BY <1>8, StartsAt DEF StartCleanup, Starts
<1>9. CASE Running
  BY <1>9 DEF Running
<1>10. CASE StopCleanup
  BY <1>10, StopsAt DEF StopCleanup, Stops
<1>11. CASE StopServer
  <2>1. RequestsFollow'
    <3>1. started' = 3 /\ main' = "shutdown" /\ hookAge' = 0 /\ stopAge' = stopAge
      BY <1>11, StopsAt DEF StopServer, Stops
    <3>3. hookAge' <= stopAge'
      BY <3>1, NumbersAre
    <3>. QED
      BY <3>1, <3>3
  <2>. QED
    BY <1>11, StopsAt, <2>1 DEF StopServer, Stops
<1>12. CASE ShutdownEnds
  BY <1>12 DEF ShutdownEnds
<1>13. CASE StopPool
  BY <1>13, StopsAt DEF StopPool, Stops
<1>14. CASE CloseEnds
  BY <1>14 DEF CloseEnds
<1>15. CASE StopLogger
  BY <1>15, StopsAt DEF StopLogger, Stops
<1>16. CASE Stopped
  BY <1>16 DEF Stopped, Exit
<1>17. CASE StopTimesOut
  BY <1>17 DEF StopTimesOut, Exit
<1>18. CASE Signal
  BY <1>18 DEF Signal
<1>19. CASE ServeFails
  BY <1>19 DEF ServeFails
<1>20. CASE CleanerAcquires
  <2>1. NoFalseAlarm'
    BY <1>20, CleanerHasPool DEF CleanerAcquires
  <2>. QED
    BY <1>20, <2>1 DEF CleanerAcquires, ConnFree
<1>21. CASE CleanerDeletes
  BY <1>21 DEF CleanerDeletes
<1>22. CASE CleanerWaits
  BY <1>22 DEF CleanerWaits
<1>23. CASE PostgresHangsOrReturns
  BY <1>23 DEF PostgresHangsOrReturns
<1>24. CASE Crash
  BY <1>24 DEF Crash, Exit
<1>25. CASE Tick
  <2>1. RequestsFollow'
    <3>1. /\ main \in {"stopping", "shutdown", "closing"} /\ main' = main
          /\ started' = started /\ failed' = failed /\ pc' = pc
          /\ stopAge' = stopAge + 1
          /\ hookAge' = hookAge \/ hookAge' = hookAge + 1
      BY <1>25 DEF Tick
    <3>3. main = "shutdown" => hookAge' <= stopAge'
      BY <3>1, NumbersAre
    <3>4. stopAge >= shutdownTimeout => stopAge' >= shutdownTimeout
      BY <3>1, NumbersAre
    <3>. QED
      BY <3>1, <3>3, <3>4
  <2>. QED
    BY <1>25, <2>1 DEF Tick
<1>26. ASSUME NEW r \in Requests, Arrive(r) PROVE IInv'
  <2>1. RequestsFollow'
    <3>1. started >= 3 /\ UNCHANGED <<main, started, hookAge, stopAge>>
      BY <1>26 DEF Arrive
    <3>2. main = "shutdown" => hookAge <= stopAge
      OBVIOUS
    <3>3. ~(started <= 2)
      BY <3>1, NumbersAre
    <3>. QED
      BY ONLY <3>1, <3>2, <3>3 DEF RequestsFollow
  <2>. QED
    BY <1>26, <2>1 DEF Arrive, Goto
<1>27. ASSUME NEW r \in Requests, Handle(r) PROVE IInv'
  <2>1. PoolFollows'
    <3>1. UNCHANGED <<main, pool, started, cleaner>>
      BY <1>27 DEF Handle
    <3>2. CASE pool = "closed"
      <4>1. \A q \in Requests : pc[q] # "query"
        BY <1>27, <3>2 DEF Handle
      <4>2. \A q \in Requests : pc'[q] # "query"
        <5>1. Goto(r, "waiting") \/ Goto(r, "idle")
          BY <1>27 DEF Handle
        <5>. QED
          BY <4>1, <5>1, NoNewQuery, TypeParts DEF IInv
      <4>. QED
        BY <1>27, <3>1, <3>2, <4>2 DEF Handle
    <3>3. CASE pool # "closed"
      BY <3>1, <3>3
    <3>. QED
      BY <3>2, <3>3
  <2>. QED
    BY <1>27, <2>1 DEF Handle, Goto
<1>28. ASSUME NEW r \in Requests, Acquire(r) PROVE IInv'
  <2>1. PoolFollows'
    <3>1. UNCHANGED <<main, pool, started, cleaner>>
      BY <1>28 DEF Acquire
    <3>2. CASE pool = "closed"
      <4>1. \A q \in Requests : pc[q] # "query"
        BY <1>28, <3>2 DEF Acquire
      <4>2. \A q \in Requests : pc'[q] # "query"
        <5>1. Goto(r, "refused")
          BY <1>28, <3>2 DEF Acquire, ConnFree
        <5>. QED
          BY <4>1, <5>1, NoNewQuery, TypeParts DEF IInv
      <4>. QED
        BY <1>28, <3>1, <3>2, <4>2 DEF Acquire
    <3>3. CASE pool # "closed"
      BY <3>1, <3>3
    <3>. QED
      BY <3>2, <3>3
  <2>. QED
    BY <1>28, <2>1 DEF Acquire, ConnFree, Goto
<1>29. ASSUME NEW r \in Requests, QueryEnds(r) PROVE IInv'
  BY <1>29 DEF QueryEnds, Goto
<1>30. ASSUME NEW r \in Requests, RequestFails(r) PROVE IInv'
  BY <1>30 DEF RequestFails, Goto
<1>31. CASE UNCHANGED vars
  BY <1>31 DEF vars
<1>. QED
  BY <1>1, <1>2, <1>3, <1>4, <1>5, <1>6, <1>7, <1>8, <1>9, <1>10, <1>11, <1>12, <1>13, <1>14, <1>15, <1>16, <1>17, <1>18, <1>19, <1>20, <1>21, <1>22, <1>23, <1>24, <1>25, <1>26, <1>27, <1>28, <1>29, <1>30, <1>31
     DEF Next, BootStep, StopStep, RequestStep, CleanerStep
-----------------------------------------------------------------------------
LEMMA Invariant == Spec => []IInv
BY IInvInit, IInvNext, PTL DEF Spec

\* Every state of the server's lifecycle is well-formed: in particular there are
\* never more migrations applied, nor more hooks started, than there are.
THEOREM TypeCorrect == Spec => []TypeOK
<1>1. IInv => TypeOK
  BY DEF IInv
<1>. QED
  BY <1>1, Invariant, PTL

\* Requests are only let in while the schema is complete and the pool is open: the
\* server's hook comes after the pool's, and no hook is run before Migrate is done.
THEOREM ReadyWhenListening == Spec => []ListeningImpliesReady
<1>1. IInv => ListeningImpliesReady
  BY NumbersAre
  DEF IInv, ListeningFollows, SchemaComplete, PoolFollows, ListeningImpliesReady, Stopping
<1>. QED
  BY <1>1, Invariant, PTL

\* A process that reports success has finished its requests and closed the pool.
THEOREM ExitIsClean == Spec => []CleanExit
<1>1. IInv => CleanExit
  BY DEF IInv
<1>. QED
  BY <1>1, Invariant, PTL

\* The cleanup loop never logs an error because the server stops: OnStop cancels
\* its context before the pool closes.
THEOREM NoFalseAlarms == Spec => []NoFalseAlarm
<1>1. IInv => NoFalseAlarm
  BY DEF IInv
<1>. QED
  BY <1>1, Invariant, PTL
-----------------------------------------------------------------------------
\* The pool refuses connections only after the server's hook is stopped.
LEMMA ClosedAfterServer ==
  ASSUME IInv, Alive, pool \in {"closing", "closed"}
  PROVE  started <= 2
<1>1. main \in {"closing", "stopping"}
  BY TypeParts DEF IInv, PoolFollows, OthersTyped, Alive, Booting, Stopping
<1>. QED
  BY <1>1, NumbersAre DEF IInv, PoolFollows, StartedFollows

\* A request is only refused a connection by a pool that closes.
LEMMA RefusedByPool ==
  ASSUME IInv, [Next]_vars, NEW r \in Requests, pc[r] # "refused", pc'[r] = "refused"
  PROVE  Alive /\ pool \in {"closing", "closed"}
<1>. USE TypeParts DEF IInv, OthersTyped
<1>1. CASE Boot
  BY <1>1 DEF Boot
<1>2. CASE BootStep
  <2>1. UNCHANGED pc
    BY <1>2
    DEF BootStep, Load, Open, Migrate, NewServer, StartNothing, StartServer, StartCleanup,
        Running, ConstructorFails, serving
  <2>. QED
    BY <2>1
<1>3. CASE StopStep
  <2>1. UNCHANGED pc
    BY <1>3
    DEF StopStep, StopCleanup, StopServer, ShutdownEnds, StopPool, CloseEnds, StopLogger,
        Stopped, StopTimesOut, serving
  <2>. QED
    BY <2>1
<1>4. CASE Signal \/ ServeFails \/ PostgresHangsOrReturns \/ Crash \/ Tick
  <2>1. UNCHANGED pc
    BY <1>4 DEF Signal, ServeFails, PostgresHangsOrReturns, Crash, Tick, serving
  <2>. QED
    BY <2>1
<1>5. CASE CleanerStep
  <2>1. UNCHANGED pc
    BY <1>5 DEF CleanerStep, CleanerAcquires, CleanerDeletes, CleanerWaits
  <2>. QED
    BY <2>1
<1>6. ASSUME NEW q \in Requests, Arrive(q) \/ Handle(q) \/ QueryEnds(q) \/ RequestFails(q)
      PROVE  FALSE
  <2>1. \E step \in {"reading", "waiting", "idle"} : Goto(q, step)
    BY <1>6 DEF Arrive, Handle, QueryEnds, RequestFails
  <2>. QED
    BY <2>1 DEF Goto
<1>7. ASSUME NEW q \in Requests, Acquire(q)
      PROVE  Alive /\ pool \in {"closing", "closed"}
  <2>1. CASE Goto(q, "query")
    BY <2>1 DEF Goto
  <2>. QED
    BY <1>7, <2>1 DEF Acquire
<1>8. CASE UNCHANGED vars
  BY <1>8 DEF vars
<1>. QED
  BY <1>1, <1>2, <1>3, <1>4, <1>5, <1>6, <1>7, <1>8 DEF Next, RequestStep

\* What ends a process other than a crash.
LEMMA EndsBy ==
  ASSUME IInv, [Next]_vars, Alive, exit' \in {"ok", "error"}
  PROVE  \/ main \in Constructing
         \/ main = "stopping" /\ started = 0
         \/ stopAge = stopTimeout
<1>1. exit = "none"
  BY DEF IInv, ExitFollows
<1>2. CASE BootStep
  BY <1>1, <1>2
  DEF BootStep, Load, Open, Migrate, NewServer, StartNothing, StartServer, StartCleanup,
      Running, ConstructorFails, Constructing
<1>3. CASE StopStep
  BY <1>1, <1>3
  DEF StopStep, StopCleanup, StopServer, ShutdownEnds, StopPool, CloseEnds, StopLogger,
      Stopped, StopTimesOut
<1>4. CASE Boot \/ Signal \/ ServeFails \/ PostgresHangsOrReturns \/ Crash \/ Tick
  BY <1>1, <1>4 DEF Boot, Signal, ServeFails, PostgresHangsOrReturns, Crash, Tick, Exit
<1>5. CASE CleanerStep
  BY <1>1, <1>5 DEF CleanerStep, CleanerAcquires, CleanerDeletes, CleanerWaits
<1>6. ASSUME NEW q \in Requests, RequestStep(q) PROVE FALSE
  BY <1>1, <1>6 DEF RequestStep, Arrive, Handle, Acquire, QueryEnds, RequestFails
<1>7. CASE UNCHANGED vars
  BY <1>1, <1>7 DEF vars
<1>. QED
  BY <1>2, <1>3, <1>4, <1>5, <1>6, <1>7 DEF Next

\* A stop gives the requests in progress shutdownTimeout before the pool refuses
\* them a connection, and before the process ends under them.
THEOREM GraceGiven == Spec => GraceForRequests
<1>1. ASSUME IInv, [Next]_vars, NEW r \in InProgress,
             \/ pc[r] # "refused" /\ pc'[r] = "refused"
             \/ Alive /\ exit' \in {"ok", "error"}
      PROVE  stopAge >= shutdownTimeout
  <2>1. r \in Requests /\ InProgress # {}
    BY <1>1 DEF InProgress
  <2>2. Alive /\ started <= 2 => stopAge >= shutdownTimeout
    BY <1>1, <2>1 DEF IInv, RequestsFollow
  <2>3. CASE pc[r] # "refused" /\ pc'[r] = "refused"
    BY <1>1, <2>1, <2>2, <2>3, RefusedByPool, ClosedAfterServer
  <2>4. CASE Alive /\ exit' \in {"ok", "error"}
    <3>1. CASE main \in Constructing
      <4>1. started <= 2 /\ main \notin Stopping
        BY <1>1, <3>1 DEF IInv, StartedFollows, Constructing, Stopping
      <4>. QED
        BY <1>1, <2>1, <2>4, <4>1 DEF IInv, RequestsFollow
    <3>2. CASE main = "stopping" /\ started = 0
      BY <2>2, <2>4, <3>2
    <3>3. CASE stopAge = stopTimeout
      BY <3>3, LifecycleAssumption
    <3>. QED
      BY <1>1, <2>4, <3>1, <3>2, <3>3, EndsBy
  <2>. QED
    BY <1>1, <2>3, <2>4
<1>2. IInv /\ [Next]_vars =>
        [\A r \in InProgress :
           \/ pc[r] # "refused" /\ pc'[r] = "refused"
           \/ Alive /\ exit' \in {"ok", "error"}
           => stopAge >= shutdownTimeout]_vars
  BY <1>1
<1>. QED
  BY <1>2, Invariant, PTL DEF Spec, GraceForRequests
-----------------------------------------------------------------------------
(***************************************************************************)
(* How long a start and a stop can be.  StartsOrExits and StopsOnSignal are *)
(* liveness properties and stay with TLC; what makes them true is that the  *)
(* main goroutine never goes back, which is proved here with a measure of   *)
(* what is left to do.                                                      *)
(***************************************************************************)
\* The seconds and hooks a stop has left; a hook that is running counts less.
StopLeft == (stopTimeout - stopAge) + 2 * started + (IF main = "stopping" THEN 1 ELSE 0)

\* The migrations, constructors and hooks a start has left.
BootLeft == (latestVersion - version) +
              CASE main = "load"     -> 9
                [] main = "open"     -> 8
                [] main = "migrate"  -> 7
                [] main = "verifier" -> 6
                [] main = "starting" -> 5 - started
                [] OTHER             -> 0

LEMMA NumbersNext == IInv' => stopAge' \in Nat /\ hookAge' \in Nat /\ started' \in Nat
BY LifecycleAssumption DEF IInv, TypeOK

LEMMA LeftIs ==
  ASSUME IInv
  PROVE  /\ main \in Stopping => StopLeft \in 0..(stopTimeout + 9)
         /\ main \in Booting => BootLeft \in 1..(latestVersion + 9)
<1>1. /\ stopAge \in 0..stopTimeout /\ version \in 0..latestVersion
      /\ stopTimeout \in Nat /\ latestVersion \in Nat
      /\ main \in {"starting"} \cup Stopping => started \in 0..4
  BY LifecycleAssumption DEF IInv, TypeOK, HooksInOrder
<1>2. main \in Stopping => StopLeft \in 0..(stopTimeout + 9)
  BY <1>1 DEF StopLeft
<1>3. main \in Booting => BootLeft \in 1..(latestVersion + 9)
  BY <1>1 DEF BootLeft, Booting
<1>. QED
  BY <1>2, <1>3

\* The steps of everybody else, in a start or a stop: they change nothing that counts.
LEMMA OthersStandAside ==
  ASSUME IInv, [Next]_vars, main \in Booting \cup Stopping,
         ~BootStep, ~StopStep, ~Tick, main' # "exited"
  PROVE  UNCHANGED <<main, started, stopAge, version>>
<1>1. CASE Boot \/ Signal
  BY <1>1 DEF Boot, Signal, Booting, Stopping
<1>2. CASE ServeFails \/ PostgresHangsOrReturns \/ Crash
  BY <1>2 DEF ServeFails, PostgresHangsOrReturns, Crash, Exit, process, outside
<1>3. CASE CleanerStep
  BY <1>3 DEF CleanerStep, CleanerAcquires, CleanerDeletes, CleanerWaits, process, outside
<1>4. ASSUME NEW r \in Requests, RequestStep(r)
      PROVE  UNCHANGED <<main, started, stopAge, version>>
  BY <1>4 DEF RequestStep, Arrive, Handle, Acquire, QueryEnds, RequestFails, process, outside
<1>5. CASE UNCHANGED vars
  BY <1>5 DEF vars
<1>. QED
  BY <1>1, <1>2, <1>3, <1>4, <1>5 DEF Next

LEMMA StopStepsGoDown ==
  ASSUME IInv, main \in Stopping, StopStep \/ Tick, main' # "exited"
  PROVE  main' \in Stopping /\ StopLeft' < StopLeft
<1>. DEFINE Less == main' \in Stopping /\ StopLeft' < StopLeft
<1>1. /\ stopAge \in 0..stopTimeout /\ started \in 0..4 /\ stopTimeout \in Nat
      /\ Len(hooks) = 4
  BY LifecycleAssumption DEF IInv, TypeOK, HooksInOrder
<1>2. CASE StopCleanup \/ StopLogger
  BY <1>1, <1>2, StopsAt DEF StopCleanup, StopLogger, Stops, StopLeft, Stopping
<1>3. CASE StopServer \/ StopPool
  BY <1>1, <1>3 DEF StopServer, StopPool, Stops, StopLeft, Stopping
<1>4. CASE ShutdownEnds \/ CloseEnds
  BY <1>1, <1>4 DEF IInv, StartedFollows, ShutdownEnds, CloseEnds, StopLeft, Stopping
<1>5. CASE Stopped \/ StopTimesOut
  BY <1>5 DEF Stopped, StopTimesOut, Exit
<1>6. CASE Tick
  BY <1>1, <1>6 DEF Tick, StopLeft, Stopping
<1>. QED
  BY <1>2, <1>3, <1>4, <1>5, <1>6 DEF StopStep

\* A stop (fx.App.Stop) goes one way: until the process ends, it never leaves the stop, what
\* it has left never grows, and every second and every step of it makes that less.
StopGoesOn ==
  [][main' # "exited" /\ main \in Stopping =>
       main' \in Stopping /\ StopLeft' <= StopLeft
       /\ (StopStep \/ Tick => StopLeft' < StopLeft)]_vars

\* From a signal to the exit there are at most stopTimeout seconds and nine steps of the
\* main goroutine, whatever requests, cleanup and Postgres do meanwhile.
THEOREM StopIsBounded == Spec => StopGoesOn /\ [](main \in Stopping => StopLeft \in 0..(stopTimeout + 9))
<1>1. ASSUME IInv, [Next]_vars, main \in Stopping, main' # "exited"
      PROVE  /\ main' \in Stopping /\ StopLeft' <= StopLeft
             /\ StopStep \/ Tick => StopLeft' < StopLeft
  <2>1. CASE StopStep \/ Tick
    <3>1. main' \in Stopping /\ StopLeft' < StopLeft
      BY <1>1, <2>1, StopStepsGoDown
    <3>2. StopLeft \in Int /\ StopLeft' \in Int
      <4>1. IInv'
        BY <1>1, IInvNext
      <4>2. /\ stopAge \in Int /\ stopAge' \in Int /\ started \in Int /\ started' \in Int
            /\ stopTimeout \in Int
        BY <1>1, <4>1, LifecycleAssumption, NumbersAre, NumbersNext
      <4>. QED
        BY <4>2 DEF StopLeft
    <3>. QED
      BY <3>1, <3>2
  <2>2. CASE BootStep
    BY <1>1, <2>2
    DEF BootStep, Load, Open, Migrate, NewServer, StartNothing, StartServer, StartCleanup,
        Running, Starts, ConstructorFails, Stopping
  <2>3. CASE ~BootStep /\ ~StopStep /\ ~Tick
    <3>1. UNCHANGED <<main, started, stopAge, version>>
      BY <1>1, <2>3, OthersStandAside
    <3>2. StopLeft' = StopLeft /\ StopLeft \in Int
      BY <1>1, <3>1, LeftIs DEF StopLeft
    <3>. QED
      BY <1>1, <2>3, <3>1, <3>2
  <2>. QED
    BY <2>1, <2>2, <2>3
<1>2. IInv /\ [Next]_vars =>
        [main' # "exited" /\ main \in Stopping =>
           main' \in Stopping /\ StopLeft' <= StopLeft
           /\ (StopStep \/ Tick => StopLeft' < StopLeft)]_vars
  BY <1>1
<1>3. IInv => (main \in Stopping => StopLeft \in 0..(stopTimeout + 9))
  BY LeftIs
<1>. QED
  BY <1>2, <1>3, Invariant, PTL DEF Spec, StopGoesOn

LEMMA BootStepsGoDown ==
  ASSUME IInv, IInv', main \in Booting, BootStep, main' \in Booting
  PROVE  BootLeft' < BootLeft
<1>1. /\ version \in 0..latestVersion /\ version' \in 0..latestVersion
      /\ latestVersion \in Nat
      /\ main = "starting" => started \in 0..4 /\ Len(hooks) = 4
      /\ main' = "starting" => started' \in 0..4
      /\ main = "verifier" => started = 0
  BY LifecycleAssumption
  DEF IInv, TypeOK, HooksInOrder, StartedFollows, Constructing
<1>. USE DEF BootLeft, Booting
<1>2. CASE Load \/ Open
  BY <1>1, <1>2 DEF Load, Open, ConstructorFails, Exit, outside
<1>3. CASE Migrate
  BY <1>1, <1>3 DEF Migrate, ConstructorFails, Exit, outside
<1>4. CASE NewServer
  BY <1>1, <1>4 DEF NewServer, ConstructorFails, Exit, outside
<1>5. CASE StartNothing \/ StartCleanup
  BY <1>1, <1>5 DEF StartNothing, StartCleanup, Starts, outside
<1>6. CASE StartServer
  BY <1>1, <1>6 DEF StartServer, Starts, outside
<1>7. CASE Running
  BY <1>7 DEF Running
<1>. QED
  BY <1>2, <1>3, <1>4, <1>5, <1>6, <1>7 DEF BootStep

\* A start (main.go's constructors, then the OnStart hooks) goes one way, too: what it has
\* left never grows, and every step of it makes that less, migrations included.
BootGoesOn ==
  [][{main, main'} \subseteq Booting =>
       BootLeft' <= BootLeft /\ (BootStep => BootLeft' < BootLeft)]_vars

\* A start takes no more than nine steps and one for each migration that is missing, then
\* the process runs, stops or has ended; a start after a crash migrates what is left.
THEOREM StartIsBounded ==
  Spec => BootGoesOn /\ [](main \in Booting => BootLeft \in 1..(latestVersion + 9))
<1>1. ASSUME IInv, [Next]_vars, main \in Booting, main' \in Booting
      PROVE  BootLeft' <= BootLeft /\ (BootStep => BootLeft' < BootLeft)
  <2>1. IInv'
    BY <1>1, IInvNext
  <2>2. BootLeft \in Int /\ BootLeft' \in Int
    <3>1. /\ version \in 0..latestVersion /\ version' \in 0..latestVersion
          /\ latestVersion \in Nat
          /\ started \in Int /\ started' \in Int
      BY <1>1, <2>1, LifecycleAssumption, NumbersAre, NumbersNext DEF IInv, TypeOK
    <3>. QED
      BY <3>1 DEF BootLeft
  <2>3. CASE BootStep
    BY <1>1, <2>1, <2>2, <2>3, BootStepsGoDown
  <2>4. CASE StopStep \/ Tick
    BY <1>1, <2>4
    DEF StopStep, StopCleanup, StopServer, ShutdownEnds, StopPool, CloseEnds, StopLogger,
        Stopped, StopTimesOut, Stops, Tick, Booting, Stopping
  <2>5. CASE ~BootStep /\ ~StopStep /\ ~Tick
    <3>1. main' # "exited"
      BY <1>1 DEF Booting
    <3>2. UNCHANGED <<main, started, stopAge, version>>
      BY <1>1, <2>5, <3>1, OthersStandAside
    <3>3. BootLeft' = BootLeft
      BY <3>2 DEF BootLeft
    <3>. QED
      BY <2>2, <2>5, <3>3
  <2>. QED
    BY <2>3, <2>4, <2>5
<1>2. IInv /\ [Next]_vars =>
        [{main, main'} \subseteq Booting =>
           BootLeft' <= BootLeft /\ (BootStep => BootLeft' < BootLeft)]_vars
  BY <1>1
<1>3. IInv => (main \in Booting => BootLeft \in 1..(latestVersion + 9))
  BY LeftIs
<1>. QED
  BY <1>2, <1>3, Invariant, PTL DEF Spec, BootGoesOn
=============================================================================
