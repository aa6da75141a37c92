------------------------------ MODULE Lifecycle -----------------------------
(***************************************************************************)
(* One process of the server from start to exit, over and over              *)
(* (server/cmd/api/main.go, server/internal/adapters/postgres/db.go).       *)
(*                                                                         *)
(* The constructors run first and append hooks; fx then runs the OnStart    *)
(* hooks in that order and, on a signal or a failed start, the OnStop hooks *)
(* of those that started in reverse order, on a common time budget.  While  *)
(* they run, requests are served by handlers that borrow connections from   *)
(* the pool, and the cleanup loop borrows one now and then.  Postgres may   *)
(* hang at any time.  The version of its schema is all that outlives a      *)
(* process.                                                                 *)
(***************************************************************************)
EXTENDS Naturals, Sequences, FiniteSets

CONSTANTS Requests,         \* requests that may be in progress at once
          latestVersion,    \* number of migrations
          poolMaxConns,     \* pgxpool MaxConns
          shutdownTimeout,  \* what the server's OnStop may take
          stopTimeout       \* what all OnStop hooks together may take (fx)

ASSUME LifecycleAssumption ==
  /\ latestVersion \in Nat
  /\ poolMaxConns \in Nat \ {0}
  /\ shutdownTimeout \in Nat /\ stopTimeout \in Nat
  /\ shutdownTimeout <= stopTimeout

VARIABLES main,       \* what the main goroutine does
          hooks,      \* the hooks appended to fx.Lifecycle, in order
          started,    \* how many of them are started and not yet stopped
          failed,     \* an OnStart or OnStop hook has returned an error
          exit,       \* how the process ended
          version,    \* the schema's version, in Postgres
          reachable,  \* whether Postgres answers
          pool,       \* the connection pool
          listening,  \* whether the server accepts requests
          stopAge,    \* time since the stop began, up to stopTimeout
          hookAge,    \* time since srv.Shutdown was called, up to shutdownTimeout
          pc,         \* where the handler of a request is
          cleaner,    \* where the cleanup loop is
          cancelled,  \* whether the context of the loop is cancelled
          alarm       \* history: the latest failure the loop has logged

vars == <<main, hooks, started, failed, exit, version, reachable, pool, listening,
          stopAge, hookAge, pc, cleaner, cancelled, alarm>>
process == <<hooks, started, failed, pool, listening, stopAge, hookAge>>
outside == <<version, reachable>>
serving == <<pc, cleaner, cancelled, alarm>>

Booting == {"load", "open", "migrate", "verifier", "starting"}
Stopping == {"stopping", "shutdown", "closing"}

TypeOK == /\ main \in {"exited", "running"} \cup Booting \cup Stopping
          /\ hooks \in Seq({"logger", "pool", "server", "cleanup"})
          /\ started \in 0..Len(hooks)
          /\ failed \in BOOLEAN
          /\ exit \in {"none", "ok", "error", "killed"}
          /\ version \in 0..latestVersion
          /\ reachable \in BOOLEAN
          /\ pool \in {"none", "open", "closing", "closed"}
          /\ listening \in BOOLEAN
          /\ stopAge \in 0..stopTimeout
          /\ hookAge \in 0..shutdownTimeout
          /\ pc \in [Requests -> {"idle", "reading", "waiting", "query", "refused"}]
          /\ cleaner \in {"none", "wants", "query", "waiting", "done"}
          /\ cancelled \in BOOLEAN
          /\ alarm \in {"none", "postgres", "closed_pool"}

\* No process runs yet, and the database is empty.
Init == /\ main = "exited" /\ exit = "none"
        /\ hooks = <<>> /\ started = 0 /\ failed = FALSE
        /\ version = 0 /\ reachable = TRUE
        /\ pool = "none" /\ listening = FALSE
        /\ stopAge = 0 /\ hookAge = 0
        /\ pc = [r \in Requests |-> "idle"]
        /\ cleaner = "none" /\ cancelled = FALSE /\ alarm = "none"
-----------------------------------------------------------------------------
Alive == main # "exited"

\* Connections that are borrowed from the pool.
InUse == {r \in Requests : pc[r] = "query"} \cup
         (IF cleaner = "query" THEN {"cleaner"} ELSE {})
ConnFree == pool = "open" /\ Cardinality(InUse) < poolMaxConns

InProgress == {r \in Requests : pc[r] # "idle"}

\* The process ends; what it was doing stays in the variables until the next boot.
Exit(how) == main' = "exited" /\ exit' = how

\* A new process starts with nothing but what is in Postgres.
Boot == /\ main = "exited"
        /\ main' = "load" /\ exit' = "none"
        /\ hooks' = <<>> /\ started' = 0 /\ failed' = FALSE
        /\ pool' = "none" /\ listening' = FALSE
        /\ stopAge' = 0 /\ hookAge' = 0
        /\ pc' = [r \in Requests |-> "idle"]
        /\ cleaner' = "none" /\ cancelled' = FALSE /\ alarm' = "none"
        /\ UNCHANGED outside

\* A constructor that fails ends the process; no hook is run.
ConstructorFails(step) ==
  /\ main = step
  /\ Exit("error")
  /\ UNCHANGED <<process, outside, serving>>

\* config.Load, then newZapLogger.
Load == \/ /\ main = "load" /\ main' = "open"
           /\ hooks' = Append(hooks, "logger")
           /\ UNCHANGED <<started, failed, exit, pool, listening, stopAge, hookAge,
                          outside, serving>>
        \/ ConstructorFails("load")

\* postgres.Open pings the database for at most pingTimeout.
Open == \/ /\ main = "open" /\ reachable
           /\ main' = "migrate"
           /\ pool' = "open"
           /\ hooks' = Append(hooks, "pool")
           /\ UNCHANGED <<started, failed, exit, listening, stopAge, hookAge,
                          outside, serving>>
        \/ ConstructorFails("open")

\* Mutants of Migrate: one migration too many; no timeout.
MigrateOneMore ==
  \/ /\ main = "migrate" /\ reachable /\ version <= latestVersion
     /\ version' = version + 1
     /\ UNCHANGED <<main, exit, reachable, process, serving>>
  \/ /\ main = "migrate" /\ version = latestVersion
     /\ main' = "verifier"
     /\ UNCHANGED <<exit, process, outside, serving>>
  \/ ConstructorFails("migrate")
MigrateWithoutTimeout ==
  \/ /\ main = "migrate" /\ reachable /\ version < latestVersion
     /\ version' = version + 1
     /\ UNCHANGED <<main, exit, reachable, process, serving>>
  \/ /\ main = "migrate" /\ reachable /\ version = latestVersion
     /\ main' = "verifier"
     /\ UNCHANGED <<exit, process, outside, serving>>
  \/ reachable /\ ConstructorFails("migrate")

\* goose applies each missing migration in a transaction of its own, for at most
\* migrateTimeout in all.
Migrate ==
  \/ /\ main = "migrate" /\ reachable /\ version < latestVersion
     /\ version' = version + 1
     /\ UNCHANGED <<main, exit, reachable, process, serving>>
  \/ /\ main = "migrate" /\ reachable /\ version = latestVersion
     /\ main' = "verifier"
     /\ UNCHANGED <<exit, process, outside, serving>>
  \/ ConstructorFails("migrate")

\* Mutant of NewServer: the server's hook comes before those of what it uses.
NewServerFirst ==
  \/ /\ main = "verifier" /\ main' = "starting"
     /\ hooks' = <<"server">> \o hooks \o <<"cleanup">>
     /\ UNCHANGED <<started, failed, exit, pool, listening, stopAge, hookAge,
                    outside, serving>>
  \/ ConstructorFails("verifier")

\* The providers are asked for their keys, for at most providerTimeout; then the
\* router, the server and, in the second fx.Invoke, the cleanup are made.
NewServer ==
  \/ /\ main = "verifier" /\ main' = "starting"
     /\ hooks' = hooks \o <<"server", "cleanup">>
     /\ UNCHANGED <<started, failed, exit, pool, listening, stopAge, hookAge,
                    outside, serving>>
  \/ ConstructorFails("verifier")
-----------------------------------------------------------------------------
Starts(hook) == main = "starting" /\ started < Len(hooks) /\ hooks[started + 1] = hook

\* The logger's hook and the pool's have no OnStart.
StartNothing == /\ Starts("logger") \/ Starts("pool")
                /\ started' = started + 1
                /\ UNCHANGED <<main, exit, hooks, failed, pool, listening, stopAge, hookAge,
                               outside, serving>>

\* net.Listen; when it fails, fx stops the hooks that were started.
StartServer ==
  /\ Starts("server")
  /\ \/ /\ listening' = TRUE /\ started' = started + 1
        /\ UNCHANGED <<main, failed, stopAge>>
     \/ /\ main' = "stopping" /\ failed' = TRUE /\ stopAge' = 0
        /\ UNCHANGED <<listening, started>>
  /\ UNCHANGED <<exit, hooks, pool, hookAge, outside, serving>>

StartCleanup == /\ Starts("cleanup")
                /\ cleaner' = "wants"
                /\ started' = started + 1
                /\ UNCHANGED <<main, exit, hooks, failed, pool, listening, stopAge, hookAge,
                               outside, pc, cancelled, alarm>>

Running == /\ main = "starting" /\ started = Len(hooks)
           /\ main' = "running"
           /\ UNCHANGED <<exit, process, outside, serving>>

\* srv.Serve returns an error: it is logged, and the process stays.
ServeFails == /\ Alive /\ listening
              /\ listening' = FALSE
              /\ UNCHANGED <<main, exit, hooks, started, failed, pool, stopAge, hookAge,
                             outside, serving>>

\* SIGINT or SIGTERM.
Signal == /\ main = "running"
          /\ main' = "stopping" /\ stopAge' = 0
          /\ UNCHANGED <<exit, hooks, started, failed, pool, listening, hookAge,
                         outside, serving>>
-----------------------------------------------------------------------------
Stops(hook) == main = "stopping" /\ started > 0 /\ hooks[started] = hook

\* Mutant of StopCleanup: the context is not cancelled.
StopCleanupWithoutCancel ==
  /\ Stops("cleanup")
  /\ started' = started - 1
  /\ UNCHANGED <<main, exit, hooks, failed, pool, listening, stopAge, hookAge,
                 outside, serving>>

\* cancel() does not wait for the loop.
StopCleanup == /\ Stops("cleanup")
               /\ cancelled' = TRUE
               /\ started' = started - 1
               /\ UNCHANGED <<main, exit, hooks, failed, pool, listening, stopAge, hookAge,
                              outside, pc, cleaner, alarm>>

\* srv.Shutdown closes the listener, then waits for the requests in progress.
StopServer == /\ Stops("server")
              /\ listening' = FALSE
              /\ main' = "shutdown" /\ hookAge' = 0
              /\ UNCHANGED <<exit, hooks, started, failed, pool, stopAge, outside, serving>>

\* Mutants of ShutdownEnds: it does not wait for the requests in progress; its
\* error is dropped.
ShutdownDoesNotWait ==
  /\ main = "shutdown"
  /\ failed' = (failed \/ InProgress # {})
  /\ main' = "stopping" /\ started' = started - 1
  /\ UNCHANGED <<exit, hooks, pool, listening, stopAge, hookAge, outside, serving>>
ShutdownErrorDropped ==
  /\ main = "shutdown"
  /\ InProgress = {} \/ hookAge = shutdownTimeout
  /\ main' = "stopping" /\ started' = started - 1
  /\ UNCHANGED <<exit, hooks, failed, pool, listening, stopAge, hookAge, outside, serving>>

\* No request is left, or the hook's time is up and it returns an error; fx goes
\* on with the other hooks either way.
ShutdownEnds ==
  /\ main = "shutdown"
  /\ \/ InProgress = {} /\ UNCHANGED failed
     \/ hookAge = shutdownTimeout /\ failed' = TRUE
  /\ main' = "stopping" /\ started' = started - 1
  /\ UNCHANGED <<exit, hooks, pool, listening, stopAge, hookAge, outside, serving>>

\* pool.Close lets nobody acquire a connection any more, and waits until all
\* connections are returned.
StopPool == /\ Stops("pool")
            /\ pool' = "closing" /\ main' = "closing"
            /\ UNCHANGED <<exit, hooks, started, failed, listening, stopAge, hookAge,
                           outside, serving>>

CloseEnds == /\ main = "closing" /\ InUse = {}
             /\ pool' = "closed" /\ main' = "stopping" /\ started' = started - 1
             /\ UNCHANGED <<exit, hooks, failed, listening, stopAge, hookAge,
                            outside, serving>>

\* z.Sync; its error is dropped.
StopLogger == /\ Stops("logger")
              /\ started' = started - 1
              /\ UNCHANGED <<main, exit, hooks, failed, pool, listening, stopAge, hookAge,
                             outside, serving>>

Stopped == /\ main = "stopping" /\ started = 0
           /\ Exit(IF failed THEN "error" ELSE "ok")
           /\ UNCHANGED <<process, outside, serving>>

\* Mutant of StopTimesOut: fx waits for its hooks.
StopWaits == FALSE /\ UNCHANGED vars

\* fx waits no longer, whatever hook is running.
StopTimesOut == /\ main \in Stopping /\ stopAge = stopTimeout
                /\ Exit("error")
                /\ UNCHANGED <<process, outside, serving>>
-----------------------------------------------------------------------------
Goto(r, step) == pc' = [pc EXCEPT ![r] = step]

\* A request is accepted.  Only its headers have a deadline; its body may come
\* for ever.
Arrive(r) == /\ Alive /\ listening /\ pc[r] = "idle"
             /\ Goto(r, "reading")
             /\ UNCHANGED <<main, exit, process, outside, cleaner, cancelled, alarm>>

\* The handler asks the pool for a connection, or has answered.
Handle(r) == /\ Alive /\ pc[r] = "reading"
             /\ Goto(r, "waiting") \/ Goto(r, "idle")
             /\ UNCHANGED <<main, exit, process, outside, cleaner, cancelled, alarm>>

\* A closed pool gives an error to those that wait too.
Acquire(r) == /\ Alive /\ pc[r] = "waiting"
              /\ \/ ConnFree /\ Goto(r, "query")
                 \/ pool \in {"closing", "closed"} /\ Goto(r, "refused")
              /\ UNCHANGED <<main, exit, process, outside, cleaner, cancelled, alarm>>

\* A statement ends, and another follows or the request is answered.
QueryEnds(r) == /\ Alive /\ pc[r] = "query" /\ reachable
                /\ Goto(r, "waiting") \/ Goto(r, "idle")
                /\ UNCHANGED <<main, exit, process, outside, cleaner, cancelled, alarm>>

\* requestTimeout, or the client leaves: the request's context ends, and with it
\* the wait for a connection or the statement.  Or the pool's error is answered.
RequestFails(r) == /\ Alive /\ pc[r] \in {"waiting", "query", "refused"}
                   /\ Goto(r, "idle")
                   /\ UNCHANGED <<main, exit, process, outside, cleaner, cancelled, alarm>>

\* tokens.DeleteExpired borrows a connection; a cancelled context and a closed
\* pool give none, and the former is not worth a log entry.
CleanerAcquires ==
  /\ Alive /\ cleaner = "wants"
  /\ \/ ~cancelled /\ ConnFree /\ cleaner' = "query" /\ UNCHANGED alarm
     \/ cancelled /\ cleaner' = "waiting" /\ UNCHANGED alarm
     \/ ~cancelled /\ pool \in {"closing", "closed"}
        /\ cleaner' = "waiting" /\ alarm' = "closed_pool"
  /\ UNCHANGED <<main, exit, process, outside, pc, cancelled>>

\* The statement ends, or its failure is logged unless the loop is cancelled.
CleanerDeletes ==
  /\ Alive /\ cleaner = "query"
  /\ \/ reachable /\ UNCHANGED alarm
     \/ cancelled /\ UNCHANGED alarm
     \/ ~cancelled /\ alarm' = "postgres"
  /\ cleaner' = "waiting"
  /\ UNCHANGED <<main, exit, process, outside, pc, cancelled>>

\* The select takes the ticker, or the cancelled context, or either at random.
CleanerWaits ==
  /\ Alive /\ cleaner = "waiting"
  /\ cleaner' = "wants" \/ (cancelled /\ cleaner' = "done")
  /\ UNCHANGED <<main, exit, process, outside, pc, cancelled, alarm>>
-----------------------------------------------------------------------------
PostgresHangsOrReturns == /\ reachable' = ~reachable
                          /\ UNCHANGED <<main, exit, process, version, serving>>

\* The process is killed.
Crash == /\ Alive
         /\ Exit("killed")
         /\ UNCHANGED <<process, outside, serving>>

Tick == /\ main \in Stopping
        /\ stopAge < stopTimeout
        /\ stopAge' = stopAge + 1
        /\ hookAge' = IF hookAge < shutdownTimeout THEN hookAge + 1 ELSE hookAge
        /\ UNCHANGED <<main, exit, hooks, started, failed, pool, listening,
                       outside, serving>>

BootStep == \/ Load \/ Open \/ Migrate \/ NewServer
            \/ StartNothing \/ StartServer \/ StartCleanup \/ Running
StopStep == \/ StopCleanup \/ StopServer \/ ShutdownEnds \/ StopPool \/ CloseEnds
            \/ StopLogger \/ Stopped \/ StopTimesOut
RequestStep(r) == Arrive(r) \/ Handle(r) \/ Acquire(r) \/ QueryEnds(r) \/ RequestFails(r)
CleanerStep == CleanerAcquires \/ CleanerDeletes \/ CleanerWaits

Next == \/ Boot \/ BootStep \/ StopStep \/ Signal \/ ServeFails
        \/ \E r \in Requests : RequestStep(r)
        \/ CleanerStep
        \/ PostgresHangsOrReturns \/ Crash \/ Tick

Spec == Init /\ [][Next]_vars

\* The main goroutine goes on when it can, and time passes.  Nothing is assumed of
\* Postgres, of the requests or of the cleanup.
FairSpec == Spec /\ WF_vars(BootStep) /\ WF_vars(StopStep) /\ WF_vars(Tick)
-----------------------------------------------------------------------------
\* Requests are only let in while the schema is complete and the pool is open, also
\* after a crash between two migrations: hooks start in the order in which
\* main.go's constructors append them, and stop in reverse.
ListeningImpliesReady ==
  Alive /\ listening => version = latestVersion /\ pool = "open"

\* A process that reports success has finished every request it accepted, has no
\* statement running and has closed the pool.
CleanExit ==
  exit = "ok" => InProgress = {} /\ InUse = {} /\ pool = "closed" /\ cancelled

\* Stopping is no error of the cleanup: it is cancelled before the pool closes.
NoFalseAlarm == alarm # "closed_pool"

\* A stop gives the requests in progress shutdownTimeout before it takes the
\* database or the process away from them.
GraceForRequests ==
  [][\A r \in InProgress :
       \/ pc[r] # "refused" /\ pc'[r] = "refused"
       \/ Alive /\ exit' \in {"ok", "error"}
       => stopAge >= shutdownTimeout]_vars

\* The server comes up or gives up, even when Postgres hangs half way.
StartsOrExits == main \in Booting ~> main \in {"running", "stopping", "exited"}

\* A signal ends the process, whatever its requests and Postgres do.
StopsOnSignal == main = "stopping" ~> main = "exited"
=============================================================================
