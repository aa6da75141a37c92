\* Three requests and the cleanup loop on a pool of two connections; two
\* migrations, so that a process can die between them.  The unit of time is 5 s:
\* 10 s for the server's OnStop and 15 s for all of them.  No symmetry: there are
\* liveness properties.
CONSTANTS
  r1 = r1
  r2 = r2
  r3 = r3
  Requests = {r1, r2, r3}
  latestVersion = 2
  poolMaxConns = 2
  shutdownTimeout = 2
  stopTimeout = 3
SPECIFICATION FairSpec
INVARIANTS TypeOK ListeningImpliesReady CleanExit NoFalseAlarm
PROPERTIES GraceForRequests StartsOrExits StopsOnSignal
