\* Two RPC threads, SET_BOOTSTRAP_DAEMON among the requests, three daemon
\* objects.  No symmetry: the run checks a liveness property.
CONSTANTS
    Threads = {t1, t2}
    NoThread = NoThread
    Addresses = {"", "auto", "node"}
    MaxDaemons = 3
    NoSync = FALSE
SPECIFICATION FairSpec
INVARIANTS
    LockedCallsOnLiveDaemon
    MutexHeldOnlyToForward
PROPERTY
    MutexEventuallyReleased
