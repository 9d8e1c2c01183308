\* Two RPC threads, SET_BOOTSTRAP_DAEMON among the requests, three daemon objects.
CONSTANTS
    Threads = {t1, t2}
    NoThread = NoThread
    Addresses = {"", "auto", "node"}
    MaxDaemons = 3
    NoSync = FALSE
SYMMETRY MCSymmetry
SPECIFICATION Spec
INVARIANT HandleResultOnLiveDaemon
