--------------------------- MODULE BootstrapDaemon ---------------------------
(***************************************************************************)
(* The bootstrap-daemon forwarding of the RPC server                      *)
(* (src/src/rpc/core_rpc_server.cpp): set_bootstrap_daemon,              *)
(* should_bootstrap_lock and use_bootstrap_daemon_if_necessary, run by    *)
(* concurrent RPC worker threads, and the handlers that read the daemon  *)
(* under the shared lock: GET_INFO (both branches) and the handlers that  *)
(* refuse to run while bootstrapping (GETBLOCKCOUNT, GETBLOCKHASH,        *)
(* SUBMITBLOCK and the like).                                             *)
(*                                                                        *)
(* m_bootstrap_daemon is a unique_ptr: a daemon object is an id, `alive`  *)
(* the ids not yet deleted by reset.  m_should_use_bootstrap_daemon is    *)
(* read without the mutex (line 1832); it is taken to be atomic (its      *)
(* declaration is not under src/).  The remote daemon's answers are       *)
(* abstracted to the branch they select.                                  *)
(***************************************************************************)
EXTENDS Integers, FiniteSets

CONSTANTS
    Threads,     \* RPC worker threads
    NoThread,    \* no owner of m_bootstrap_daemon_mutex
    Addresses,   \* bootstrap daemon addresses: "" (none), "auto", or a node
    MaxDaemons,  \* bound on the daemon objects ever created
    NoSync       \* m_p2p.get_payload_object().no_sync()

VARIABLES
    daemon,      \* m_bootstrap_daemon: an object id, 0 for nullptr
    alive,       \* daemon objects not yet deleted
    nextId,      \* id of the next daemon object
    should_use,  \* m_should_use_bootstrap_daemon
    checkDue,    \* 30 s have passed since m_bootstrap_height_check_time
    holder,      \* owner of m_bootstrap_daemon_mutex
    ever_used,   \* m_was_bootstrap_ever_used
    pc,          \* per thread: where its request is
    checked,     \* per thread: the daemon object get_height ran on
    ptr,         \* per thread: m_bootstrap_daemon as loaded at line 1861
    readers,     \* threads holding m_bootstrap_daemon_mutex shared
    req          \* per thread: the handler it runs

vars == <<daemon, alive, nextId, should_use, checkDue, holder, ever_used, pc, checked, ptr, readers, req>>

\* Handlers that call use_bootstrap_daemon_if_necessary, and one that
\* instead refuses while m_should_use_bootstrap_daemon is set.
Forwarding == {"GET_INFO", "GET_HEIGHT"}
Handlers == Forwarding \cup {"GETBLOCKCOUNT"}

\* Neither a unique nor a shared owner of m_bootstrap_daemon_mutex.
Unlocked == holder = NoThread /\ readers = {}

\* set_bootstrap_daemon(address, credentials), under the unique lock: reset
\* deletes the old object; the flag follows the new pointer.
SetDaemon(address) ==
    /\ address # "" => nextId <= MaxDaemons
    /\ daemon' = IF address = "" THEN 0 ELSE nextId
    /\ alive' = (alive \ {daemon}) \cup (IF address = "" THEN {} ELSE {nextId})
    /\ nextId' = IF address = "" THEN nextId ELSE nextId + 1
    /\ should_use' = (daemon' # 0)

\* Construction and init(vm): the address from the command line; the
\* check time starts at the epoch, so the first check is due.
Init ==
    /\ \E address \in Addresses :
          /\ daemon = IF address = "" THEN 0 ELSE 1
          /\ alive = IF address = "" THEN {} ELSE {1}
          /\ nextId = IF address = "" THEN 1 ELSE 2
          /\ should_use = (address # "")
    /\ checkDue = TRUE
    /\ holder = NoThread
    /\ ever_used = FALSE
    /\ pc = [t \in Threads |-> "idle"]
    /\ checked = [t \in Threads |-> 0]
    /\ ptr = [t \in Threads |-> 0]
    /\ readers = {}
    /\ req = [t \in Threads |-> "GET_HEIGHT"]

(***************************************************************************)
(* A request handler (GET_HEIGHT, GET_INFO, ...) on thread t.             *)
(***************************************************************************)
\* use_bootstrap_daemon_if_necessary calls should_bootstrap_lock, whose
\* first test reads the flag without the mutex.
Begin(t) ==
    /\ pc[t] = "idle"
    /\ \E h \in Forwarding : req' = [req EXCEPT ![t] = h]
    /\ pc' = [pc EXCEPT ![t] = IF should_use THEN "lock" ELSE "local"]
    /\ UNCHANGED <<daemon, alive, nextId, should_use, checkDue, holder, ever_used, checked, ptr, readers>>

\* GETBLOCKCOUNT (lines 1566-1580): under the shared lock, refuse with
\* "unsupported for bootstrap daemon" while the flag is set.
CheckUnsupported(t) ==
    /\ pc[t] = "idle" /\ holder = NoThread
    /\ req' = [req EXCEPT ![t] = "GETBLOCKCOUNT"]
    /\ pc' = [pc EXCEPT ![t] = IF should_use THEN "idle" ELSE "local"]
    /\ UNCHANGED <<daemon, alive, nextId, should_use, checkDue, holder, ever_used, checked, ptr, readers>>

\* Seeded fault (mutation testing): the nullptr test at line 1836 dropped.
LockNoNullTest(t) ==
    /\ pc[t] = "lock" /\ Unlocked
    /\ IF ~NoSync /\ checkDue
       THEN /\ holder' = t /\ checkDue' = FALSE
            /\ pc' = [pc EXCEPT ![t] = "fetch"]
            /\ checked' = [checked EXCEPT ![t] = daemon]
       ELSE /\ holder' = IF should_use THEN t ELSE NoThread
            /\ pc' = [pc EXCEPT ![t] = IF should_use THEN "forward" ELSE "local"]
            /\ UNCHANGED <<checkDue, checked>>
    /\ UNCHANGED <<daemon, alive, nextId, should_use, ever_used, ptr, readers, req>>

\* Lines 1835-1846 and 1870-1876: take the mutex; no daemon, or no height
\* check due and the flag now false, return it unlocked; a check due goes
\* on to fetch the height with the mutex held.
Lock(t) ==
    /\ pc[t] = "lock" /\ Unlocked
    /\ IF daemon = 0
       THEN /\ pc' = [pc EXCEPT ![t] = "local"]
            /\ UNCHANGED <<holder, checkDue, checked>>
       ELSE IF ~NoSync /\ checkDue
       THEN /\ holder' = t /\ checkDue' = FALSE
            /\ pc' = [pc EXCEPT ![t] = "fetch"]
            /\ checked' = [checked EXCEPT ![t] = daemon]
       ELSE /\ holder' = IF should_use THEN t ELSE NoThread
            /\ pc' = [pc EXCEPT ![t] = IF should_use THEN "forward" ELSE "local"]
            /\ UNCHANGED <<checkDue, checked>>
    /\ UNCHANGED <<daemon, alive, nextId, should_use, ever_used, ptr, readers, req>>

\* Seeded fault (mutation testing): no unlock before the return at 1853.
FetchKeepsLockOnFailure(t) ==
    /\ pc[t] = "fetch"
    /\ \/ pc' = [pc EXCEPT ![t] = "local"] /\ UNCHANGED <<holder, should_use>>
       \/ /\ holder' = NoThread /\ pc' = [pc EXCEPT ![t] = "hr_read"]
          /\ UNCHANGED should_use
       \/ \E ahead \in BOOLEAN :
             /\ should_use' = ahead
             /\ holder' = IF ahead THEN t ELSE NoThread
             /\ pc' = [pc EXCEPT ![t] = IF ahead THEN "forward" ELSE "local"]
    /\ UNCHANGED <<daemon, alive, nextId, checkDue, ever_used, checked, ptr, readers, req>>

\* Lines 1848-1876, mutex held: get_height fails (return unlocked); the
\* daemon is below the target height (unlock, then handle_result(false));
\* or the flag becomes "our top + 10 < its height", and the mutex is kept
\* exactly when it is true.
Fetch(t) ==
    /\ pc[t] = "fetch"
    /\ \/ /\ holder' = NoThread /\ pc' = [pc EXCEPT ![t] = "local"]
          /\ UNCHANGED should_use
       \/ /\ holder' = NoThread /\ pc' = [pc EXCEPT ![t] = "hr_read"]
          /\ UNCHANGED should_use
       \/ \E ahead \in BOOLEAN :
             /\ should_use' = ahead
             /\ holder' = IF ahead THEN t ELSE NoThread
             /\ pc' = [pc EXCEPT ![t] = IF ahead THEN "forward" ELSE "local"]
    /\ UNCHANGED <<daemon, alive, nextId, checkDue, ever_used, checked, ptr, readers, req>>

\* Line 1861, after the unlock: load m_bootstrap_daemon ...
HandleResultLoad(t) ==
    /\ pc[t] = "hr_read"
    /\ ptr' = [ptr EXCEPT ![t] = daemon]
    /\ pc' = [pc EXCEPT ![t] = "hr_call"]
    /\ UNCHANGED <<daemon, alive, nextId, should_use, checkDue, holder, ever_used, checked, readers, req>>

\* ... and call handle_result(false) on it; the request is then served
\* locally (the returned lock is unheld).
HandleResultCall(t) ==
    /\ pc[t] = "hr_call"
    /\ pc' = [pc EXCEPT ![t] = "local"]
    /\ UNCHANGED <<daemon, alive, nextId, should_use, checkDue, holder, ever_used, checked, ptr, readers, req>>

\* Lines 1894-1920 with the lock held: invoke_http_bin / invoke_http_json_rpc
\* on the daemon; on failure the exception unwinds, on success the result
\* is marked untrusted and m_was_bootstrap_ever_used set.  Either way the
\* lock is released on return; GET_INFO then goes on to line 446.
Forward(t) ==
    /\ pc[t] = "forward"
    /\ \E success \in BOOLEAN :
          /\ ever_used' = (ever_used \/ success)
          /\ pc' = [pc EXCEPT ![t] = IF success /\ req[t] = "GET_INFO" THEN "info_lock" ELSE "idle"]
    /\ holder' = NoThread
    /\ UNCHANGED <<daemon, alive, nextId, should_use, checkDue, checked, ptr, readers, req>>

\* GET_INFO after a forwarded answer (lines 446-451): take the shared lock
\* and test m_bootstrap_daemon for nullptr ...
InfoLock(t) ==
    /\ pc[t] = "info_lock" /\ holder = NoThread
    /\ IF daemon # 0
       THEN /\ readers' = readers \cup {t}
            /\ pc' = [pc EXCEPT ![t] = "info_address"]
       ELSE /\ pc' = [pc EXCEPT ![t] = "idle"]
            /\ UNCHANGED readers
    /\ UNCHANGED <<daemon, alive, nextId, should_use, checkDue, holder, ever_used, checked, ptr, req>>

\* ... call address() on it and release the lock; the rest of the branch
\* (lines 453-457) reads the local top and sets was_bootstrap_ever_used.
InfoAddress(t) ==
    /\ pc[t] = "info_address"
    /\ readers' = readers \ {t}
    /\ pc' = [pc EXCEPT ![t] = "idle"]
    /\ UNCHANGED <<daemon, alive, nextId, should_use, checkDue, holder, ever_used, checked, ptr, req>>

\* The handler's own body, e.g. GET_HEIGHT lines 422-436.  GET_INFO's local
\* branch (lines 459-530) reads the bootstrap address and
\* m_was_bootstrap_ever_used under the shared lock for an admin caller only.
ServeLocally(t) ==
    /\ pc[t] = "local"
    /\ \E admin \in BOOLEAN : admin /\ req[t] = "GET_INFO" => holder = NoThread
    /\ pc' = [pc EXCEPT ![t] = "idle"]
    /\ UNCHANGED <<daemon, alive, nextId, should_use, checkDue, holder, ever_used, checked, ptr, readers, req>>

\* SET_BOOTSTRAP_DAEMON (lines 1512-1528) on thread t: set_bootstrap_daemon
\* takes the unique lock for its whole body.
\* Seeded fault (mutation testing): set_bootstrap_daemon does not wait for
\* the shared owners.
SetBootstrapDaemonIgnoresReaders(t) ==
    /\ pc[t] = "idle" /\ holder = NoThread
    /\ \E address \in Addresses : SetDaemon(address)
    /\ UNCHANGED <<checkDue, holder, ever_used, pc, checked, ptr, readers, req>>

SetBootstrapDaemon(t) ==
    /\ pc[t] = "idle" /\ Unlocked
    /\ \E address \in Addresses : SetDaemon(address)
    /\ UNCHANGED <<checkDue, holder, ever_used, pc, checked, ptr, readers, req>>

\* 30 seconds pass.
Tick ==
    /\ ~checkDue
    /\ checkDue' = TRUE
    /\ UNCHANGED <<daemon, alive, nextId, should_use, holder, ever_used, pc, checked, ptr, readers, req>>

Next ==
    \/ \E t \in Threads :
          \/ Begin(t) \/ Lock(t) \/ Fetch(t) \/ HandleResultLoad(t)
          \/ HandleResultCall(t) \/ Forward(t) \/ InfoLock(t) \/ InfoAddress(t)
          \/ ServeLocally(t) \/ CheckUnsupported(t) \/ SetBootstrapDaemon(t)
    \/ Tick

Spec == Init /\ [][Next]_vars

\* The steps a worker thread takes once its request is under way.  A
\* scheduled thread keeps running, and the remote calls return (the HTTP
\* client has timeouts); new requests, SET_BOOTSTRAP_DAEMON and the passing
\* of time are up to the clients and are not assumed to happen.
ThreadSteps(t) ==
    \/ Lock(t) \/ Fetch(t) \/ HandleResultLoad(t) \/ HandleResultCall(t)
    \/ Forward(t) \/ InfoLock(t) \/ InfoAddress(t) \/ ServeLocally(t)

FairSpec == Spec /\ \A t \in Threads : WF_vars(ThreadSteps(t))

(***************************************************************************)
(* Properties                                                             *)
(***************************************************************************)
\* The calls made through m_bootstrap_daemon with the mutex held, get_height
\* (line 1848) and the forwarded request (1898, 1910), reach a live object:
\* the mutex keeps set_bootstrap_daemon from resetting it, and the nullptr
\* test at 1836 catches a daemon removed after the unlocked flag read.
\* The same holds of GET_INFO's address() call (line 449) under the shared
\* lock, which set_bootstrap_daemon's unique lock must wait for.
LockedCallsOnLiveDaemon ==
    \A t \in Threads :
       /\ pc[t] \in {"fetch", "forward"} => holder = t /\ daemon \in alive
       /\ pc[t] = "info_address" => t \in readers /\ daemon \in alive

\* Every return path of should_bootstrap_lock that does not forward
\* releases m_bootstrap_daemon_mutex: only a thread fetching the height or
\* forwarding holds it, so no RPC thread waits on a lock nobody will free.
MutexHeldOnlyToForward ==
    holder # NoThread => pc[holder] \in {"fetch", "forward"}

\* handle_result(false) at line 1861 runs on the daemon object whose height
\* was found behind the target, and that object is still alive.
HandleResultOnLiveDaemon ==
    \A t \in Threads : pc[t] = "hr_call" => ptr[t] = checked[t] /\ ptr[t] \in alive

\* A thread that owns m_bootstrap_daemon_mutex, uniquely or shared, gives it
\* up: every path through should_bootstrap_lock, the forwarding and
\* GET_INFO's address read ends in an unlock, so SET_BOOTSTRAP_DAEMON and
\* the other threads are not blocked for good.
MutexEventuallyReleased ==
    \A t \in Threads : (holder = t \/ t \in readers) ~> (holder # t /\ t \notin readers)

=============================================================================
