----------------------------- MODULE Deployment -----------------------------
(***************************************************************************)
(* The image runs several uvicorn processes, each with a pool of threads   *)
(* that serve the requests.  Threads of one process share its locks and    *)
(* its memory; processes share the database only.                          *)
(***************************************************************************)
CONSTANTS
    Workers,    \* threads that serve requests
    Processes   \* the processes

VARIABLE
    process     \* the process each worker is a thread of

\* Any deployment of the threads.
DeploymentInit == process \in [Workers -> Processes]

\* The processes that serve anyone.
Staffed == {process[w] : w \in Workers}

Elsewhere(w) == {v \in Workers : process[v] # process[w]}

\* A lock of each process and its holder, if there is one.
NoHolders == [p \in Processes |-> {}]
LockFree(lock, w) == lock[process[w]] = {}
Locked(lock, w) == [lock EXCEPT ![process[w]] = {w}]
Unlocked(lock, w) == [lock EXCEPT ![process[w]] = {}]
=============================================================================
