------------------------------ MODULE WorkerPool ------------------------------
(***************************************************************************)
(* The workers of Prefect work pools, and how workers.py makes sure that a *)
(* pool has one: `prefect worker start --pool p` processes on some place,  *)
(* the server's register of them, and ensure_pool_worker, which counts,    *)
(* looks for a process of its own place and then spawns.                   *)
(***************************************************************************)
EXTENDS Naturals, FiniteSets

CONSTANTS
    Pools,
    Places,       \* machines that workers run on
    Here,         \* the one the dispatching commands run on
    AutoWorker    \* auto_worker_enabled: PO_AUTO_WORKER

ASSUME WorkerPoolAssumption ==
    /\ Here \in Places
    /\ AutoWorker \in BOOLEAN

VARIABLES
    procs,   \* live worker processes, by pool and place
    known    \* the server's register: a worker's status, by pool and place

poolVars == <<procs, known>>

PoolTypeOK ==
    /\ procs \in [Pools -> [Places -> Nat]]
    /\ known \in [Pools -> [Places -> {"unknown", "online", "offline"}]]

PoolInit ==
    /\ procs = [p \in Pools |-> [x \in Places |-> 0]]
    /\ known = [p \in Pools |-> [x \in Places |-> "unknown"]]

-----------------------------------------------------------------------------

\* Any worker the server has ever heard of, alive or not.
Registered(p) == {x \in Places : known[p][x] # "unknown"}

\* count_online_workers: what the server takes to be alive. A pool that is not there
\* has none; a server that cannot be asked is for the caller to decide.
Online(p) == {x \in Places : known[p][x] = "online"}

Alive(p) == {x \in Places : procs[p][x] > 0}

\* local_worker_process_running.
LocalWorkerRunning(p) == procs[p][Here] > 0

\* spawn_detached_worker: a process that outlives its parent.
SpawnWorker(p) == procs' = [procs EXCEPT ![p][Here] = @ + 1] /\ UNCHANGED known

\* Mutant: no worker is one.
Ensured_None(p, n, asked) ==
    IF ~AutoWorker THEN "disabled"
    ELSE IF ~asked THEN "unreachable"
    ELSE IF n >= 0 \/ LocalWorkerRunning(p) THEN "already-online"
    ELSE "spawn"

\* What ensure_pool_worker comes to before it spawns; n workers were counted, or the
\* server could not be asked.
Ensured(p, n, asked) ==
    IF ~AutoWorker THEN "disabled"
    ELSE IF ~asked THEN "unreachable"
    ELSE IF n > 0 \/ LocalWorkerRunning(p) THEN "already-online"
    ELSE "spawn"

-----------------------------------------------------------------------------
(* Prefect's side. An auto-started worker has a fixed name: two of them    *)
(* show as one.                                                            *)

Heartbeat(p, x) ==
    /\ procs[p][x] > 0 /\ known[p][x] # "online"
    /\ known' = [known EXCEPT ![p][x] = "online"]
    /\ UNCHANGED procs

\* The server notices some time after the last of them has died.
GoesOffline(p, x) ==
    /\ procs[p][x] = 0 /\ known[p][x] = "online"
    /\ known' = [known EXCEPT ![p][x] = "offline"]
    /\ UNCHANGED procs

\* kill, a reboot, `po serve`'s unit stopped, a machine gone.
WorkerDies(p, x) ==
    /\ procs[p][x] > 0
    /\ procs' = [procs EXCEPT ![p][x] = @ - 1]
    /\ UNCHANGED known

PoolNext == \E p \in Pools, x \in Places : Heartbeat(p, x) \/ GoesOffline(p, x)

=============================================================================
