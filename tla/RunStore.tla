------------------------------ MODULE RunStore ------------------------------
(***************************************************************************)
(* The state every run-control command of `po` shares, and the processes   *)
(* that change it without holding any lock: the Prefect worker that claims *)
(* a scheduled flow run, the flow controller that executes it, the agent   *)
(* sessions that controller opens, and the clock.                          *)
(*                                                                         *)
(* A flow run is an index of the sequence `runs`; runs are appended in the *)
(* order they are submitted, so a greater index is a later run.            *)
(***************************************************************************)
EXTENDS Integers, Sequences, FiniteSets

CONSTANTS
    Issues,      \* beads the project runs formulas on
    Scoped,      \* issues whose roles live in windows of a shared tmux session
    Clis,        \* `po resume`, `po retry` and `po cancel` processes
    Reconcilers, \* `po reconcile` processes (the timer's and a manual one)
    MaxClaimed,  \* bound: the runs, from the first one on, a worker may claim
    MaxRuns,     \* bound: flow runs a behaviour may create
    MaxKills     \* bound: controllers that may be killed

ASSUME StoreAssumption ==
    /\ Issues # {} /\ IsFiniteSet(Issues)
    /\ Scoped \subseteq Issues
    /\ Clis \cap Reconcilers = {}
    /\ MaxRuns \in Nat /\ MaxClaimed \in Nat /\ MaxKills \in Nat

VARIABLES
    runs,     \* Prefect: the flow runs, with `resumes` (history) counting the
              \* durable resumes reconciliation has submitted for the run
    old,      \* runs that started more than 24 hours ago
    ctrl,     \* runs whose controller process is alive
    agents,   \* runs with a live agent session (it may outlive its controller)
    kills,    \* controllers killed so far
    dirs,     \* issues whose run_dir exists
    stamped,  \* issues whose run_dir holds the .po-formula stamp
    markers,  \* runs with a .po-reconciled-<flow_run_id> file in their issue's run_dir
    stale     \* issues whose newest run_dir file is older than stale_secs

storeVars == <<runs, old, ctrl, agents, kills, dirs, stamped, markers, stale>>

RunStates == {"Scheduled", "Running", "Completed", "Failed", "Cancelled"}
Terminal  == {"Completed", "Failed", "Cancelled"}
Run       == [issue : Issues, state : RunStates, resumes : Nat]
Callers   == Clis \cup Reconcilers

StoreTypeOK ==
    /\ runs \in Seq(Run)
    /\ old \subseteq DOMAIN runs
    /\ ctrl \subseteq DOMAIN runs
    /\ agents \subseteq DOMAIN runs
    /\ markers \subseteq DOMAIN runs
    /\ kills \in Nat
    /\ dirs \subseteq Issues
    /\ stamped \subseteq dirs
    /\ stale \subseteq Issues

-----------------------------------------------------------------------------
(* Queries.                                                                *)

RunsOf(i)     == {r \in DOMAIN runs : runs[r].issue = i}
RunningOf(i)  == {r \in RunsOf(i) : runs[r].state = "Running"}
InFlight(i)   == RunningOf(i) # {}
IsLatest(r, S) == r \in S /\ \A s \in S : s =< r

\* The run record of a fresh submission or of a flow called in process.
FreshRun(i, s) == [issue |-> i, state |-> s, resumes |-> 0]

SetState(r, s) == [runs EXCEPT ![r].state = s]

\* `po run <formula>` has submitted one run for each issue: the run_dir and
\* its .po-formula stamp were written before a worker could claim the run.
StoreInit ==
    /\ \E order \in [1 .. Cardinality(Issues) -> Issues] :
          /\ \A i \in Issues : \E k \in DOMAIN order : order[k] = i
          /\ runs = [k \in DOMAIN order |-> FreshRun(order[k], "Scheduled")]
    /\ old = {} /\ ctrl = {} /\ agents = {} /\ markers = {} /\ stale = {}
    /\ kills = 0
    /\ dirs = Issues
    /\ stamped = Issues

-----------------------------------------------------------------------------
(* The worker and the controllers it launches.                             *)

WorkerClaims(r) ==
    /\ r \in DOMAIN runs
    /\ runs[r].state = "Scheduled"
    /\ r =< MaxClaimed
    /\ runs' = SetState(r, "Running")
    /\ ctrl' = ctrl \cup {r}
    /\ UNCHANGED <<old, agents, kills, dirs, stamped, markers, stale>>

\* A controller opens an agent session for its next role: the run_dir is
\* created if a retry archived it, its files become fresh.
StartTurn(r) ==
    /\ r \in ctrl \ agents
    /\ agents' = agents \cup {r}
    /\ dirs' = dirs \cup {runs[r].issue}
    /\ stale' = stale \ {runs[r].issue}
    /\ UNCHANGED <<runs, old, ctrl, kills, stamped, markers>>

\* An agent ends its turn and its session exits, with or without a controller.
EndTurn(r) ==
    /\ r \in agents
    /\ agents' = agents \ {r}
    /\ stale' = IF runs[r].issue \in dirs THEN stale \ {runs[r].issue} ELSE stale
    /\ UNCHANGED <<runs, old, ctrl, kills, dirs, stamped, markers>>

\* The flow returns. Prefect keeps a terminal state forced from outside.
FlowCompletes(r) ==
    /\ r \in ctrl \ agents
    /\ ctrl' = ctrl \ {r}
    /\ runs' = IF runs[r].state = "Running" THEN SetState(r, "Completed") ELSE runs
    /\ UNCHANGED <<old, agents, kills, dirs, stamped, markers, stale>>

FlowRaises(r) ==
    /\ r \in ctrl \ agents
    /\ ctrl' = ctrl \ {r}
    /\ runs' = IF runs[r].state = "Running" THEN SetState(r, "Failed") ELSE runs
    /\ UNCHANGED <<old, agents, kills, dirs, stamped, markers, stale>>

\* The worker host kills a controller (OOM, reboot, deploy): Prefect still
\* shows Running, and a detached agent session may survive.
ControllerDies(r) ==
    /\ r \in ctrl
    /\ kills < MaxKills
    /\ kills' = kills + 1
    /\ ctrl' = ctrl \ {r}
    /\ agents' \in {agents, agents \ {r}}
    /\ UNCHANGED <<runs, old, dirs, stamped, markers, stale>>

\* stale_secs pass without a write under the run_dir.
ArtifactsAge(i) ==
    /\ i \in dirs \ stale
    /\ stale' = stale \cup {i}
    /\ UNCHANGED <<runs, old, ctrl, agents, kills, dirs, stamped, markers>>

\* A run is older than the 24 hour policy boundary.
RunAges(r) ==
    /\ r \in DOMAIN runs \ old
    /\ runs[r].state = "Running"
    /\ old' = old \cup {r}
    /\ UNCHANGED <<runs, ctrl, agents, kills, dirs, stamped, markers, stale>>

=============================================================================
