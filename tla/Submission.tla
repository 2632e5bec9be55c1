------------------------------ MODULE Submission ------------------------------
(***************************************************************************)
(* submit_scheduled_run (scheduling.py): find or make the deployment of a  *)
(* formula, make sure that a worker serves its pool, create a flow run in  *)
(* state Scheduled. Each request to the server is a step, so that several  *)
(* clients interleave; what a worker then does with the run is Prefect's.  *)
(***************************************************************************)
EXTENDS WorkerPool

CONSTANTS
    Clients,      \* processes that submit
    Deployments,  \* names of deployments
    DefaultPool,  \* PO_WORK_POOL
    MaxRefusals   \* bound: requests that the server or the shell refuses

NoPool == "no pool"
Absent == "absent"

ASSUME SubmissionAssumption ==
    /\ DefaultPool \in Pools /\ NoPool \notin Pools /\ Absent \notin Pools
    /\ MaxRefusals \in Nat

VARIABLES
    catalog,   \* what the installed packs offer, by deployment: is it declared in the
               \* pack's register(), can its flow be loaded?
    deployed,  \* the server's deployments: the pool each is for
    sub,       \* a client's submission: where it stands, what it asks for, what it got
    refusals

subVars == <<poolVars, catalog, deployed, sub, refusals>>

SubPCs == {"idle", "find", "apply", "create", "probe", "ensure", "spawn", "submit",
           "done", "missing", "error"}
RunStates == {"none", "scheduled", "running", "completed", "failed"}
NoSub == [at |-> "idle", dep |-> Absent, pool |-> NoPool, warned |-> FALSE, run |-> "none",
          in |-> NoPool, place |-> Here, blind |-> FALSE, bereft |-> FALSE]
Subs == [at : SubPCs, dep : Deployments \cup {Absent}, pool : Pools \cup {NoPool},
         warned : BOOLEAN, run : RunStates, in : Pools \cup {NoPool}, place : Places,
         blind : BOOLEAN, bereft : BOOLEAN]

SubTypeOK ==
    /\ PoolTypeOK
    /\ catalog \in [Deployments -> [declared : BOOLEAN, flow : BOOLEAN]]
    /\ deployed \in [Deployments -> Pools \cup {NoPool, Absent}]
    /\ sub \in [Clients -> Subs]
    /\ refusals \in 0..MaxRefusals

SubInit ==
    /\ PoolInit
    /\ sub = [c \in Clients |-> NoSub]
    /\ refusals = 0

-----------------------------------------------------------------------------

SubSame == UNCHANGED <<catalog, refusals>>
SubAt(c, from) == sub[c].at = from
SubGo(c, to) == sub' = [sub EXCEPT ![c].at = to]
Refused == refusals < MaxRefusals /\ refusals' = refusals + 1

\* submit_scheduled_run is called, for an environment's own pool or for none.
Ask(c, dep, pool) ==
    sub' = [sub EXCEPT ![c] = [NoSub EXCEPT !.at = "find", !.dep = dep, !.pool = pool]]

\* `--env`: the deployment of the environment is found and used as it is, or made.
FindForEnv(c) ==
    LET s == sub[c] IN
    /\ SubAt(c, "find") /\ s.pool # NoPool
    /\ SubGo(c, IF deployed[s.dep] # Absent THEN "probe"
                ELSE IF catalog[s.dep].flow THEN "create" ELSE "missing")
    /\ SubSame /\ UNCHANGED <<poolVars, deployed>>

\* What is still to be done about the deployment that was found: one without a pool
\* wants repair like one that is not there. A pack's declaration is tried first, then
\* its flow. When neither is there, only the missing one is an error.
NextOf(dep, declared) ==
    IF deployed[dep] \in Pools THEN "probe"
    ELSE IF declared THEN "apply"
    ELSE IF catalog[dep].flow THEN "create"
    ELSE IF deployed[dep] = Absent THEN "missing" ELSE "probe"

FindManual(c) ==
    /\ SubAt(c, "find") /\ sub[c].pool = NoPool
    /\ SubGo(c, NextOf(sub[c].dep, catalog[sub[c].dep].declared))
    /\ SubSame /\ UNCHANGED <<poolVars, deployed>>

\* Applying upserts by name; the declared one gets the default pool.
Apply(c) ==
    /\ SubAt(c, "apply")
    /\ deployed' = [deployed EXCEPT ![sub[c].dep] = DefaultPool]
    /\ SubGo(c, "probe")
    /\ SubSame /\ UNCHANGED poolVars

\* Mutant: the deployment that is made has no pool.
PoolOf_None(c) == NoPool

\* The pool a deployment is made for.
PoolOf(c) == IF sub[c].pool # NoPool THEN sub[c].pool ELSE DefaultPool

Create(c) ==
    /\ SubAt(c, "create")
    /\ deployed' = [deployed EXCEPT ![sub[c].dep] = PoolOf(c)]
    /\ SubGo(c, "probe")
    /\ SubSame /\ UNCHANGED poolVars

\* The pool whose workers are looked for: the environment's, else the deployment's.
Probed(c) == IF sub[c].pool # NoPool THEN sub[c].pool ELSE deployed[sub[c].dep]

\* The first half of _ensure_worker_for_pool. Without a pool, and when the server does
\* not answer, nothing is ensured and nothing said; a worker that is registered counts,
\* offline or not. `bereft` is history: what counted was dead.
Probe(c) ==
    /\ SubAt(c, "probe")
    /\ \/ /\ LET p == Probed(c)
                unserved == p \in Pools /\ Registered(p) = {}
            IN  sub' = [sub EXCEPT
                    ![c].at = IF unserved THEN "ensure" ELSE "submit",
                    ![c].bereft = p \in Pools /\ ~unserved /\ Alive(p) = {}]
          /\ UNCHANGED refusals
       \/ /\ Probed(c) \in Pools /\ Refused
          /\ sub' = [sub EXCEPT ![c].at = "submit", ![c].blind = TRUE]
    /\ UNCHANGED <<poolVars, catalog, deployed>>

\* ensure_pool_worker, told that there is none: a process of this place will do.
Ensure(c) ==
    /\ SubAt(c, "ensure")
    /\ LET ensured == Ensured(Probed(c), 0, TRUE)
       IN  sub' = [sub EXCEPT ![c].at = IF ensured = "spawn" THEN "spawn" ELSE "submit",
                              ![c].warned = ensured = "disabled"]
    /\ SubSame /\ UNCHANGED <<poolVars, deployed>>

Spawn(c) ==
    /\ SubAt(c, "spawn")
    /\ \/ /\ SpawnWorker(Probed(c))
          /\ SubGo(c, "submit")
          /\ UNCHANGED refusals
       \/ /\ Refused
          /\ sub' = [sub EXCEPT ![c].at = "submit", ![c].warned = TRUE]
          /\ UNCHANGED poolVars
    /\ UNCHANGED <<catalog, deployed>>

\* arun_deployment: the run goes to the pool the deployment has by then.
Submit(c) ==
    /\ SubAt(c, "submit")
    /\ \/ /\ deployed[sub[c].dep] # Absent
          /\ sub' = [sub EXCEPT ![c].at = "done", ![c].run = "scheduled",
                                ![c].in = deployed[sub[c].dep]]
          /\ UNCHANGED refusals
       \/ Refused /\ SubGo(c, "error")
    /\ UNCHANGED <<poolVars, catalog, deployed>>

SubSteps(c) ==
    \/ FindForEnv(c) \/ FindManual(c) \/ Apply(c) \/ Create(c)
    \/ Probe(c) \/ Ensure(c) \/ Spawn(c) \/ Submit(c)

=============================================================================
