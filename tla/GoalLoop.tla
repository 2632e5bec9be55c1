------------------------------ MODULE GoalLoop ------------------------------
(***************************************************************************)
(* goal_loop (prefect_orchestration/goal_loop.py) over agent_step: an      *)
(* actor works, a critic judges, at most MaxIters times.  A run that fails *)
(* or is killed is run again from the top on the same seed bead, and finds *)
(* the beads, the id map and the agents its predecessors left.             *)
(***************************************************************************)
EXTENDS AgentStep

CONSTANT MaxRuns        \* bound: runs of the flow on one seed

ASSUME LoopAssumption == Steps = {"actor", "critic"} /\ MaxRuns \in Nat

VARIABLES
    loop,       \* the running flow: which step it waits for
    runs,       \* runs started
    outcome     \* status the last completed run returned

loopVars == <<loop, runs, outcome>>
allVars == <<vars, loop, runs, outcome>>

Stopped == [pc |-> "idle", i |-> 0]

LoopInit == Init /\ loop = Stopped /\ runs = 0 /\ outcome = "none"

RunStarts ==
    /\ loop.pc = "idle" /\ runs < MaxRuns
    /\ runs' = runs + 1
    /\ loop' = [pc |-> "actor", i |-> 1]
    /\ Call(<<"actor", 1>>)
    /\ UNCHANGED outcome

\* The step the loop waits for has returned.
Returned(step) ==
    loop.pc = step /\ call.pc = "idle" /\ result.by \in Endings

Conclude(status) ==
    /\ outcome' = status
    /\ loop' = Stopped
    /\ UNCHANGED <<runs, vars>>

ActorGivesUp ==
    /\ Returned("actor") /\ result.verdict = "unable"
    /\ Conclude("abandoned-actor")

\* Any other verdict, a failed turn's included, goes to the critic.
ActorReports ==
    /\ Returned("actor") /\ result.verdict # "unable"
    /\ loop' = [loop EXCEPT !.pc = "critic"]
    /\ Call(<<"critic", loop.i>>)
    /\ UNCHANGED <<runs, outcome>>

CriticApproves ==
    /\ Returned("critic") /\ result.verdict = "approved"
    /\ Conclude("success")

CriticAbandons ==
    /\ Returned("critic") /\ result.verdict = "infeasible"
    /\ Conclude("abandoned-critic")

\* Rejected, unparsed or failed: the actor tries again, up to max_iters.
CriticRejects ==
    /\ Returned("critic") /\ result.verdict \notin {"approved", "infeasible"}
    /\ IF loop.i < MaxIters
       THEN /\ loop' = [pc |-> "actor", i |-> loop.i + 1]
            /\ Call(<<"actor", loop.i + 1>>)
            /\ UNCHANGED <<runs, outcome>>
       ELSE Conclude("exhausted")

\* agent_step raised, or the process is gone.
RunFails ==
    /\ loop.pc # "idle" /\ call.pc = "idle" /\ result.by \in Raises
    /\ loop' = Stopped
    /\ UNCHANGED <<runs, outcome, vars>>

LoopStep == ActorGivesUp \/ ActorReports \/ CriticApproves \/ CriticAbandons
            \/ CriticRejects \/ RunFails

LoopNext ==
    \/ RunStarts
    \/ LoopStep
    \/ (FlowStep \/ Agents \/ Faults) /\ UNCHANGED loopVars

LoopSpec == LoopInit /\ [][LoopNext]_allVars

\* The flow's code runs whenever it can, and turns end.
LoopFairSpec ==
    LoopSpec /\ WF_allVars(FlowStep /\ UNCHANGED loopVars) /\ WF_allVars(LoopStep)

-----------------------------------------------------------------------------
(* Correctness.                                                            *)

\* The type invariant.
LoopTypeOK ==
    /\ TypeOK
    /\ loop \in [pc : {"idle", "actor", "critic"}, i : 0..MaxIters]
    /\ loop.pc # "idle" => loop.i > 0
    /\ runs \in 0..MaxRuns
    /\ outcome \in {"none", "success", "abandoned-critic", "abandoned-actor",
                   "exhausted"}

Contract == INSTANCE GoalContract WITH
    answer <- [k \in Keys |->
                 IF bead[Target(k)].status = "closed"
                 THEN Verdict(k[1], bead[Target(k)].reason) ELSE "none"]

\* The loop implements its contract across failed, killed and repeated runs:
\* beads are answered in the protocol's order, never change their answer, and
\* every run that ends on this seed reports the same outcome, theirs.
KeepsContract == Contract!Spec

\* Every run of the flow ends: within max_iters rounds it reports one of the
\* four terminal states or fails.
RunEnds == loop.pc # "idle" ~> loop.pc = "idle"

=============================================================================
