---------------------------- MODULE GoalContract ----------------------------
(***************************************************************************)
(* What goal_loop promises, with no beads, turns, nudges or crashes: each  *)
(* role-step is answered at most once and for good, in the order of the    *)
(* protocol, and the outcome is the one those answers stand for.           *)
(***************************************************************************)
EXTENDS Integers

CONSTANT MaxIters
VARIABLES
    answer,     \* role-step -> the verdict its bead carries, or "none"
    outcome     \* what the loop reported, or "none"

cvars == <<answer, outcome>>

RoleSteps == {"actor", "critic"} \X (1..MaxIters)

Verdicts(step) == IF step = "actor" THEN {"done", "unable", "complete", ""}
                  ELSE {"approved", "rejected", "infeasible", "complete", ""}

\* The answers after which the loop goes on.
Continues(k) ==
    IF k[1] = "actor" THEN answer[k] \notin {"none", "unable"}
                      ELSE answer[k] \notin {"none", "approved", "infeasible"}

\* The critic judges an actor that did not give up; the actor tries again
\* when the critic neither approved nor declared the goal infeasible.
Due(k) ==
    \/ k = <<"actor", 1>>
    \/ k[1] = "critic" /\ Continues(<<"actor", k[2]>>)
    \/ k[1] = "actor" /\ k[2] > 1 /\ Continues(<<"critic", k[2] - 1>>)

Answer(k) ==
    /\ answer[k] = "none" /\ Due(k)
    /\ \E v \in Verdicts(k[1]) : answer' = [answer EXCEPT ![k] = v]
    /\ UNCHANGED outcome

\* The four terminal states.
Ended(o) ==
    \/ o = "success" /\ \E i \in 1..MaxIters : answer[<<"critic", i>>] = "approved"
    \/ /\ o = "abandoned-critic"
       /\ \E i \in 1..MaxIters : answer[<<"critic", i>>] = "infeasible"
    \/ /\ o = "abandoned-actor"
       /\ \E i \in 1..MaxIters : answer[<<"actor", i>>] = "unable"
    \/ o = "exhausted" /\ Continues(<<"critic", MaxIters>>)

Report ==
    /\ outcome = "none"
    /\ outcome' \in {"success", "abandoned-critic", "abandoned-actor", "exhausted"}
    /\ Ended(outcome')
    /\ UNCHANGED answer

Init == answer = [k \in RoleSteps |-> "none"] /\ outcome = "none"
Next == (\E k \in RoleSteps : Answer(k)) \/ Report
Spec == Init /\ [][Next]_cvars
=============================================================================
