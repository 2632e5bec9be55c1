------------------------------ MODULE MCGoalLoop ------------------------------
(* Values for the constants of GoalLoop.                                     *)
EXTENDS GoalLoop, TLC

MCKeywords == [actor |-> <<"done", "unable">>,
               critic |-> <<"approved", "rejected", "infeasible">>]

\* What agents write: a keyword alone, a rejection whose words include
\* "approved", no reason at all.
MCReasons ==
    [actor |-> {[lead |-> "done", says |-> {"done"}],
                [lead |-> "unable", says |-> {"unable"}]},
     critic |-> {[lead |-> "approved", says |-> {"approved"}],
                 [lead |-> "rejected", says |-> {"approved", "rejected"}],
                 [lead |-> "infeasible", says |-> {"infeasible"}],
                 Silent}]

\* Asserted of every state that is reached.
Typed == Assert(LoopTypeOK, "ill-typed")
=============================================================================
