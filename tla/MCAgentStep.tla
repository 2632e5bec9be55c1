----------------------------- MODULE MCAgentStep -----------------------------
(* Values for the constants of AgentStep: one role of two iterations.      *)
EXTENDS AgentStep, TLC

MCKeywords == [s \in Steps |-> <<"approved", "rejected">>]

\* A rejection that mentions approval, and a close without a reason.
MCReasons ==
    [s \in Steps |->
        {[lead |-> "rejected", says |-> {"approved", "rejected"}], Silent}]

\* Asserted of every state that is reached.
Typed == Assert(TypeOK, "ill-typed")
=============================================================================
