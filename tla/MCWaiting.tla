------------------------------ MODULE MCWaiting ------------------------------
(***************************************************************************)
(* One issue with a few runs, one bead closed by hand, and `po wait` for   *)
(* the issue, for both, or for any of the two.                             *)
(***************************************************************************)
EXTENDS Waiting, TLC

CONSTANT First   \* the client that submits first: the others are its like

MCCalls == {[ids |-> {Issue}, any |-> FALSE]} \cup [ids : {{Issue} \cup Others}, any : BOOLEAN]

\* Bound: two things that go wrong in a behaviour, of which one call that is refused;
\* one, and one submission, where there are more beads to wait for.
Several == \E w \in Waiters : Ids(w) # {Issue}

FewTroubles ==
    /\ refusals + troubles <= 1
    /\ refusals + troubles + crashes <= IF Several THEN 1 ELSE 2
    /\ Several => \A c \in Clients \ {First} : SubAt(c, "idle")
    /\ ~Several => \A b \in Others : bead[b].status = "open"

FirstAsksFirst == SubAt(First, "idle") => \A c \in Clients : SubAt(c, "idle")

Small == FewTroubles /\ FirstAsksFirst

\* Asserted of every state that is reached.
Typed == Assert(SchedTypeOK, "ill-typed")
=============================================================================
