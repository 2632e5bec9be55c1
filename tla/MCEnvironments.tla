---------------------------- MODULE MCEnvironments ----------------------------
(***************************************************************************)
(* Two or three commands at once, on each kind of machine.                 *)
(***************************************************************************)
EXTENDS Environments, TLC

CONSTANTS e1, j1, j2, j3, h, d, v, n, i1, i2

Kinds == h :> "ssh" @@ d :> "daytona" @@ v :> "vm" @@ n :> "plain"

Task(cmd, m, i) == [cmd |-> cmd, env |-> e1, home |-> m, issue |-> i, rebuild |-> FALSE,
                    always |-> FALSE, keyed |-> FALSE]
Three(a, b, c) == j1 :> a @@ j2 :> b @@ j3 :> c
Up(m) == Task("up", m, i1)
Run(m, i) == Task("run", m, i)
Ephemeral(always, keyed) ==
    [Task("ephemeral", n, i1) EXCEPT !.always = always, !.keyed = keyed]

\* What is run together: with a sandbox every command, with the other machines what
\* differs there.
MCSetups ==
    {Three(Up(d), Run(d, i1), Task(cmd, d, i2)) : cmd \in {"run", "down", "reap"}}
    \cup {Three(Up(d), Task("stop", d, i1), Task("start", d, i1))}
    \cup {Three(Up(m), [Run(m, i1) EXCEPT !.rebuild = TRUE], Task("sync", m, i2)) : m \in {h, v}}
    \cup {Three(Ephemeral(always, keyed), Task("reap", n, i1), Task("sync", n, i1)) :
             always, keyed \in BOOLEAN}

MCInstalled == {Machines, Machines \ {h}}

Asked(t) == \E c \in Clients : task[c] = t

\* Bounds: calls fail, and processes die, where fewer of them interleave; the identity
\* is edited where fewer runs are; a formula or a tool is missing in one set each.
FaultsAlone == Asked(Run(d, i1)) => faults = 0
EditsAlone == Asked(Run(d, i2)) \/ (\E c \in Clients : task[c].cmd \in {"stop", "ephemeral"}) => mine = 1
MissingOnce ==
    /\ machine[h].prefect \/ Asked(Up(h))
    /\ catalog[e1].flow \/ Asked(Up(v)) \/ Asked(Ephemeral(TRUE, TRUE))

Small == FaultsAlone /\ EditsAlone /\ MissingOnce

\* Asserted of every state that is reached.
Typed == Assert(EnvTypeOK, "ill-typed")
=============================================================================
