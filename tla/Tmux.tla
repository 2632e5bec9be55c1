-------------------------------- MODULE Tmux --------------------------------
(***************************************************************************)
(* The tmux server that agent turns run in, as agent_session._spawn_tmux,  *)
(* _cleanup_tmux, tmux_tracker and cancel use it. A turn has one pane: a   *)
(* window of a session shared by the rig (scoped layout), or a session of  *)
(* its own (unscoped). A pane has the name of its turn: issue and role,    *)
(* with a random suffix when the turn is a fork. The model has one issue.  *)
(***************************************************************************)
EXTENDS Integers, FiniteSets

CONSTANTS Turns,  \* turns, in the order their processes were given them
          Roles

ASSUME TmuxAssumption == Turns \subseteq Nat \ {0} /\ IsFiniteSet(Turns)

VARIABLES scoped,  \* the layout
          name,    \* the name of a turn's pane and files
          pane     \* what a turn's pane shows

tmuxVars == <<scoped, name, pane>>

\* The suffix is drawn anew for each fork: the turn itself stands for it.
Plain == 0
Names == [role : Roles, suffix : Turns \cup {Plain}]
NameOf(t, role, fork) == [role |-> role, suffix |-> IF fork THEN t ELSE Plain]

PaneStates == {"none", "starting", "ready", "working", "answered", "limited", "full",
               "held", "gone"}

Live(t) == pane[t] \notin {"none", "gone"}

Called(n) == {t \in Turns : Live(t) /\ name[t] = n}

\* How tmux resolves `-t name`: the exact name, else the only one it is a prefix of.
Resolved(n) ==
    LET forks == {t \in Turns : Live(t) /\ name[t].role = n.role}
    IN  IF Called(n) # {} \/ n.suffix # Plain \/ Cardinality(forks) > 1
        THEN Called(n) ELSE forks

\* What _spawn_tmux returned: a window id, or the name of a session.
Target(t) == IF scoped THEN {t} \cap {u \in Turns : Live(u)} ELSE Resolved(name[t])

HasSession(t) == Target(t) # {}

Closed(victims) == [t \in Turns |-> IF t \in victims THEN "gone" ELSE pane[t]]

\* Mutant: the window is addressed by its name.
CleanupTmux_ByName(t) == pane' = Closed(Resolved(name[t]))

\* _cleanup_tmux.
CleanupTmux(t) == pane' = Closed(Target(t))

\* The first half of _spawn_tmux: a pane of the same name is killed. Of two windows of
\* one name tmux takes either.
KillSameName(t) ==
    IF Resolved(name[t]) = {} THEN UNCHANGED pane
    ELSE \E u \in Resolved(name[t]) : pane' = Closed({u})

\* The second half. A session of that name may have come up in between: tmux refuses
\* the duplicate. It does not refuse a second window of one name.
Duplicate(t) == ~scoped /\ Called(name[t]) # {}
NewPane(t) == /\ ~Duplicate(t)
              /\ pane' = [pane EXCEPT ![t] = "starting"]

\* tmux_tracker.kill_for_issue, in `po retry`: sessions and windows of the issue.
KillForIssue == pane' = Closed({t \in Turns : Live(t)})

\* cancel._kill_issue_tmux: the sessions named after the issue. Those are the panes of
\* the unscoped layout; the windows of a shared session are not looked at.
KillIssueSessions == pane' = IF scoped THEN pane ELSE Closed({t \in Turns : Live(t)})
=============================================================================
