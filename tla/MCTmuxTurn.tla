----------------------------- MODULE MCTmuxTurn -----------------------------
(***************************************************************************)
(* Two turns of one role: each pair of backends that share code paths,     *)
(* with both layouts. The lock and the settings file matter to the TUI.    *)
(***************************************************************************)
EXTENDS TmuxTurn, TLC

File(hook, others, ok) == [stop |-> hook, rest |-> others, legible |-> ok]

Setup(k1, k2, layouts, locks, files) ==
    [kind : {<<k1, k2>>}, scoped : layouts, locking : locks, settings : files]

Absent  == File("none", FALSE, TRUE)
Foreign == File("theirs", TRUE, TRUE)
Garbled == File("none", TRUE, FALSE)

MCSetups ==
    Setup("claude", "claude", {FALSE}, {TRUE}, {Absent})
    \cup Setup("codex", "cursor", {TRUE}, {TRUE}, {Absent})
    \cup Setup("claude", "tui", {TRUE}, {FALSE}, {Garbled})
    \cup Setup("tui", "tui", {FALSE}, {TRUE}, {Foreign})

\* Asserted of every state that is reached.
Typed == Assert(TmuxTypeOK, "ill-typed")
=============================================================================
