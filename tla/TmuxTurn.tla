------------------------------ MODULE TmuxTurn ------------------------------
(***************************************************************************)
(* Agent turns in tmux panes: the run methods of TmuxClaudeBackend,        *)
(* TmuxCodexBackend and TmuxCursorBackend ("print" turns, which talk to    *)
(* their pane through an .in, an .out and an .rc file) and of              *)
(* TmuxInteractiveClaudeBackend (the TUI: the prompt is pasted, the end of *)
(* the turn is a sentinel written by Claude's Stop hook).                  *)
(*                                                                         *)
(* Each turn is a process; the program in its pane is another one, which   *)
(* outlives it. Turns of one role share names and files, unless they are   *)
(* forks. Processes die, operators interrupt, retry and cancel.            *)
(***************************************************************************)
EXTENDS Tmux

CONSTANTS
    Setups,     \* backends of the turns, layout, is the rig's spawn lock usable, and the
                \* settings file they find
    Forks,      \* values of run(fork=...)
    Priors,     \* values of: is a session to be resumed?
    MaxFaults   \* bound: deaths, interrupts, retries, cancels, refusals of tmux

Kinds == {"claude", "codex", "cursor", "tui"}
Settings == [stop : {"none", "ours", "theirs"}, rest : BOOLEAN, legible : BOOLEAN]

ASSUME TmuxTurnAssumption ==
    /\ Setups \subseteq [kind : [Turns -> Kinds], scoped : BOOLEAN, locking : BOOLEAN,
                         settings : Settings]
    /\ Forks \subseteq BOOLEAN /\ Priors \subseteq BOOLEAN
    /\ MaxFaults \in Nat

VARIABLES
    kind,          \* a turn's backend
    knowsSid,      \* does it know its session's id before the agent has started?
    locking,       \* is the spawn lock usable?
    lock,          \* the turn that holds it
    settings,      \* .claude/settings.local.json: the Stop hook, and all the rest
    pc,
    result,        \* how a turn ended, and the turns whose answers it took
    in, out, rc,   \* files by name: prompt of a turn, answers in it, exit code
    tee,           \* does the pane's tee write to the file now called .out?
    got, answer,   \* the prompt a pane's agent read, and what it came to
    stop,          \* sentinels, by the turn whose agent's session they name
    late,          \* sentinels written since a turn took spawn_start
    rivals,        \* (history) turns of the role that were under way, or had left
                   \* a pane, at some time during a turn
    faults

fileVars == <<in, out, rc, tee>>
agentVars == <<got, answer, stop, late>>
rest == <<scoped, kind, knowsSid, locking, name, rivals>>
vars == <<tmuxVars, kind, knowsSid, locking, lock, settings, pc, result, fileVars, agentVars,
          rivals, faults>>

NoTurn == 0
None == "none"
PCs == {"new", "lock", "kill", "create", "tui", "check", "paste", "enter", "guard",
        "wait", "read", "clean", "ended", "dead"}
Answers == {"ok", "limited", "full", "error"}
Results == Answers \cup {None, "interrupted", "timeout", "noFile", "refused", "unbound",
                         "disappeared", "exited", "unpasted", "wedged", "gone", "signalled"}
Prints(t) == kind[t] # "tui"
Active(t) == pc[t] \notin {"new", "ended", "dead"}

TmuxTypeOK ==
    /\ scoped \in BOOLEAN /\ locking \in BOOLEAN
    /\ name \in [Turns -> Names]
    /\ pane \in [Turns -> PaneStates]
    /\ kind \in [Turns -> Kinds]
    /\ knowsSid \in [Turns -> BOOLEAN]
    /\ lock \in Turns \cup {NoTurn}
    /\ settings \in Settings
    /\ pc \in [Turns -> PCs]
    /\ result \in [Turns -> [kind : Results, from : SUBSET Turns]]
    /\ in \in [Names -> Turns \cup {NoTurn}]
    /\ out \in [Names -> SUBSET Turns]
    /\ rc \in [Names -> {None, "zero", "nonzero"}]
    /\ tee \in [Turns -> BOOLEAN]
    /\ got \in [Turns -> Turns \cup {NoTurn}]
    /\ answer \in [Turns -> Answers \cup {None}]
    /\ stop \in [Turns -> BOOLEAN]
    /\ late \in [Turns -> SUBSET Turns]
    /\ rivals \in [Turns -> SUBSET Turns]
    /\ faults \in 0..MaxFaults

Init ==
    /\ \E s \in Setups : /\ kind = s.kind /\ scoped = s.scoped
                        /\ locking = s.locking /\ settings = s.settings
    /\ name \in [Turns -> {n \in Names : n.suffix = Plain}]
    /\ knowsSid = [t \in Turns |-> TRUE]
    /\ pane = [t \in Turns |-> "none"]
    /\ lock = NoTurn
    /\ pc = [t \in Turns |-> "new"]
    /\ result = [t \in Turns |-> [kind |-> None, from |-> {}]]
    /\ in = [n \in Names |-> NoTurn]
    /\ out = [n \in Names |-> {}]
    /\ rc = [n \in Names |-> None]
    /\ tee = [t \in Turns |-> FALSE]
    /\ got = [t \in Turns |-> NoTurn]
    /\ answer = [t \in Turns |-> None]
    /\ stop = [t \in Turns |-> FALSE]
    /\ late = [t \in Turns |-> {}]
    /\ rivals = [t \in Turns |-> {}]
    /\ faults = 0

-----------------------------------------------------------------------------
(* Starting a turn.                                                        *)

Goto(t, from, to) == pc[t] = from /\ pc' = [pc EXCEPT ![t] = to]
Ends(t, how) == result' = [result EXCEPT ![t] = [@ EXCEPT !.kind = how]]
Takes(t, how, whose) == result' = [result EXCEPT ![t] = [kind |-> how, from |-> whose]]

\* The others of the role that are under way or have a pane.
Others(t) == {u \in Turns \ {t} : name[u].role = name[t].role /\ (Active(u) \/ Live(u))}

\* Turns are numbered in the order in which they begin.
Begin(t, fork) ==
    /\ pc[t] = "new" /\ \A u \in Turns : u < t => pc[u] # "new"
    /\ name' = [name EXCEPT ![t] = NameOf(t, @.role, fork)]
    /\ rivals' = [u \in Turns |-> IF u = t THEN Others(t)
                                  ELSE IF u \in Others(t) /\ Active(u) THEN rivals[u] \cup {t}
                                  ELSE rivals[u]]

\* Mutant: the exit code of an earlier turn stays.
Clear_KeepRc(n) ==
    /\ out' = [out EXCEPT ![n] = {}]
    /\ UNCHANGED rc

\* Stale .out and .rc are unlinked; a tee that still writes does so to no name.
Clear(n) ==
    /\ out' = [out EXCEPT ![n] = {}]
    /\ rc' = [rc EXCEPT ![n] = None]

WriteFiles(t, fork) ==
    LET n == NameOf(t, name[t].role, fork)
    IN  /\ Prints(t)
        /\ Begin(t, fork)
        /\ Clear(n)
        /\ tee' = [u \in Turns |-> tee[u] /\ name[u] # n]
        /\ in' = [in EXCEPT ![n] = t]
        /\ pc' = [pc EXCEPT ![t] = "kill"]
        /\ UNCHANGED <<scoped, pane, kind, knowsSid, locking, lock, settings, result,
                       agentVars, faults>>

\* _ensure_stop_hook, under a lock and with an atomic replace: a file that cannot be
\* parsed is replaced whole, any other keeps what it had besides its Stop hook.
HookedSettings ==
    IF settings.legible /\ settings.stop = "ours" THEN settings
    ELSE [stop |-> "ours", rest |-> settings.rest /\ settings.legible, legible |-> TRUE]

\* The TUI: the prompt, the hook, the mode (a session that is resumed and not forked
\* gets an id that only Claude knows), and then spawn_start.
PrepareTui(t, fork) ==
    LET n == NameOf(t, name[t].role, fork)
    IN  /\ ~Prints(t)
        /\ Begin(t, fork)
        /\ in' = [in EXCEPT ![n] = t]
        /\ settings' = HookedSettings
        /\ pc' = [pc EXCEPT ![t] = "lock"]
        /\ late' = [late EXCEPT ![t] = {}]
        /\ \E p \in Priors : knowsSid' = [knowsSid EXCEPT ![t] = fork \/ ~p]
        /\ UNCHANGED <<scoped, pane, kind, locking, lock, result, out, rc, tee, got,
                       answer, stop, faults>>

\* _with_rig_spawn_lock: without a usable lock the turn goes on.
TakeLock(t) ==
    /\ Goto(t, "lock", "kill")
    /\ IF locking THEN lock = NoTurn /\ lock' = t ELSE UNCHANGED lock
    /\ UNCHANGED <<rest, pane, settings, result, fileVars, agentVars, faults>>

\* Mutant: the lock is kept.
Unlocked_Never(t) == lock

\* Released with the lock's file, on every way out.
Unlocked(t) == IF lock = t THEN NoTurn ELSE lock

-----------------------------------------------------------------------------
(* _spawn_tmux.                                                            *)

KillOld(t) ==
    /\ Goto(t, "kill", "create")
    /\ KillSameName(t)
    /\ UNCHANGED <<rest, lock, settings, result, fileVars, agentVars, faults>>

Create(t) ==
    /\ Goto(t, "create", IF Prints(t) THEN "wait" ELSE "tui")
    /\ NewPane(t)
    /\ UNCHANGED <<rest, lock, settings, result, fileVars, agentVars, faults>>

Unlinked(t) == [in EXCEPT ![name[t]] = NoTurn]

\* tmux refuses. The finally clause of the claude backend then fails itself, on a name
\* that is not bound yet, and the prompt file stays; codex and cursor test it first. The
\* interactive backend is not in its try statement yet.
CreateRefused(t) ==
    /\ pc[t] = "create"
    /\ \/ Duplicate(t) /\ UNCHANGED faults
       \/ ~Duplicate(t) /\ faults < MaxFaults /\ faults' = faults + 1
    /\ pc' = [pc EXCEPT ![t] = "ended"]
    /\ Ends(t, IF kind[t] = "claude" THEN "unbound" ELSE "refused")
    /\ in' = IF kind[t] \in {"codex", "cursor"} THEN Unlinked(t) ELSE in
    /\ lock' = Unlocked(t)
    /\ UNCHANGED <<rest, pane, settings, out, rc, tee, agentVars>>

Spawn(t) == KillOld(t) \/ Create(t) \/ CreateRefused(t)

-----------------------------------------------------------------------------
(* The wrapper of a print turn, in its pane.                               *)

\* The shell opens the prompt, tee truncates .out. Without a prompt nothing runs.
PaneStarts(t) ==
    /\ Prints(t) /\ pane[t] = "starting"
    /\ got' = [got EXCEPT ![t] = in[name[t]]]
    /\ tee' = [tee EXCEPT ![t] = TRUE]
    /\ out' = [out EXCEPT ![name[t]] = {}]
    /\ pane' = [pane EXCEPT ![t] = "working"]
    /\ UNCHANGED <<rest, lock, settings, pc, result, in, rc, answer, stop, late, faults>>

PaneAnswers(t) ==
    /\ Prints(t) /\ pane[t] = "working"
    /\ \E a \in Answers :
          /\ got[t] = NoTurn => a = "error"
          /\ a = "limited" => kind[t] = "claude"
          /\ answer' = [answer EXCEPT ![t] = a]
    /\ out' = IF tee[t] THEN [out EXCEPT ![name[t]] = @ \cup {t}] ELSE out
    /\ pane' = [pane EXCEPT ![t] = "answered"]
    /\ UNCHANGED <<rest, lock, settings, pc, result, in, rc, tee, got, stop, late, faults>>

\* Only then is the exit code written, and the pane closes.
PaneExits(t) ==
    /\ Prints(t) /\ pane[t] = "answered"
    /\ rc' = [rc EXCEPT ![name[t]] = IF answer[t] \in {"ok", "limited"} THEN "zero" ELSE "nonzero"]
    /\ pane' = [pane EXCEPT ![t] = "gone"]
    /\ UNCHANGED <<rest, lock, settings, pc, result, in, out, tee, agentVars, faults>>

-----------------------------------------------------------------------------
(* A print turn after it has spawned its pane.                             *)

\* _wait_for_rc: the file is there ...
SeeRc(t) ==
    /\ Prints(t) /\ rc[name[t]] # None
    /\ Goto(t, "wait", "read")
    /\ UNCHANGED <<rest, pane, lock, settings, result, fileVars, agentVars, faults>>

Says(t, a) == \E u \in out[name[t]] : answer[u] = a

\* What the output and the exit code are taken for. Claude's 429 envelope is looked for
\* whatever the exit code; codex and cursor have no such check.
CommonResult(t, zero) ==
    IF zero THEN "ok" ELSE IF Says(t, "full") THEN "full" ELSE "error"
ClaudeResult(t, zero) == IF Says(t, "limited") THEN "limited" ELSE CommonResult(t, zero)
CodexResult(t, zero)  == CommonResult(t, zero)
CursorResult(t, zero) == CommonResult(t, zero)

Classified(t, zero) == CASE kind[t] = "claude" -> ClaudeResult(t, zero)
                         [] kind[t] = "codex"  -> CodexResult(t, zero)
                         [] kind[t] = "cursor" -> CursorResult(t, zero)

\* ... and is read, with the output; another turn of the name may have unlinked it.
ReadResult(t) ==
    /\ Goto(t, "read", "clean")
    /\ IF rc[name[t]] = None THEN Takes(t, "noFile", {})
       ELSE Takes(t, Classified(t, rc[name[t]] = "zero"), out[name[t]])
    /\ UNCHANGED <<rest, pane, lock, settings, fileVars, agentVars, faults>>

\* Terminal events are those of a turn that came to an end by itself.
Terminal(t) == Says(t, "ok") \/ Says(t, "limited")

\* _recover_lost_tmux_output: only structured terminal evidence is accepted.
LostResult(t) == IF Terminal(t) THEN Takes(t, Classified(t, TRUE), out[name[t]])
                 ELSE Takes(t, "interrupted", {})

\* The pane is gone and there is no exit code.
Lost(t) ==
    /\ Prints(t) /\ ~HasSession(t) /\ rc[name[t]] = None
    /\ Goto(t, "wait", "clean")
    /\ LostResult(t)
    /\ UNCHANGED <<rest, pane, lock, settings, fileVars, agentVars, faults>>

TimeOut(t) ==
    /\ Prints(t) /\ rc[name[t]] = None
    /\ Goto(t, "wait", "clean")
    /\ Ends(t, "timeout")
    /\ UNCHANGED <<rest, pane, lock, settings, fileVars, agentVars, faults>>

\* The sentinel a turn of the TUI knows of: its own, or the one it discovered.
Sentinels(t) == IF Prints(t) THEN {} ELSE IF knowsSid[t] THEN {t} ELSE result[t].from

\* The finally clause: the pane, the sentinel and the prompt go.
CleanUp(t) ==
    /\ Goto(t, "clean", "ended")
    /\ CleanupTmux(t)
    /\ in' = Unlinked(t)
    /\ stop' = [u \in Turns |-> stop[u] /\ u \notin Sentinels(t)]
    /\ UNCHANGED <<rest, lock, settings, result, out, rc, tee, got, answer, late, faults>>

AwaitRc(t) == SeeRc(t) \/ Lost(t) \/ TimeOut(t)

ClaudeRun(t) == kind[t] = "claude" /\ (\/ \E fork \in Forks : WriteFiles(t, fork)
                                       \/ Spawn(t) \/ AwaitRc(t) \/ ReadResult(t) \/ CleanUp(t))
CodexRun(t)  == kind[t] = "codex"  /\ (\/ \E fork \in Forks : WriteFiles(t, fork)
                                       \/ Spawn(t) \/ AwaitRc(t) \/ ReadResult(t) \/ CleanUp(t))
CursorRun(t) == kind[t] = "cursor" /\ (\/ \E fork \in Forks : WriteFiles(t, fork)
                                       \/ Spawn(t) \/ AwaitRc(t) \/ ReadResult(t) \/ CleanUp(t))

-----------------------------------------------------------------------------
(* The TUI in its pane. It may also never come up.                         *)

TuiComesUp(t) ==
    /\ ~Prints(t) /\ pane[t] = "starting"
    /\ pane' = [pane EXCEPT ![t] = "ready"]
    /\ UNCHANGED <<rest, lock, settings, pc, result, fileVars, agentVars, faults>>

\* An abnormal exit leaves the pane open for diagnostics, a normal one closes it.
TuiExits(t) ==
    /\ ~Prints(t) /\ pane[t] \in {"starting", "ready", "working"}
    /\ \E shown \in {"held", "gone"} : pane' = [pane EXCEPT ![t] = shown]
    /\ UNCHANGED <<rest, lock, settings, pc, result, fileVars, agentVars, faults>>

\* The rate-limit dialog, or a 529: no Stop hook fires.
TuiRefuses(t) ==
    /\ ~Prints(t) /\ pane[t] = "working"
    /\ \E shown \in {"limited", "full"} : pane' = [pane EXCEPT ![t] = shown]
    /\ UNCHANGED <<rest, lock, settings, pc, result, fileVars, agentVars, faults>>

\* stop_hook.main writes the sentinel of the session when the agent stops.
TuiStops(t) ==
    /\ ~Prints(t) /\ pane[t] = "working" /\ settings.stop = "ours"
    /\ answer' = [answer EXCEPT ![t] = "ok"]
    /\ stop' = [stop EXCEPT ![t] = TRUE]
    /\ late' = [u \in Turns |-> late[u] \cup {t}]
    /\ pane' = [pane EXCEPT ![t] = "answered"]
    /\ UNCHANGED <<rest, lock, settings, pc, result, fileVars, got, faults>>

-----------------------------------------------------------------------------
(* TmuxInteractiveClaudeBackend.run after the spawn.                       *)

\* _wait_for_tui_ready gives up after a while: the lock is released either way.
TuiSeen(t) ==
    /\ Goto(t, "tui", "check")
    /\ lock' = Unlocked(t)
    /\ UNCHANGED <<rest, pane, settings, result, fileVars, agentVars, faults>>

Raise(t, from, how) ==
    /\ Goto(t, from, "ended")
    /\ Ends(t, how)
    /\ UNCHANGED <<rest, lock, settings, out, rc, tee, got, answer, late, faults>>

\* No target: raise. Claude has exited: close the pane and raise; the prompt file stays.
CheckTui(t) ==
    \/ /\ ~HasSession(t)
       /\ Raise(t, "check", "disappeared")
       /\ UNCHANGED <<pane, in, stop>>
    \/ /\ \E u \in Target(t) : pane[u] = "held"
       /\ Raise(t, "check", "exited")
       /\ CleanupTmux(t)
       /\ UNCHANGED <<in, stop>>
    \/ /\ \E u \in Target(t) : pane[u] # "held"
       /\ Goto(t, "check", "paste")
       /\ UNCHANGED <<rest, pane, lock, settings, result, fileVars, agentVars, faults>>

\* load-buffer and paste-buffer: the prompt file may be gone, the pane too. What is
\* pasted before the input box is there is lost.
Paste(t) ==
    \/ /\ in[name[t]] = NoTurn \/ ~HasSession(t)
       /\ Raise(t, "paste", "unpasted")
       /\ UNCHANGED <<pane, in, stop>>
    \/ /\ in[name[t]] # NoTurn /\ HasSession(t)
       /\ Goto(t, "paste", "enter")
       /\ got' = [u \in Turns |-> IF u \in Target(t) /\ pane[u] = "ready"
                                  THEN in[name[t]] ELSE got[u]]
       /\ UNCHANGED <<rest, pane, lock, settings, result, fileVars, answer, stop, late, faults>>

Landed(t) == \E u \in Target(t) : pane[u] = "ready" /\ got[u] # NoTurn

\* Mutant: a turn that gives up leaves its pane.
GiveUp_LeavePane(t, from, how) ==
    /\ Raise(t, from, how)
    /\ in' = Unlinked(t)
    /\ stop' = [stop EXCEPT ![t] = @ /\ ~knowsSid[t]]
    /\ UNCHANGED pane

\* A turn that raises before its try statement but cleans up.
GiveUp(t, from, how) ==
    /\ Raise(t, from, how)
    /\ CleanupTmux(t)
    /\ in' = Unlinked(t)
    /\ stop' = [stop EXCEPT ![t] = @ /\ ~knowsSid[t]]

\* Enter, up to three times, then _assert_submission_landed.
Enter(t) ==
    \/ /\ ~HasSession(t)
       /\ Raise(t, "enter", "unpasted")
       /\ UNCHANGED <<pane, in, stop>>
    \/ /\ Landed(t)
       /\ Goto(t, "enter", "guard")
       /\ pane' = [u \in Turns |-> IF u \in Target(t) THEN "working" ELSE pane[u]]
       /\ UNCHANGED <<rest, lock, settings, result, fileVars, agentVars, faults>>
    \/ /\ \E u \in Target(t) : pane[u] \notin {"starting", "ready"}
       /\ Goto(t, "enter", "guard")
       /\ UNCHANGED <<rest, pane, lock, settings, result, fileVars, agentVars, faults>>
    \/ /\ \E u \in Target(t) : pane[u] \in {"starting", "ready"}
       /\ GiveUp(t, "enter", "wedged")

\* The pane, or the transcript of a session whose id is known, shows the rate limit;
\* the pane shows a 529.
Guard(t) ==
    \/ \E u \in Target(t) : pane[u] \in {"limited", "full"} /\ GiveUp(t, "guard", pane[u])
    \/ /\ \A u \in Target(t) : pane[u] \notin {"limited", "full"}
       /\ Goto(t, "guard", "wait")
       /\ UNCHANGED <<rest, pane, lock, settings, result, fileVars, agentVars, faults>>

\* _discover_resumed_sentinel: written since spawn_start, by a session whose transcript
\* has the head of this prompt. Prompts of one role begin alike.
Discovered(t) ==
    {u \in late[t] : stop[u] /\ got[u] # NoTurn /\ name[got[u]].role = name[t].role}

Found(t) == IF knowsSid[t] THEN {t} \cap {u \in Turns : stop[u]} ELSE Discovered(t)

AwaitStop(t) ==
    /\ ~Prints(t)
    /\ Goto(t, "wait", "clean")
    /\ \/ \E u \in Found(t) : Takes(t, "ok", {u})
       \/ Found(t) = {} /\ ~HasSession(t) /\ Ends(t, "gone")
       \/ Found(t) = {} /\ Ends(t, "timeout")
    /\ UNCHANGED <<rest, pane, lock, settings, fileVars, agentVars, faults>>

TuiRun(t) == /\ ~Prints(t)
             /\ \/ \E fork \in Forks : PrepareTui(t, fork)
                \/ TakeLock(t) \/ Spawn(t) \/ TuiSeen(t) \/ CheckTui(t) \/ Paste(t)
                \/ Enter(t) \/ Guard(t) \/ AwaitStop(t) \/ CleanUp(t)

-----------------------------------------------------------------------------
(* Faults, and commands from elsewhere.                                    *)

Fault == faults < MaxFaults /\ faults' = faults + 1

\* The process dies; the kernel drops its lock, its pane goes on.
Die(t) ==
    /\ Active(t) /\ Fault
    /\ pc' = [pc EXCEPT ![t] = "dead"]
    /\ lock' = Unlocked(t)
    /\ UNCHANGED <<rest, pane, settings, result, fileVars, agentVars>>

\* SIGINT or SIGTERM: the handler raises where the turn waits. In a try statement the
\* finally clause runs, which closes the pane; before it the pane is left.
Signal(t) ==
    /\ pc[t] \in {"tui", "wait"} /\ Fault
    /\ pc' = [pc EXCEPT ![t] = IF @ = "wait" THEN "clean" ELSE "ended"]
    /\ Ends(t, "signalled")
    /\ lock' = Unlocked(t)
    /\ UNCHANGED <<rest, pane, settings, fileVars, agentVars>>

\* A command that finds no pane changes nothing and is left out.
Retry ==
    /\ Fault /\ \E t \in Turns : Live(t)
    /\ KillForIssue
    /\ UNCHANGED <<rest, lock, settings, pc, result, fileVars, agentVars>>

Cancel ==
    /\ Fault /\ \E t \in Turns : Live(t)
    /\ KillIssueSessions
    /\ pane' # pane
    /\ UNCHANGED <<rest, lock, settings, pc, result, fileVars, agentVars>>

TurnStep(t) == ClaudeRun(t) \/ CodexRun(t) \/ CursorRun(t) \/ TuiRun(t)
PaneStep(t) == \/ PaneStarts(t) \/ PaneAnswers(t) \/ PaneExits(t)
               \/ TuiComesUp(t) \/ TuiExits(t) \/ TuiRefuses(t) \/ TuiStops(t)

Next == \/ \E t \in Turns : TurnStep(t) \/ PaneStep(t) \/ Die(t) \/ Signal(t)
        \/ Retry \/ Cancel

Spec == Init /\ [][Next]_vars

\* A turn polls; its timeouts and grace periods run out by themselves. Of the agent in
\* the pane nothing is assumed.
FairSpec == Spec /\ \A t \in Turns : WF_vars(TurnStep(t))

-----------------------------------------------------------------------------
(* Properties.                                                             *)

Namesakes(t) == {u \in rivals[t] : name[u] = name[t]}

\* A print turn that reports success took the answer of its own agent to its own prompt,
\* unless a turn of the same name was under way or had left a pane; a TUI turn the session
\* of its own agent, unless another turn of the role was or had. A fork beside it, the files
\* or the sentinel of a dead turn, an interrupt or a retry change nothing of that.
OwnAnswer ==
    \A t \in Turns :
        (result[t].kind = "ok" /\ (IF Prints(t) THEN Namesakes(t) ELSE rivals[t]) = {}) =>
            /\ result[t].from = {t} /\ got[t] = t
            /\ Prints(t) => answer[t] = "ok"

\* A turn that came to an end has left no pane behind, except where it raises out of
\* reach of its cleanup: interrupted before its try statement, or when tmux refuses the
\* paste. (Panes left open hold a slot of the provider's rate limit.)
NoPaneLeft ==
    \A t \in Turns : pc[t] = "ended" /\ result[t].kind \notin {"signalled", "unpasted"} =>
        ~Live(t)

\* In the shared session a turn that ends closes no pane of another turn, whatever
\* their names are.
PeersSpared ==
    [][\A t \in Turns : pc[t] \in {"clean", "enter", "guard", "check"} /\ pc'[t] = "ended" /\ scoped
          => \A u \in Turns \ {t} : pane'[u] = pane[u]]_vars

\* Every turn that begins comes to an end, or its process dies: a pane that vanishes, an
\* agent that never answers, a prompt that never lands and a lock whose holder hangs are
\* all noticed.
TurnEnds == \A t \in Turns : Active(t) ~> pc[t] \in {"ended", "dead"}
=============================================================================
