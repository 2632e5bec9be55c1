------------------------------- MODULE Launch -------------------------------
(***************************************************************************)
(* resume_issue, retry_issue and cancel_issue, one step per statement that *)
(* reads or writes shared state. A `po resume/retry/cancel` process (Clis) *)
(* runs one call; a reconciler enters the same resume_issue from its loop  *)
(* (module RunControl), with force=True and a command line that does not   *)
(* name the issue.                                                         *)
(*                                                                         *)
(* The advisory lock is a file beside the run_dir. flock excludes holders  *)
(* of one inode: a holder is "linked" while the path still names its inode *)
(* and "unlinked" once somebody removed the path.                          *)
(***************************************************************************)
EXTENDS RunStore

CONSTANTS
    Commands,      \* the commands the Clis may run
    Foregrounds,   \* {FALSE}: submit to the worker; TRUE: run the flow in process
    Forces,        \* values of --force the Clis may pass
    SubmitFaults,  \* may the Prefect submission raise
    Crashes        \* may a caller die between two steps

ASSUME LaunchAssumption ==
    /\ Commands \subseteq {"resume", "retry", "cancel"}
    /\ Foregrounds \subseteq BOOLEAN /\ Forces \subseteq BOOLEAN
    /\ SubmitFaults \in BOOLEAN /\ Crashes \in BOOLEAN

VARIABLES
    pc,        \* the statement a caller is about to execute
    call,      \* the arguments of its current call
    lockFile,  \* issues whose <run_dir>.retry.lock path exists
    lockAged,  \* those whose lock file was created more than stale_secs ago
    held,      \* does a caller hold the flock, and on which inode
    victims,   \* runs a cancel has read as Running and not yet cancelled
    flow       \* the run a caller executes in process (0: none)

lockVars   == <<lockFile, lockAged, held>>
cancelVars == <<victims>>
launchVars == <<pc, call, lockVars, cancelVars, flow>>

Call == [cmd : {"none", "resume", "retry", "cancel", "reconcile"},
         issue : Issues, force : BOOLEAN, foreground : BOOLEAN]

NoCall == [cmd |-> "none", issue |-> CHOOSE i \in Issues : TRUE,
           force |-> FALSE, foreground |-> FALSE]

PCs == {"idle", "check", "clear", "unlink", "lock", "kill", "archive", "restore",
        "submit", "flow", "query", "cancel", "done", "zombies", "loop", "except"}

LaunchTypeOK ==
    /\ pc \in [Callers -> PCs]
    /\ call \in [Callers -> Call]
    /\ lockFile \subseteq Issues
    /\ lockAged \subseteq lockFile
    /\ held \in [Callers -> {"no", "linked", "unlinked"}]
    /\ victims \in [Callers -> SUBSET (DOMAIN runs)]
    /\ flow \in [Callers -> DOMAIN runs \cup {0}]

LaunchInit ==
    /\ pc = [c \in Callers |-> "idle"]
    /\ call = [c \in Callers |-> NoCall]
    /\ lockFile = {} /\ lockAged = {}
    /\ held = [c \in Callers |-> "no"]
    /\ victims = [c \in Callers |-> {}]
    /\ flow = [c \in Callers |-> 0]

-----------------------------------------------------------------------------
(* What a scan of the process table sees.                                  *)

Active(c) == c \in Clis /\ pc[c] \notin {"idle", "done"}

\* Mutant of AnyPoProcess: the scan only knows `po retry`.
AnyPoProcess_RetryOnly(i) ==
    \E c \in Clis : Active(c) /\ call[c].issue = i /\ call[c].cmd = "retry"

\* A `po retry <issue>` or `po resume <issue>` command line: the scan does not
\* skip the scanning process, so such a caller always finds itself.
AnyPoProcess(i) ==
    \E c \in Clis : Active(c) /\ call[c].issue = i /\ call[c].cmd \in {"resume", "retry"}

\* tmux ls shows a session of the issue, or pgrep -f finds its id in a command
\* line. The worker launches a controller with a flow run id only, so the scan
\* knows a controller by its agents: between two turns it looks dead.
HasLiveProcess(i) ==
    \/ \E r \in agents : runs[r].issue = i
    \/ \E c \in Clis : Active(c) /\ call[c].issue = i

\* Where a caller continues when its call returned or raised.
Returned(c) == IF c \in Clis THEN "done" ELSE "loop"
Raised(c)   == IF c \in Clis THEN "done" ELSE "except"

Goto(c, label) == pc' = [pc EXCEPT ![c] = label]
Release(c)     == held' = [held EXCEPT ![c] = "no"]

-----------------------------------------------------------------------------
(* resume_issue and retry_issue.                                           *)

Start(c, cmd, i, force, fg) ==
    /\ c \in Clis
    /\ pc[c] = "idle"
    /\ call' = [call EXCEPT ![c] = [cmd |-> cmd, issue |-> i,
                                    force |-> force, foreground |-> fg]]
    /\ Goto(c, IF cmd = "cancel" THEN "query" ELSE "check")
    /\ UNCHANGED <<lockVars, cancelVars, flow, storeVars>>

\* resolve_run_dir raises unless the recorded run_dir is on disk. Then only runs
\* in state Running count as in flight, and --force skips that query.
Check(c) ==
    /\ pc[c] = "check"
    /\ Goto(c, IF \/ call[c].issue \notin dirs
                  \/ ~call[c].force /\ InFlight(call[c].issue)
               THEN Raised(c) ELSE "clear")
    /\ UNCHANGED <<call, lockVars, cancelVars, flow, storeVars>>

\* _maybe_clear_stale_lock up to its decision to unlink.
InspectLock(c) ==
    /\ pc[c] = "clear"
    /\ Goto(c, IF call[c].issue \in lockAged /\ ~AnyPoProcess(call[c].issue)
               THEN "unlink" ELSE "lock")
    /\ UNCHANGED <<call, lockVars, cancelVars, flow, storeVars>>

UnlinkLock(c) ==
    /\ pc[c] = "unlink"
    /\ lockFile' = lockFile \ {call[c].issue}
    /\ lockAged' = lockAged \ {call[c].issue}
    /\ held' = [d \in Callers |->
                  IF held[d] = "linked" /\ call[d].issue = call[c].issue
                  THEN "unlinked" ELSE held[d]]
    /\ Goto(c, "lock")
    /\ UNCHANGED <<call, cancelVars, flow, storeVars>>

\* Mutant of TakeLock: a blocked flock is not noticed.
TakeLock_Unchecked(c) ==
    /\ pc[c] = "lock"
    /\ lockFile' = lockFile \cup {call[c].issue}
    /\ held' = [held EXCEPT ![c] = "linked"]
    /\ Goto(c, IF call[c].cmd = "retry" THEN "kill" ELSE "submit")
    /\ UNCHANGED <<call, lockAged, cancelVars, flow, storeVars>>

\* _exclusive_lock: open (creating the file if it is missing), then LOCK_NB.
TakeLock(c) ==
    /\ pc[c] = "lock"
    /\ lockFile' = lockFile \cup {call[c].issue}
    /\ IF \E d \in Callers : held[d] = "linked" /\ call[d].issue = call[c].issue
       THEN /\ Goto(c, Raised(c))
            /\ UNCHANGED held
       ELSE /\ held' = [held EXCEPT ![c] = "linked"]
            /\ Goto(c, IF call[c].cmd = "retry" THEN "kill" ELSE "submit")
    /\ UNCHANGED <<call, lockAged, cancelVars, flow, storeVars>>

\* retry: tmux_tracker.kill_for_issue ends every session and window of the issue.
KillSessions(c) ==
    /\ pc[c] = "kill"
    /\ agents' = {r \in agents : runs[r].issue # call[c].issue}
    /\ Goto(c, "archive")
    /\ UNCHANGED <<call, lockVars, cancelVars, flow,
                   runs, old, ctrl, kills, dirs, stamped, markers, stale>>

\* retry: rename the run_dir away, with the stamp and the markers inside it.
ArchiveRunDir(c) ==
    /\ pc[c] = "archive"
    /\ dirs' = dirs \ {call[c].issue}
    /\ stamped' = stamped \ {call[c].issue}
    /\ markers' = {r \in markers : runs[r].issue # call[c].issue}
    /\ stale' = stale \ {call[c].issue}
    /\ Goto(c, "restore")
    /\ UNCHANGED <<call, lockVars, cancelVars, flow,
                   runs, old, ctrl, agents, kills>>

\* retry --keep-sessions writes metadata.json back into a new run_dir.
RestoreMetadata(c) ==
    /\ pc[c] = "restore"
    /\ dirs' \in {dirs, dirs \cup {call[c].issue}}
    /\ Goto(c, "submit")
    /\ UNCHANGED <<call, lockVars, cancelVars, flow,
                   runs, old, ctrl, agents, kills, stamped, markers, stale>>

\* The durable path: create a Scheduled run and leave the lock.
\* `source` is the failed run a reconciler resumes, 0 for a command.
Submitted(i, source) ==
    Append([r \in DOMAIN runs |->
              IF r = source THEN [runs[r] EXCEPT !.resumes = @ + 1] ELSE runs[r]],
           FreshRun(i, "Scheduled"))

Submit(c, source) ==
    /\ pc[c] = "submit"
    /\ ~call[c].foreground
    /\ Len(runs) < MaxRuns
    /\ runs' = Submitted(call[c].issue, source)
    /\ Release(c)
    /\ Goto(c, Returned(c))
    /\ UNCHANGED <<call, lockFile, lockAged, cancelVars, flow,
                   old, ctrl, agents, kills, dirs, stamped, markers, stale>>

\* The submission raises; so does a retry that finds no formula after the
\* archive took the stamp away.
SubmitRaises(c) ==
    /\ pc[c] = "submit"
    /\ SubmitFaults \/ call[c].cmd = "retry"
    /\ Release(c)
    /\ Goto(c, Raised(c))
    /\ UNCHANGED <<call, lockFile, lockAged, cancelVars, flow, storeVars>>

\* The foreground path runs the flow in this process, under the lock.
RunInProcess(c) ==
    /\ pc[c] = "submit"
    /\ call[c].foreground
    /\ Len(runs) < MaxRuns
    /\ runs' = Append(runs, FreshRun(call[c].issue, "Running"))
    /\ ctrl' = ctrl \cup {Len(runs) + 1}
    /\ flow' = [flow EXCEPT ![c] = Len(runs) + 1]
    /\ Goto(c, "flow")
    /\ UNCHANGED <<call, lockVars, cancelVars,
                   old, agents, kills, dirs, stamped, markers, stale>>

FlowReturns(c) ==
    /\ pc[c] = "flow"
    /\ flow[c] \notin ctrl
    /\ flow' = [flow EXCEPT ![c] = 0]
    /\ Release(c)
    /\ Goto(c, Returned(c))
    /\ UNCHANGED <<call, lockFile, lockAged, cancelVars, storeVars>>

-----------------------------------------------------------------------------
(* cancel_issue.                                                           *)

CancelQuery(c) ==
    /\ pc[c] = "query"
    /\ victims' = [victims EXCEPT ![c] = RunningOf(call[c].issue)]
    /\ Goto(c, "cancel")
    /\ UNCHANGED <<call, lockVars, flow, storeVars>>

CancelRun(c, r) ==
    /\ pc[c] = "cancel"
    /\ r \in victims[c]
    /\ runs' = SetState(r, "Cancelled")
    /\ victims' = [victims EXCEPT ![c] = @ \ {r}]
    /\ UNCHANGED <<pc, call, lockVars, flow,
                   old, ctrl, agents, kills, dirs, stamped, markers, stale>>

\* _kill_issue_tmux lists sessions only: windows of a scoped issue survive.
CancelKillsSessions(c) ==
    /\ pc[c] = "cancel"
    /\ victims[c] = {}
    /\ agents' = IF call[c].issue \in Scoped THEN agents
                 ELSE {r \in agents : runs[r].issue # call[c].issue}
    /\ Goto(c, "done")
    /\ UNCHANGED <<call, lockVars, cancelVars, flow,
                   runs, old, ctrl, kills, dirs, stamped, markers, stale>>

-----------------------------------------------------------------------------
\* A command is interrupted: the kernel drops its flock, the flow it runs in
\* process dies with it and keeps its Prefect state.
CliDies(c) ==
    /\ Crashes
    /\ Active(c)
    /\ Goto(c, "done")
    /\ Release(c)
    /\ victims' = [victims EXCEPT ![c] = {}]
    /\ ctrl' = ctrl \ {flow[c]}
    /\ flow' = [flow EXCEPT ![c] = 0]
    /\ UNCHANGED <<call, lockFile, lockAged,
                   runs, old, agents, kills, dirs, stamped, markers, stale>>

\* The lock file reaches stale_secs; flock and open never touch its mtime.
LockAges(i) ==
    /\ i \in lockFile \ lockAged
    /\ lockAged' = lockAged \cup {i}
    /\ UNCHANGED <<pc, call, lockFile, held, cancelVars, flow, storeVars>>

=============================================================================
