----------------------------- MODULE RunControl -----------------------------
(***************************************************************************)
(* Run control of `po`: commands (Launch) and the reconciler acting on the *)
(* flow runs, run_dirs and locks of RunStore.                              *)
(*                                                                         *)
(* reconcile_once discovers abandoned runs and old zombies, forces both    *)
(* Failed, then walks the abandoned list: claim a marker file, resume. The *)
(* loop variable `marker` is bound by the first successful claim and keeps *)
(* its value in later iterations, so it is modelled as a variable.         *)
(***************************************************************************)
EXTENDS Launch

CONSTANT LookupFaults   \* may resolve_run_dir raise although the run_dir exists

ASSUME ControlAssumption == LookupFaults \in BOOLEAN

VARIABLES
    queue,   \* the abandoned runs a pass has still to resume
    toFail,  \* the runs a pass has still to force Failed
    marker   \* the loop variable: a run, Taken, or Unbound

controlVars == <<queue, toFail, marker>>
vars == <<storeVars, launchVars, controlVars>>

Taken   == 0    \* the claim returned None
Unbound == -1   \* no claim was attempted yet in this pass

TypeOK ==
    /\ StoreTypeOK
    /\ LaunchTypeOK
    /\ queue \in [Reconcilers -> SUBSET (DOMAIN runs)]
    /\ toFail \in [Reconcilers -> SUBSET (DOMAIN runs)]
    /\ marker \in [Reconcilers -> DOMAIN runs \cup {Taken, Unbound}]

Init ==
    /\ StoreInit
    /\ LaunchInit
    /\ queue = [a \in Reconcilers |-> {}]
    /\ toFail = [a \in Reconcilers |-> {}]
    /\ marker = [a \in Reconcilers |-> Unbound]

-----------------------------------------------------------------------------
(* Discovery.                                                              *)

\* _find_abandoned: of the young Running runs of an issue only the latest counts.
Abandoned ==
    {r \in DOMAIN runs :
        LET i == runs[r].issue
        IN /\ IsLatest(r, RunningOf(i) \ old)
           /\ i \in dirs \cap stale
           /\ ~HasLiveProcess(i)}

\* Mutant of OldZombies: the 24 hour filter of _find_abandoned is kept.
OldZombies_StillYoung ==
    {r \in DOMAIN runs \ old :
        IsLatest(r, RunningOf(runs[r].issue)) /\ ~HasLiveProcess(runs[r].issue)}

\* _find_old_zombies: neither the run_dir nor its age matters.
OldZombies ==
    {r \in old : IsLatest(r, RunningOf(runs[r].issue)) /\ ~HasLiveProcess(runs[r].issue)}

FindAbandoned(a) ==
    /\ pc[a] = "idle"
    /\ queue' = [queue EXCEPT ![a] = Abandoned]
    /\ marker' = [marker EXCEPT ![a] = Unbound]
    /\ Goto(a, "zombies")
    /\ UNCHANGED <<toFail, call, lockVars, cancelVars, flow, storeVars>>

\* Mutant of FindZombies: the abandoned runs are resumed without being failed.
FindZombies_ZombiesOnly(a) ==
    /\ pc[a] = "zombies"
    /\ toFail' = [toFail EXCEPT ![a] = OldZombies \ queue[a]]
    /\ Goto(a, "loop")
    /\ UNCHANGED <<queue, marker, call, lockVars, cancelVars, flow, storeVars>>

FindZombies(a) ==
    /\ pc[a] = "zombies"
    /\ toFail' = [toFail EXCEPT ![a] = queue[a] \cup OldZombies]
    /\ Goto(a, "loop")
    /\ UNCHANGED <<queue, marker, call, lockVars, cancelVars, flow, storeVars>>

\* set_flow_run_state(Failed, force=True), run by run; the order is left open.
ForceFailed(a, r) ==
    /\ pc[a] = "loop"
    /\ r \in toFail[a]
    /\ runs' = SetState(r, "Failed")
    /\ toFail' = [toFail EXCEPT ![a] = @ \ {r}]
    /\ UNCHANGED <<queue, marker, launchVars,
                   old, ctrl, agents, kills, dirs, stamped, markers, stale>>

-----------------------------------------------------------------------------
(* The resume loop, once every run is Failed; newest run first.            *)

NextToResume(a, r) == pc[a] = "loop" /\ toFail[a] = {} /\ IsLatest(r, queue[a])

\* resolve_run_dir or the marker's creation raises before `marker` is assigned.
ClaimRaises(a, r) ==
    /\ NextToResume(a, r)
    /\ LookupFaults \/ runs[r].issue \notin dirs
    /\ Goto(a, "except")
    /\ UNCHANGED <<controlVars, call, lockVars, cancelVars, flow, storeVars>>

\* The marker file exists: `marker = None`, skip the issue.
ClaimTaken(a, r) ==
    /\ NextToResume(a, r)
    /\ runs[r].issue \in dirs
    /\ r \in markers
    /\ marker' = [marker EXCEPT ![a] = Taken]
    /\ queue' = [queue EXCEPT ![a] = @ \ {r}]
    /\ UNCHANGED <<toFail, launchVars, storeVars>>

\* Mutant of Claim: the marker is created without O_EXCL.
Claim_NotExclusive(a, r) ==
    /\ NextToResume(a, r)
    /\ runs[r].issue \in dirs
    /\ markers' = markers \cup {r}
    /\ stale' = stale \ {runs[r].issue}
    /\ marker' = [marker EXCEPT ![a] = r]
    /\ call' = [call EXCEPT ![a] = [cmd |-> "reconcile", issue |-> runs[r].issue,
                                    force |-> TRUE, foreground |-> FALSE]]
    /\ Goto(a, "check")
    /\ UNCHANGED <<queue, toFail, lockVars, cancelVars, flow,
                   runs, old, ctrl, agents, kills, dirs, stamped>>

\* O_CREAT|O_EXCL succeeds; then the formula is resolved (without a stamp it
\* may not be) and resume_issue(force=True) is entered.
Claim(a, r) ==
    /\ NextToResume(a, r)
    /\ runs[r].issue \in dirs
    /\ r \notin markers
    /\ markers' = markers \cup {r}
    /\ stale' = stale \ {runs[r].issue}
    /\ marker' = [marker EXCEPT ![a] = r]
    /\ call' = [call EXCEPT ![a] = [cmd |-> "reconcile", issue |-> runs[r].issue,
                                    force |-> TRUE, foreground |-> FALSE]]
    /\ \/ Goto(a, "check")
       \/ runs[r].issue \notin stamped /\ Goto(a, "except")
    /\ UNCHANGED <<queue, toFail, lockVars, cancelVars, flow,
                   runs, old, ctrl, agents, kills, dirs, stamped>>

\* The submission succeeded: `resumed.append`, and the loop moves on.
ReconcilerSubmits(a, r) ==
    /\ IsLatest(r, queue[a])
    /\ Submit(a, r)
    /\ queue' = [queue EXCEPT ![a] = @ \ {r}]
    /\ UNCHANGED <<toFail, marker>>

\* except Exception: skip the issue and unlink whatever file `marker` names.
HandleException(a, r) ==
    /\ pc[a] = "except"
    /\ marker[a] # Taken
    /\ IsLatest(r, queue[a])
    /\ markers' = markers \ {marker[a]}
    /\ queue' = [queue EXCEPT ![a] = @ \ {r}]
    /\ Goto(a, "loop")
    /\ UNCHANGED <<toFail, marker, call, lockVars, cancelVars, flow,
                   runs, old, ctrl, agents, kills, dirs, stamped, stale>>

EndPass(a) ==
    /\ Goto(a, "idle")
    /\ Release(a)
    /\ queue' = [queue EXCEPT ![a] = {}]
    /\ toFail' = [toFail EXCEPT ![a] = {}]
    /\ UNCHANGED <<marker, call, lockFile, lockAged, cancelVars, flow, storeVars>>

\* Mutant of PassReturns: the pass ends before its list is walked.
PassReturns_Early(a) == pc[a] = "loop" /\ toFail[a] = {} /\ EndPass(a)

PassReturns(a) == pc[a] = "loop" /\ toFail[a] = {} /\ queue[a] = {} /\ EndPass(a)

\* None.unlink(): AttributeError is not caught and ends the process.
HandlerRaises(a) == pc[a] = "except" /\ marker[a] = Taken /\ EndPass(a)

\* The process dies, or the Prefect client raises outside the loop's try.
ReconcilerDies(a) == Crashes /\ pc[a] # "idle" /\ EndPass(a)

-----------------------------------------------------------------------------
Worker == \E r \in DOMAIN runs : WorkerClaims(r)

Controller ==
    \E r \in DOMAIN runs :
        StartTurn(r) \/ EndTurn(r) \/ FlowCompletes(r) \/ FlowRaises(r)

Clock == (\E i \in Issues : ArtifactsAge(i)) \/ (\E r \in DOMAIN runs : RunAges(r))

\* A flow running in a command's own process dies with it (CliDies).
Kill == \E r \in DOMAIN runs : ControllerDies(r) /\ \A c \in Callers : flow[c] # r

Environment ==
    /\ Worker \/ Controller \/ Clock \/ Kill
    /\ UNCHANGED <<launchVars, controlVars>>

\* resume_issue, whoever entered it.
ResumeSteps(c) ==
    Check(c) \/ InspectLock(c) \/ UnlinkLock(c) \/ TakeLock(c) \/ SubmitRaises(c)

Cli(c) ==
    /\ \/ \E cmd \in Commands, i \in Issues, force \in Forces, fg \in Foregrounds :
             Start(c, cmd, i, force, fg)
       \/ ResumeSteps(c) \/ KillSessions(c) \/ ArchiveRunDir(c) \/ RestoreMetadata(c)
       \/ Submit(c, 0) \/ RunInProcess(c) \/ FlowReturns(c)
       \/ CancelQuery(c) \/ (\E r \in victims[c] : CancelRun(c, r))
       \/ CancelKillsSessions(c) \/ CliDies(c)
    /\ UNCHANGED controlVars

Reconciler(a) ==
    \/ FindAbandoned(a) \/ FindZombies(a)
    \/ (\E r \in toFail[a] : ForceFailed(a, r))
    \/ (\E r \in queue[a] : \/ ClaimRaises(a, r) \/ ClaimTaken(a, r) \/ Claim(a, r)
                            \/ ReconcilerSubmits(a, r) \/ HandleException(a, r))
    \/ (ResumeSteps(a) /\ UNCHANGED controlVars)
    \/ PassReturns(a) \/ HandlerRaises(a) \/ ReconcilerDies(a)

LockClock == (\E i \in Issues : LockAges(i)) /\ UNCHANGED controlVars

Next ==
    \/ Environment
    \/ \E c \in Clis : Cli(c)
    \/ \E a \in Reconcilers : Reconciler(a)
    \/ LockClock

Spec == Init /\ [][Next]_vars

(***************************************************************************)
(* Fairness. systemd restarts the reconcile timer every five minutes and a *)
(* pass has no waiting step; the worker polls its pool; an agent turn ends *)
(* (roles run under a step timeout); a formula has finitely many turns, so *)
(* a live controller does not open turns forever; and time passes.         *)
(***************************************************************************)
FlowEnds(r) == (FlowCompletes(r) \/ FlowRaises(r)) /\ UNCHANGED <<launchVars, controlVars>>

Fairness ==
    /\ \A a \in Reconcilers : WF_vars(Reconciler(a))
    /\ WF_vars((\E r \in DOMAIN runs : WorkerClaims(r)) /\ UNCHANGED <<launchVars, controlVars>>)
    /\ WF_vars((\E r \in DOMAIN runs : RunAges(r)) /\ UNCHANGED <<launchVars, controlVars>>)
    /\ \A r \in 1 .. MaxClaimed :
          /\ WF_vars(EndTurn(r) /\ UNCHANGED <<launchVars, controlVars>>)
          /\ SF_vars(FlowEnds(r))
    /\ \A i \in Issues : WF_vars(ArtifactsAge(i) /\ UNCHANGED <<launchVars, controlVars>>)

FairSpec == Spec /\ Fairness

-----------------------------------------------------------------------------
(* Safety.                                                                 *)

\* At most one process is inside the section of resume_issue/retry_issue that
\* `<run_dir>.retry.lock` protects for an issue. It holds while every caller
\* names the issue in its command line: such a caller finds itself in /proc
\* and never removes a lock file (retry.py, _any_po_process_for_issue).
LockMutex ==
    \A c, d \in Callers :
        c # d /\ held[c] # "no" /\ held[d] # "no" => call[c].issue # call[d].issue

\* reconcile_once: "Fail and durably resume abandoned controllers exactly once".
\* No run is the source of two durable resumes, whatever the interleaving of
\* the timer's pass with a manual one.
ResumedAtMostOnce == \A r \in DOMAIN runs : runs[r].resumes =< 1

\* Transport repair never doubles live work: a run from which a durable resume
\* was submitted is over for Prefect, and stays over.
ResumedRunsAreOver ==
    \A r \in DOMAIN runs : runs[r].resumes > 0 => runs[r].state \in Terminal

\* A run_dir is never archived under a flow some command executes in process.
ForegroundUndisturbed ==
    [][\A i \in dirs \ dirs' : \A c \in Callers : pc[c] = "flow" => call[c].issue # i]_vars

-----------------------------------------------------------------------------
(* Liveness.                                                               *)

\* "so old Prefect rows cannot remain Running forever": a Running record whose
\* controller is gone leaves the state Running, with or without a run_dir. (Only
\* a run that a worker claimed is ever Running.)
DeadRunTerminalized ==
    \A r \in 1 .. MaxClaimed :
        (r \in DOMAIN runs /\ r \notin ctrl /\ runs[r].state = "Running")
            ~> (r \in DOMAIN runs /\ runs[r].state # "Running")

\* README: reconciliation "durably resumes recoverable run directories". A run
\* a pass decided to recover is resumed by that pass or by another one, whether
\* its controller is dead or was only silent.
AbandonedIsResumed ==
    \A r \in 1 .. MaxClaimed :
        (\E a \in Reconcilers : r \in queue[a])
            ~> (r \in DOMAIN runs /\ runs[r].resumes > 0)

=============================================================================
