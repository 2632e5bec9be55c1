-------------------------------- MODULE Waiting --------------------------------
(***************************************************************************)
(* Scheduled runs of one issue from submission to the exit code of         *)
(* `po wait`: `po run --at` and a rate-limited agent-step flow submit,     *)
(* workers claim, the flow claims its bead, closes it or fails, and the    *)
(* waiting processes watch the beads first and Prefect second.             *)
(***************************************************************************)
EXTENDS Submission

CONSTANTS
    Issue,      \* the bead that the runs are about
    Others,     \* beads that agents and operators close by hand
    Waiters,    \* `po wait` processes
    Calls,      \* what each of them may be given: beads, and whether with --any
    Declared,   \* the deployments that a pack's register() declares
    Limits,     \* the deployments whose flow is agent_step_flow
    MaxTroubles, \* bound: bd and Prefect calls of the waiters that fail, and timeouts
    MaxCrashes   \* bound: flows that fail and workers that die

Nobody == "nobody"

ASSUME WaitingAssumption ==
    /\ Issue \notin Others /\ Nobody \notin Clients
    /\ Calls \subseteq [ids : (SUBSET ({Issue} \cup Others)) \ {{}}, any : BOOLEAN]
    /\ Declared \subseteq Deployments /\ Limits \subseteq Deployments
    /\ MaxTroubles \in Nat /\ MaxCrashes \in Nat

VARIABLES
    bead,      \* rows of the beads
    expected,  \* expected start times of the runs, by submitting client: their order
    due,       \* the runs whose time has come
    heir,      \* of a rate-limited run: the client that reschedules it, itself when none could
    wait,      \* the waiting processes
    troubles, crashes

schedVars == <<subVars, bead, expected, due, heir, wait, troubles, crashes>>

Beads == {Issue} \cup Others
Never == 0
NoRow == [status |-> "open", assignee |-> Nobody, good |-> FALSE, notes |-> {}]

Rows == [status : {"open", "in_progress", "closed"}, assignee : Clients \cup {Nobody},
         good : BOOLEAN, notes : SUBSET Clients]

WaitPCs == {"show", "look", "reread", "note", "clear", "done"}
Waits == [call : Calls, at : WaitPCs, todo : SUBSET Beads, closed : [Beads -> {"no", "good", "bad"}],
          failed : Clients \cup {Nobody}, row : Rows, exit : {"none", "0", "1", "2", "3"}]

Submitted == {c \in Clients : sub[c].run # "none"}

SchedTypeOK ==
    /\ SubTypeOK
    /\ bead \in [Beads -> Rows]
    /\ expected \in [Clients -> Nat]
    /\ due \subseteq Submitted
    /\ heir \in [Clients -> Clients \cup {Nobody}]
    /\ wait \in [Waiters -> Waits]
    /\ troubles \in 0..MaxTroubles /\ crashes \in 0..MaxCrashes
    /\ \A c \in Submitted : sub[c].at = "done" /\ expected[c] # Never
    /\ \A c \in Clients : sub[c].run \in {"running", "completed"} => c \in due
    /\ \A w \in Waiters : wait[w].failed # Nobody => sub[wait[w].failed].run = "failed"

SchedInit ==
    /\ SubInit
    /\ catalog = [d \in Deployments |-> [declared |-> d \in Declared, flow |-> TRUE]]
    /\ deployed \in [Deployments -> {Absent, NoPool}]
    /\ \A d \in Declared : deployed[d] = Absent
    /\ bead = [b \in Beads |-> NoRow]
    /\ expected = [c \in Clients |-> Never]
    /\ due = {}
    /\ heir = [c \in Clients |-> Nobody]
    /\ \E call \in [Waiters -> Calls] :
          wait = [w \in Waiters |->
              [call |-> call[w], at |-> "show", todo |-> call[w].ids,
               closed |-> [b \in Beads |-> "no"],
               failed |-> Nobody, row |-> NoRow, exit |-> "none"]]
    /\ troubles = 0 /\ crashes = 0

-----------------------------------------------------------------------------

Trouble == troubles < MaxTroubles /\ troubles' = troubles + 1
Fine == UNCHANGED troubles
Crash == crashes < MaxCrashes /\ crashes' = crashes + 1
WaitSame == UNCHANGED <<bead, expected, due, heir, wait, troubles, crashes>>

\* `po run --at`, or without a time: now. A time that cannot be parsed, a formula that
\* is not there and --from-file exit before they get here.
RunAt(c, dep) ==
    /\ SubAt(c, "idle") /\ \A d \in Clients : heir[d] # c
    /\ Ask(c, dep, NoPool)
    /\ UNCHANGED <<poolVars, catalog, deployed, refusals>> /\ WaitSame

\* The run of c is to start right after the time k.
StartsAfter(c, k) ==
    expected' = [d \in Clients |-> IF d = c THEN k + 1
                                  ELSE IF expected[d] > k THEN expected[d] + 1 ELSE expected[d]]

\* The server files the run with its tag and its start time: later, among the runs whose
\* time has not come; now; or a time that has passed.
Filed(c) ==
    /\ Submit(c)
    /\ \/ /\ sub'[c].at = "done"
          /\ \E k \in {expected[d] : d \in Clients} \cup {Never}, later \in BOOLEAN :
               /\ IF later THEN \A d \in due : expected[d] <= k
                  ELSE \A d \in Submitted \ due : k < expected[d]
               /\ StartsAfter(c, k)
               /\ due' = IF later THEN due ELSE due \cup {c}
       \/ /\ sub'[c].at = "error"
          /\ UNCHANGED <<expected, due>>
    /\ UNCHANGED <<bead, heir, wait, troubles, crashes>>

Submission(c) ==
    \/ Filed(c)
    \/ /\ FindManual(c) \/ Apply(c) \/ Create(c) \/ Probe(c) \/ Ensure(c) \/ Spawn(c)
       /\ WaitSame

-----------------------------------------------------------------------------
(* The run: Prefect's worker, and the flow.                                *)

\* A worker submits a run that is due.
Claimed(c) ==
    /\ sub[c].run = "scheduled" /\ c \in due
    /\ \E x \in Places :
         /\ sub[c].in \in Pools /\ procs[sub[c].in][x] > 0
         /\ sub' = [sub EXCEPT ![c].run = "running", ![c].place = x]
    /\ UNCHANGED <<poolVars, catalog, deployed, refusals>> /\ WaitSame

BecomesDue(c) ==
    /\ c \in Submitted \ due /\ \A d \in Submitted \ due : expected[c] <= expected[d]
    /\ due' = due \cup {c}
    /\ UNCHANGED <<subVars, bead, expected, heir, wait, troubles, crashes>>

FlowAt(c) == sub[c].run = "running" /\ heir[c] = Nobody

\* build_registry's last step. A bd that times out is not noticed.
ClaimIssue(c) ==
    /\ FlowAt(c) /\ sub[c].dep \notin Limits /\ bead[Issue].status # "closed"
    /\ bead[Issue].assignee # c
    /\ bead' = [bead EXCEPT ![Issue].status = "in_progress", ![Issue].assignee = c]
    /\ UNCHANGED <<subVars, expected, due, heir, wait, troubles, crashes>>

FlowEnds(c, state) == sub' = [sub EXCEPT ![c].run = state]

\* The work is done: the agent closed the bead with its verdict.
Finishes(c) ==
    /\ FlowAt(c)
    /\ FlowEnds(c, "completed")
    /\ \E good \in BOOLEAN :
         bead' = [bead EXCEPT ![Issue].status = "closed",
                              ![Issue].good = IF bead[Issue].status = "closed" THEN @ ELSE good]
    /\ UNCHANGED <<poolVars, catalog, deployed, refusals, expected, due, heir, wait, troubles, crashes>>

Crashes(c) ==
    /\ FlowAt(c) /\ Crash
    /\ FlowEnds(c, "failed")
    /\ UNCHANGED <<poolVars, catalog, deployed, refusals, bead, expected, due, heir, wait, troubles>>

\* agent_step raised RateLimitError. With a reset time that can be read the flow
\* submits its successor for then; without one it fails at once.
RateLimited(c) ==
    /\ FlowAt(c) /\ sub[c].dep \in Limits /\ Crash
    /\ \/ \E d \in Clients :
            /\ SubAt(d, "idle") /\ \A e \in Clients : heir[e] # d
            /\ Ask(d, sub[c].dep, NoPool)
            /\ heir' = [heir EXCEPT ![c] = d]
       \/ /\ FlowEnds(c, "failed")
          /\ heir' = [heir EXCEPT ![c] = c]
    /\ UNCHANGED <<poolVars, catalog, deployed, refusals, bead, expected, due, wait, troubles>>

\* Whatever came of the submission, the limited run fails.
LimitedFails(c) ==
    /\ sub[c].run = "running" /\ heir[c] \in Clients
    /\ sub[heir[c]].at \in {"done", "missing", "error"}
    /\ FlowEnds(c, "failed")
    /\ UNCHANGED <<poolVars, catalog, deployed, refusals>> /\ WaitSame

\* An agent or an operator closes another bead.
ClosedByHand(b) ==
    /\ b \in Others /\ bead[b].status # "closed"
    /\ \E good \in BOOLEAN : bead' = [bead EXCEPT ![b].status = "closed", ![b].good = good]
    /\ UNCHANGED <<subVars, expected, due, heir, wait, troubles, crashes>>

\* History: with this worker the pool loses its last, and c's submission counted on it.
Bereft(c, p, x) ==
    /\ sub[c].at \notin {"idle", "find", "apply", "create", "probe"}
    /\ Alive(p) = {x} /\ procs[p][x] = 1

Bereaves(p, x) ==
    sub' = [c \in Clients |-> [sub[c] EXCEPT !.bereft = @ \/ Bereft(c, p, x)]]

Workers ==
    \/ PoolNext /\ UNCHANGED <<catalog, deployed, sub, refusals>> /\ WaitSame
    \/ /\ \E p \in Pools, x \in Places : WorkerDies(p, x) /\ Bereaves(p, x)
       /\ Crash
       /\ UNCHANGED <<catalog, deployed, refusals, bead, expected, due, heir, wait, troubles>>

-----------------------------------------------------------------------------
(* `po wait`.                                                              *)

WaitAt(w, at) == wait[w].at = at
Set(w, rec) == wait' = [wait EXCEPT ![w] = rec]
Exits(w, code) == Set(w, [wait[w] EXCEPT !.at = "done", !.exit = code])
NoRunStep == UNCHANGED <<subVars, expected, due, heir, crashes>>

Ids(w) == wait[w].call.ids
Open(w) == {b \in Ids(w) : wait[w].closed[b] = "no"}

\* _show of one bead: a row, or none, which ends the wait.
Show(w, b) ==
    /\ WaitAt(w, "show") /\ b \in wait[w].todo
    /\ \/ /\ Set(w, [wait[w] EXCEPT
                !.todo = @ \ {b},
                !.closed[b] = IF bead[b].status # "closed" THEN "no"
                              ELSE IF bead[b].good THEN "good" ELSE "bad"])
          /\ Fine
       \/ Exits(w, "3") /\ Trouble
    /\ NoRunStep /\ UNCHANGED bead

\* --any ends with the first bead that is closed, else all must be.
Over(w) == IF wait[w].call.any THEN Open(w) # Ids(w) ELSE Open(w) = {}

Code(w) == IF \E b \in Ids(w) : wait[w].closed[b] = "bad" THEN "1" ELSE "0"

Shown(w) ==
    /\ WaitAt(w, "show") /\ wait[w].todo = {}
    /\ IF Over(w) THEN Exits(w, Code(w))
       ELSE Set(w, [wait[w] EXCEPT !.at = "look", !.todo = Open(w)])
    /\ Fine /\ NoRunStep /\ UNCHANGED bead

\* Mutant: the oldest run is read.
Newest_Oldest(b) ==
    IF b # Issue THEN {}
    ELSE {c \in Submitted : \A d \in Submitted : expected[d] >= expected[c]}

\* find_runs_by_issue_id with limit 1, newest start time first.
Newest(b) ==
    IF b # Issue THEN {}
    ELSE {c \in Submitted : \A d \in Submitted : expected[d] <= expected[c]}

\* FAILED_FLOW_STATES.
Failing(c) == sub[c].run = "failed"

\* latest_terminal_flow: nothing when Prefect does not answer.
Look(w, b) ==
    /\ WaitAt(w, "look") /\ b \in wait[w].todo
    /\ LET failed == {c \in Newest(b) : Failing(c)}
           next == [wait[w] EXCEPT !.todo = @ \ {b}]
       IN  \/ failed = {} /\ Set(w, next) /\ Fine
           \/ \E c \in failed : Set(w, [next EXCEPT !.at = "reread", !.failed = c]) /\ Fine
           \/ failed # {} /\ Set(w, next) /\ Trouble
    /\ NoRunStep /\ UNCHANGED bead

\* The bead's row once more: closed meanwhile, or not to be had, means going on.
Reread(w) ==
    /\ WaitAt(w, "reread")
    /\ \/ /\ bead[Issue].status = "closed"
          /\ Set(w, [wait[w] EXCEPT !.at = "look", !.failed = Nobody])
          /\ Fine
       \/ /\ bead[Issue].status # "closed"
          /\ Set(w, [wait[w] EXCEPT !.at = "note", !.row = bead[Issue]])
          /\ Fine
       \/ Set(w, [wait[w] EXCEPT !.at = "look", !.failed = Nobody]) /\ Trouble
    /\ NoRunStep /\ UNCHANGED bead

\* Mutant: the claim is looked for under another name.
ToClear_Other(w) ==
    wait[w].row.status = "in_progress" /\ wait[w].row.assignee = Nobody

\* Is the claim on the row the failed run's?
ToClear(w) ==
    wait[w].row.status = "in_progress" /\ wait[w].row.assignee = wait[w].failed

\* reconcile_failed_claim's comment, unless the row has it. A timeout is swallowed; the
\* comment may be there or not.
Note(w) ==
    LET f == wait[w].failed
        next == IF ToClear(w) THEN [wait[w] EXCEPT !.at = "clear"]
                ELSE [wait[w] EXCEPT !.at = "done", !.exit = "1"]
    IN  /\ WaitAt(w, "note")
        /\ \/ f \notin wait[w].row.notes /\ bead' = [bead EXCEPT ![Issue].notes = @ \cup {f}] /\ Fine
           \/ f \in wait[w].row.notes /\ UNCHANGED bead /\ Fine
           \/ f \notin wait[w].row.notes /\ UNCHANGED bead /\ Trouble
        /\ Set(w, next)
        /\ NoRunStep

\* The update names no claim: it clears whichever is there by then.
Clear(w) ==
    /\ WaitAt(w, "clear")
    /\ Exits(w, "1")
    /\ \/ bead' = [bead EXCEPT ![Issue].assignee = Nobody] /\ Fine
       \/ UNCHANGED bead /\ Trouble
    /\ NoRunStep

\* Nobody failed: out of time, or asleep until the next round.
Round(w) ==
    /\ WaitAt(w, "look") /\ wait[w].todo = {}
    /\ Set(w, [wait[w] EXCEPT !.at = "show", !.todo = Open(w)])
    /\ Fine /\ NoRunStep /\ UNCHANGED bead

TimesOut(w) ==
    /\ WaitAt(w, "look") /\ wait[w].todo = {}
    /\ Trouble
    /\ Exits(w, "2")
    /\ NoRunStep /\ UNCHANGED bead

WaitStep(w) ==
    \/ \E b \in Beads : Show(w, b) \/ Look(w, b)
    \/ Shown(w) \/ Reread(w) \/ Note(w) \/ Clear(w) \/ Round(w)

Flows(c) ==
    \/ BecomesDue(c) \/ Claimed(c) \/ ClaimIssue(c) \/ Finishes(c)
    \/ Crashes(c) \/ RateLimited(c) \/ LimitedFails(c)

SchedNext ==
    \/ \E c \in Clients : (\E dep \in Deployments : RunAt(c, dep)) \/ Submission(c) \/ Flows(c)
    \/ \E b \in Others : ClosedByHand(b)
    \/ Workers
    \/ \E w \in Waiters : WaitStep(w) \/ TimesOut(w)

SchedSpec == SchedInit /\ [][SchedNext]_schedVars

\* A submission goes on until the process is done with it, the server promotes runs
\* when their time comes, live workers poll, and a waiting process loops.
SchedFairSpec ==
    /\ SchedSpec
    /\ \A c \in Clients : WF_schedVars(Submission(c)) /\ WF_schedVars(BecomesDue(c))
                          /\ WF_schedVars(Claimed(c)) /\ WF_schedVars(LimitedFails(c))
    /\ \A w \in Waiters : WF_schedVars(WaitStep(w))

-----------------------------------------------------------------------------
(* Properties.                                                             *)

\* _ensure_worker_for_pool: without it a run "would otherwise sit in `Scheduled` forever
\* with no worker to claim it". A run that was submitted without a warning is claimed,
\* whether a worker was there or is yet to be spawned, unless the probe was not answered,
\* counted workers that were dead, or the last worker dies after the probe.
ScheduledIsClaimed ==
    \A c \in Clients :
        (sub[c].run = "scheduled" /\ ~sub[c].warned /\ ~sub[c].blind)
            ~> (sub[c].run # "scheduled" \/ sub[c].bereft)

\* No run of the issue is to start after the failed one.
LastHasFailed ==
    \E c \in Submitted :
        sub[c].run = "failed" /\ \A d \in Submitted : expected[d] <= expected[c]

\* As long as the run of an open issue that starts last is a failed one, every process
\* that waits for the issue finds out and leaves. What fails while a run with a later
\* start time is filed stays unseen.
FailureIsNoticed ==
    \A w \in Waiters :
        (LastHasFailed /\ Issue \in Ids(w))
            ~> (wait[w].at = "done" \/ bead[Issue].status = "closed" \/ ~LastHasFailed)

\* Who left because of a failed run has taken the run's claim off the bead, when no
\* bd call failed.
ClaimReleased ==
    \A w \in Waiters :
        (wait[w].at = "done" /\ wait[w].failed # Nobody /\ bead[Issue].assignee = wait[w].failed)
            => troubles > 0

=============================================================================
