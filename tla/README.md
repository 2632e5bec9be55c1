# A TLA+ model of prefect-agent-orchestration

`po` runs coding agents as Prefect flows. A *bead* is an issue in a tracker
(`bd` on dolt, or `br`); a *formula* is a flow that asks agents for work, step
by step, each step being one agent turn against one bead whose close reason is
the step's verdict. Flows are submitted as scheduled runs, claimed by a worker,
killed, resumed, retried and cancelled; state is spread over Prefect, the
tracker, run directories on disk, tmux and the process table, and no two of
these change together. That is what this project models.

Source paths below are relative to `src/prefect_orchestration/` unless they
begin with another directory of the repository.

## 1. Inventory

### Run control: reconcile, resume, retry, cancel

*Files:* `reconcile.py`, `resume.py`, `retry.py`, `cancel.py`, `status.py`,
`run_lookup.py`, `tmux_tracker.py`.
*State:* Prefect's flow runs; the run directory of an issue, its `.po-formula`
stamp and its resume markers; the lock file and the `flock` on it; tmux
sessions; the controllers' and commands' processes.
*Operations:* a reconciler pass (`reconcile_once`), `resume_issue`,
`retry_issue`, `cancel_issue`.
*Interactions:* each operation reads one store and then writes another. The
reconciler is started by a timer and by hand; it calls `resume_issue`.
*Hard:* discovery is stale when it is acted on; the lock file of a dead holder
is unlinked; a pass fails or is killed between any two steps.
*Correct when:* an abandoned run is resumed, and once; a dead one does not stay
Running; two commands never archive and launch the same issue at once.

### agent_step and the goal loop

*Files:* `agent_step.py`, `iter_bead_ids.py`, `auth_rotation.py`,
`goal_loop.py`, parts of `beads_meta.py`.
*State:* beads; the map from convention id to minted id; the session of each
role; the OAuth slot; the call in progress.
*Operations:* probe, create, record, describe, turn, failover, nudge, artifact
nudge, forced close; the loop's four terminal states.
*Interactions:* formulas call `agent_step`; the agent closes its bead from
another process; a killed flow is run again from the top and finds what it left.
*Hard:* a crash between any two steps; a probe that times out and reads as
"not found"; a torn map; an agent that outlives its flow.
*Correct when:* finished steps are neither repeated nor answered differently;
every call ends; the loop reports what its beads say.

### Agent turns

*Files:* `agent_session.py`, `capacity.py`, `role_config.py`, `stop_hook.py`,
`tmux_tracker.py`.
*State:* a session's id, backend and model; the inbox; the `.in`, `.out` and `.rc`
files of a tmux turn, its pane, the spawn lock of the rig, Claude's local settings
file, the sentinels of the Stop hook.
*Operations:* `AgentSession.prompt` with capacity fallback and transport
recovery; a backend's `run`.
*Interactions:* turns of one role share names and files; all turns of a rig share a
tmux session; operators retry and cancel beside them; the agent outlives the turn's
process.
*Hard:* which provider a session id belongs to; the leavings of a turn that died.
*Correct when:* the chain of runtimes is exhausted before a capacity error is raised;
no provider is handed another's id; a turn reads its own result, ends, and leaves no
pane; mail is not lost.

### Role sessions and accounts

*Files:* `role_sessions.py`, `role_registry.py`, `sessions.py`, `account.py`.
*State:* role to session id in three tiers (bead metadata, JSON, legacy metadata);
the account registry. *Hard:* a tier that is unavailable for one write; concurrent
read-modify-write; a registry that changes between two turns.
*Correct when:* what was last written is read; a session is reopened in its home.

### Worker pool, scheduling, serving

*Files:* `workers.py`, `scheduling.py`, `deployments.py`, `serve.py`. *State:* workers
in the server's register and their local processes, deployments, runs.
*Hard:* check-then-spawn; a register that lists dead workers.
*Correct when:* a pool without workers gets one for the run that is submitted to it, and
the run is claimed, or the caller is warned.

### Waiting and claims

*Files:* `wait.py`, `formulas.py`, `cli.py` (`wait`). *State:* a bead's status and
assignee, the newest run's state. *Interactions:* the waiter reads the tracker first
and Prefect second, and writes the claim back.
*Hard:* a crashed flow closes nothing; newer runs come in between.
*Correct when:* a waiter notices that the run to start last failed, and its claim goes.

### Execution environments

*Files:* `env.py`, `env_dispatch.py`, `env_drivers.py`,
`packs/po-formulas-cloud-rclaude/.../driver.py`. *State:* a record per environment,
the machine it names, what is installed there, its secrets, its worker.
*Hard:* each step may raise or be killed; record and machine have separate lives; two
commands about one environment. *Correct when:* every machine is in someone's hands;
a command that pushes secrets does so before it starts the worker; a dispatch ends.

### Bead graph

*Files:* `beads_meta.py`, `beads_backend.py`. *State:* none of its own: walks over
beads, parents and blockers by many `bd` calls. *Hard:* beads close during a walk;
a call that times out reads like an empty answer.
*Correct when:* one tree has one seed, the open tail of the graph and nothing beside it
is found, nodes come after their blockers unless those form a cycle, a watched close is
seen.

### Prompt formula and its observation

*Files:* `prompt_formula.py`; `watch.py`, `run_lookup.py`, `attach.py`. *State:* a
bead, a run directory, a flow run; the watcher's last scan, its queue.
*Hard:* several runs of one label; files written after the flow ended.
*Correct when:* a run that was told its bead's id has the bead for itself; a bead is
closed with its reply on disk; a watch shows every change and that the flow is over.

### The rest

`trace.py`, `spend.py`, `telemetry.py` summarise logs; `artifacts.py` and its kin read
and write one run's files; `templates.py`, `context_bundle.py` render; `packs.py`,
`pack_overlay.py`, `scaffold.py`, `scratch_loader.py` install files; `doctor.py` and
`skill_evals*.py` diagnose; `cli.py` dispatches. Outside the package: bundled formulas
(`packs/`), a terminal viewer (`tui/`), images and charts.

## 2. Modules

| Module | Models |
| --- | --- |
| `RunStore` | Prefect's runs, controllers, agents, run directories and time, with what the engine, the worker and time do to them |
| `Launch` | the steps of `resume_issue`, `retry_issue` and `cancel_issue`, taken by a set of callers |
| `RunControl` | `reconcile_once`, and the composition of callers and reconcilers; the properties |
| `MCRunControl` | constants for TLC |
| `RunControlProofs` | theorems |
| `AgentStep` | one `agent_step` call after another for a set of roles, the agents, the faults; the properties |
| `GoalContract` | what the goal loop promises, without beads, turns or crashes |
| `GoalLoop` | `goal_loop` over `AgentStep`, run repeatedly; shown to implement `GoalContract` |
| `MCAgentStep`, `MCGoalLoop` | constants for TLC |
| `GoalLoopProofs` | theorems about `AgentStep`, for every set of steps, and about `GoalLoop` |
| `Accounts` | the account registry, its writers, the choice of an account |
| `RoleSessions` | the three tiers of the session store, `set` and `get` as requests |
| `AgentTurn` | `AgentSession.prompt` and `RoleRegistry` over both; the properties |
| `AgentTurnProofs` | theorems |
| `Tmux`, `TmuxTurn` | the tmux server; the turns in its panes; the properties |
| `TmuxTurnProofs` | theorems |
| `WorkerPool`, `Submission`, `Waiting` | workers; `submit_scheduled_run`; runs of an issue and `po wait`; the properties |
| `WaitingProofs` | theorems |
| `Hosts`, `Environments` | machines and what a driver does to them; the `env` commands, over `Submission`; the properties |
| `EnvironmentsProofs` | theorems |
| `BeadGraph`, `BeadWatch` | walks over beads; `watch()`; the properties |
| `BeadGraphProofs` | theorems |
| `PromptRun`, `Feed` | the prompt formula; `po watch` over it; the properties |
| `PromptRunProofs` | theorems |
| `MCAgentTurn`, `MCTmuxTurn`, `MCWaiting`, `MCEnvironments`, `MCBeadGraph`, `MCFeed` | constants and bounds for TLC |

### RunStore, Launch, RunControl

`runs` is the sequence of flow runs (issue, Prefect state, how often it was
durably resumed); `ctrl` has the runs with a live controller, `agents` the live
agent sessions, `dirs`/`stamped`/`markers` the run directory, its stamp and its
markers; `old` and `stale` stand for the ages the code compares (24 h, and the
staleness of artifacts). Time is the actions `RunAges` and `ArtifactsAge`.

A caller is a program counter with an issue and a command. Its actions are the
stretches of the source between two requests to different stores, in the source's
order: `Start`, `Check` (in-flight runs and live processes), `InspectLock` and
`UnlinkLock` (the stale lock), `TakeLock`, `KillSessions`, `ArchiveRunDir`,
`RestoreMetadata`, `Submit` or `RunInProcess`. Any request may raise and any
caller may die. The reconciler adds `FindAbandoned`, `FindZombies`,
`ForceFailed`, `NextToResume`, `Claim` and `HandleException`, and takes the
resume's steps from `Launch`.

Facts of the code the model keeps:

- The handler of `reconcile_once` unlinks `marker`, a loop variable. It may name
  the file of an earlier iteration, or nothing (`Unbound`), and then the
  handler itself raises and the pass is over.
- Liveness is the issue's id in a command line or a tmux name (`_has_live_process`,
  `status.py:356-368`). The command line of a controller that a worker launched does not
  have it: such a controller shows through its agent only, and between two turns not at
  all. So a pass may force it Failed and resume it beside itself, and no property says
  that only dead runs are failed.
- A `po retry` or `po resume` process matches its own scan, so a stale lock is
  cleared only on behalf of `po reconcile`.
- A lock file's time is never refreshed. A reconciler may unlink a lock that is
  held, hence `LockMutex` is claimed without reconcilers.
- A retry resolves the formula after it archived the directory that says which.
- Archiving takes the markers away: a retry lets a run be resumed again.

### AgentStep

The close reason of a bead, with its notes, is abstracted to the keyword it leads with
and the set of words in either: that is what the parser and its documentation tell
apart. The parser scans both (`agent_step.py:563-571`); the model has the notes that are
there when the bead is closed, none that are added later. A session id is a number that
is compared. `call` is the call in progress, with the session
object the caller holds (`outer`) beside the one a failover rebuilt (`sid`).
Actions follow the source: `Probe` (the fast path is a return), `CreateOnDolt`
or `CreateOnBr` and `Record`, `Describe`, the turn (`AgentCloses`,
`AgentWritesArtifact` by the agent; `TurnEnds`, `FailsOver`, `TurnRaises` by the
flow), `Check` with the nudge, `CheckArtifacts`, `ForceClose`. Faults: `bd show`
that times out reads as missing, `bd` commands raise, a map write is lost or
torn, the flow is killed and its agent may go on (`orphans`).

### GoalContract and GoalLoop

The contract has one verdict per role-step, given in protocol order and never
changed, and one outcome that those verdicts stand for. `GoalLoop` composes the
loop with `AgentStep`'s actions over the same variables. The refinement maps a
role-step to the verdict its closed bead carries, and the outcome to itself.

### RoleSessions, Accounts, AgentTurn

A role is a process of turns: `OpenSession` (`RoleRegistry.get`), `StartTurn`,
`Attempt` on each runtime of the chain, `Recover` after an interrupted transport,
`MarkRead`, then `ProbeSeed`, `Stamp`, `ReadSessions`, `WriteSessions`, the four
requests of `RoleSessionStore.set`. `AfterCapacity` is the nested loop's continue,
break and raise. `issued` records who handed out a session id: a provider and an
account. `BdKey` is the spelling of a role that bead metadata accepts. Mail, edits of
the registry (a write of the file may be torn), a death and the other role's turns
happen at any step.

### Tmux, TmuxTurn

A turn goes through writing its files, killing a pane of its name, spawning its own,
waiting for the exit code (or, in the TUI, for the screen, the paste, the sentinel),
reading the result and cleaning up. The program in the pane is another process. Names
and targets resolve as tmux resolves them. `Die`, `Signal`, `Retry` and `Cancel` are
what happens from outside; the settings file may be absent, someone else's, or
illegible, and the rig's lock may be held by a hanging process.

### WorkerPool, Submission, Waiting

`Registered` differs from `Alive`: a worker that died stays in the register until the
server notices. Each request of `submit_scheduled_run` is an action; `blind` remembers a
probe that was not answered or counted dead workers only, `bereft` that the pool lost its
last worker after the probe. `expected` has the order of the runs' start times, which is
not that of their submission: `Filed` puts a run with `--at` after those that are due, one
without before those that are not, and `Newest` is the one run that
`find_runs_by_issue_id` returns for the waiter, the last to start. `Waiting` adds the
runs' lives (`BecomesDue`, `Claimed`, `ClaimIssue`, `Finishes`, `Crashes`,
`RateLimited`) and the waiter's loop: `Show` per bead, `Look` at Prefect, `Reread`,
`Note`, `Clear`, `Round`.

### Hosts, Environments

A command is a process that keeps the record it read. `RunWithEnv`, `RunEphemeralEnv`,
`EnvUp`, `EnvDown`, `EnvReap`, `EnvStart` compose the steps `Provision`,
`PushIdentity`, `LaunchWorker`, `WriteRecord`, `Deliver`, `Submitting` (the actions of
`Submission`), `Poll`, `Mirror`, `TearDown`, `Delete` and the rest in the order of
`env.py` and `env_dispatch.py`. A kind of machine says what a driver can do: ssh hosts
have no teardown, a sandbox can be suspended and loses its secrets, a plain driver does
what the protocol says.

### BeadGraph, BeadWatch

A walk is a worklist and the nodes found (`own`), one `bd` call per action; a start has
the graph, the statuses and who walks. `Sort` is `topo_sort_blocks`, with layers for
the order: `Placed` counts the nodes of the first n layers. `Below` is the least set
around the root that has whatever depends on one of its beads. `Compare` gives the
events of two snapshots.

### PromptRun, Feed

A run goes from `Mint` or `BdCreate` through `Prepare`, `Stamp`, `Tag`, `Claim`, `Ask`,
`Turn`, `Reply`, `Session` to `Close`; a handle is an id the tracker gave, one minted
from the clock, the slug of the label, or a word. The word is what `_bd_create` takes for
the id where bd's output is no JSON: the first one with a hyphen in it
(`prompt_formula.py:92-94`), be it the new bead's id, another bead's or none (`text`). An
answer that is JSON without an id, and a call that fails or times out, may leave a bead
that no run knows of (`BdCreate`, `Mint`). A directory has the times of its files.
`Feed` adds the watcher: `Locate`, `Query`, `Replay`, `Seed`, then the two pollers
(`Scan` and `Compare`; `ReadFlow` and `ReadTasks`), the queue and `Drain`, to `Finish`.

## 3. Runs

| Run | Question | Distinct states |
| --- | --- | --- |
| `run_commands` | two concurrent commands on an issue, each of three kinds, durable or foreground, forced or not | 1.21 M |
| `run_reconcile_live` | two reconcilers, no faults: liveness, and no run resumed twice | 147 k |
| `run_reconcile_faults` | two reconcilers, two issues, raising calls and crashes | 4.31 M |
| `run_exactly_once` | a disagreement with a docstring | counterexample |
| `step_calls` | three calls of one role-step with every fault | 472 k |
| `goal_loop` | three runs of a two-iteration loop | 289 k |
| `turns` | two roles of one seed: fallback, recovery, sessions, accounts, mail | 608 k |
| `tmux_turns` | two turns of one role, on every pair of backends that share code, with operators beside them | 454 k |
| `scheduling` | two submissions and the runs that follow, a worker place, a waiter | 197 k |
| `environments` | two or three commands about one environment, per kind of machine | 157 k |
| `bead_graph` | two seed walks, one walk over children, or one watch, among beads that change | 142 k |
| `prompt_watched` | two `prompt` runs of one label, or one and a watch | 377 k |

**Run control.** `LockMutex`: at most one command per issue is between taking the lock
and its launch. `ForegroundUndisturbed`: no retry archives the directory of a flow
that another command runs in process. `ResumedAtMostOnce`, `ResumedRunsAreOver`
(a resumed run is terminal for Prefect). Liveness: `DeadRunTerminalized`, `AbandonedIsResumed`.

**Steps.** `AnsweredStepsRest`: an answered role-step is not worked on again, except
after the faults it names. `VerdictStable`: no two calls of a role-step answer two
verdicts, "failed" aside. `SessionKept`: the store has the session of the last
completed turn. `AllSlotsTried`: a rate limit fails a step only after each slot was
limited. `KeepsContract`: the refinement. Liveness: `StepEnds`, `RunEnds`.

**Turns.** `CapacityExhaustive`: a capacity error leaves `prompt` only after each
runtime was tried as often as it may be. `SameProviderInProcess`: within a process no
provider is asked to resume another's session. `ReadsOwnWrites`: what `set` returned
for is what `get` finds, in whatever tier and spelling. `RestoredAtHome`: a session of
claude or codex is reopened under the registered account that holds it. `MailNotLost`: mail leaves the inbox after a
completed turn that carried it. `OwnAnswer`: a turn's success is its own agent's
answer. `NoPaneLeft`, `PeersSpared`: cleanup leaves no pane of its own and closes no
pane of another. Liveness: `TurnEnds` of both modules.

**Scheduling.** `ScheduledIsClaimed`: a run that was submitted without a warning is
claimed, also where its pool had no worker before. `FailureIsNoticed`: a waiter learns
that the run to start last failed.
`ClaimReleased`: the failed run's claim goes with the waiter.

**Environments.** `MachineFindable`: a machine that a command made has a record, or a
process that works with it. `SecretsReachWorker`: a worker that runs has the secrets,
also after a suspension, on every environment but an ephemeral one for which po had none
of its own. `DispatchEnds`.

**Graph.** `SeedShared`: an issue and its parent have one seed. `BlockersFirst`: a node
comes after its blockers. `OpenTailFound`: every open bead below the root is a node.
`OnlyBelow`: no other bead is one. `CyclesAreReal`: a walk is refused for a cycle only if
its nodes have one.
`CloseIsSeen`: a watch reports a close.

**Prompt runs.** `OwnBead`: a run that was told its bead's id has that bead, and no other
run works on it. `ClosedIsAnswered`, `ChangesShown`, `OutcomeShown` (a watch that is on
when its flow leaves Running shows that it has; a run that is being cancelled counts as
over, and ends the watch).

The type invariants are asserted of every state, for each module in one run at least, by
`Typed`, a constraint of the MC module.

**Disagreement.** `run_exactly_once`: "Fail and durably resume abandoned controllers
exactly once" (`reconcile.py:107`). A directory lookup that raises for one issue
withdraws the marker of the one before.

Others follow from the models and have no run of their own:

- `README.md:164-166` says the timer durably resumes recoverable run directories. The
  run is forced Failed first; if the submission then raises, no later pass looks at it
  (`AbandonedIsResumed` is checked without such faults).
- "stale Running flow records that have no live controller or agent process"
  (`README.md:164-166`, and `docs/plans/2026-07-11-durable-execution-design.md:24-28`): a
  controller that a worker launched is not seen (section 2), so a record whose controller
  is silent between two turns for longer than `stale_secs` counts as stale. And the
  process table is read once, before the records are failed one by one
  (`reconcile.py:98`): a controller that opens its next turn meanwhile is failed as well.
- "if none is online they spawn a detached one" (`README.md:160-161`): registered workers
  are counted, online or not (`scheduling.py:321-326`), so none is spawned beside a
  register of dead ones.
- "or a tracked Prefect flow reached Failed, Crashed, or Cancelled before its bead closed"
  (`cli.py:1695-1697`): the waiter reads one run, the last to start (`status.py:193`,
  `wait.py:52-59`). A run that fails while one with a later `--at` is filed goes unseen.
- "safely release its exact PO-owned claim" (`wait.py:89`): the claim is compared on a row
  read earlier and cleared without a condition, so a newer run's may go instead.
- "always calls push_credentials so the driver injects the host's stored secrets even when
  PO has nothing of its own to add" (`env.py:244-248`): an ephemeral environment gets them
  only when PO has (`env_dispatch.py:321-325`).
- "mints a unique per-run bead instead of the deterministic prompt-slug bead"
  (`prompt_formula.py:216-219`): without `--fresh` a run has bd make a bead with an id of
  its own as well; the slug names a run without a bead, or one whose bead's id bd did not
  tell. With `--fresh` two runs of one second share theirs.
- "will reappear next cycle" (`beads_meta.py:1410-1411`): a bead that reappears has nothing to be
  compared with; if it was closed meanwhile, the close gives no event.
- "Issue whose runs should stop." (`cli.py:2143`): Scheduled runs are not asked for
  and start later.
- "the leading keyword token" (`agent_step.py:788-790`): the parser takes the first
  keyword of its own order that occurs anywhere.
- "will leave the bead open" (`agent_step.py:843`): it is force-closed.
- "never stacks workers" (`workers.py:16`): two callers at once do.
- "the merged set is a superset of each — so per-node union is enough"
  (`beads_meta.py:1133`): with children discovered by edges and by number, each source has
  dropped the blockers that only the other finds. A child that the edges find does not
  wait for a numbered bead that blocks it and has no edge to the epic (`Mixed` in
  `MCBeadGraph`): this walk is why `BlockersFirst` is about walks with one source.
- "uniquely-named" seed beads (`beads_meta.py:509`): two of one second are one.

### What the properties excuse

Several properties name the cases they do not cover. Each is a behaviour that the model
has and the code shows:

- `SameProviderInProcess`: a new process hands the stored id to the primary provider,
  whoever issued it; a forked turn that reports no id keeps the stored one.
- `ReadsOwnWrites`: a write whose `bd` call timed out lands in a tier that is read last.
- `OwnAnswer`: turns of one name at the same time take each other's files.
- `PeersSpared`: with a session per turn, cleanup by name kills a newer turn's.
- `ScheduledIsClaimed`: submissions that were warned; a probe that was not answered, or
  that counted workers which were all dead; a pool that loses its last worker after the
  probe. Deployments without a pool and flows that cannot be loaded are not in the run
  (`SchedInit`).
- `FailureIsNoticed`: a failure while a run with a later start time is filed.
- `ClaimReleased` says nothing of a newer run's claim, which may be cleared.
- `MachineFindable`: calls that failed, a worker that could not start, an environment
  that two processes put up leave machines that only the provider knows.
- `SecretsReachWorker`: an ephemeral environment for which po has no secret of its own,
  where none is pushed; calls that failed (a push of secrets that fails is a warning); two
  processes that put up or start one environment, or a machine that two environments
  share. A `down` beside two `up` on a host, or a second stop and start, takes the secrets
  away after one process pushed them and before it starts the worker.
- `RestoredAtHome`: cursor has no homes. The run has one writer of the registry; two at
  once lose an addition, whose handle may then be given to another provider.
- `DispatchEnds`: without a worker the dispatcher polls for ever.
- `BlockersFirst`, `OpenTailFound`, `SeedShared`: a `bd` call that timed out reads as an
  empty answer; the union of two sources cuts each one's blockers to its own nodes.
- `ChangesShown`: what is written between the replay's scan and the next is never shown.
- `OwnBead`: fresh runs that mint one name in one second share bead, directory and reply; a
  run that took a word of bd's output for the id may have no bead or another's.
- `AnsweredStepsRest`, `VerdictStable`: a call whose own probe misread; on br, and where bd
  reopens what is closed, misread probes and a lost id map altogether. `VerdictStable` sets
  "failed" aside. `SessionKept` is not about calls that end by an artifact nudge.
- `CloseIsSeen`: a call that timed out.

### Bounds

Two callers or two reconcilers are the least that can interfere, and one issue
is enough for them, except where a loop variable carries a value from one issue
to the next: `run_reconcile_faults` and `run_exactly_once` have two. The number
of runs bounds resumes of resumes. Commands and crashes are counted by the
callers themselves: a caller makes one call. `MaxClaimed` is the number of
runs, from the first one on, that a worker may claim; the runs filed after those stay
Scheduled. `CONSTRAINT Quiet` of
`run_reconcile_faults` and `run_exactly_once` leaves silent agents, runs older
than 24 hours and aged lock files out of the two-issue instances; silent agents and old
runs are in `run_reconcile_live`, with one issue, and all three in `run_commands`.
`FreshLocks` leaves aged lock files out of `run_reconcile_live`, where no holder of a lock
dies: nothing obliges a lock file to age, so no behaviour ends early for it.

In `step_calls` three calls are a first, a crash's repetition, and one after it;
two OAuth slots are the least with a failover. One iteration is enough because
role-steps share nothing but the role's session, which a repeated call reads as
well. `goal_loop` adds iterations and roles and drops probe and map faults, whose
effects on one role-step `step_calls` covers; its agents die with their flow,
because a reconciler resumes an issue only when no agent session of it lives
(`Abandoned`). With survivors the contract fails: an agent may close its bead
between the last probe and the forced close, whose "already closed" the step
takes for its own close and returns "failed".

The other MC modules bound what comes from outside, by a constraint on the states:

- `turns` (`FewAtOnce`): one kind of interference in a behaviour, of mail, edits of the
  registry, a death, and the other role; two turns per role, two session ids. Chains:
  a second provider with a retry, a second account and a third provider, one runtime
  with a retry value that is refused.
- `tmux_turns`: two turns, one fault (a death, a signal, a refused tmux call); four
  setups pair the backends with both layouts, the lock and the settings file.
- `scheduling` (`Small`): two things that go wrong, one of them a refused call; one, and
  one submission, where there are two beads to wait for.
- `environments` (`MCSetups`, `Small`): three commands per behaviour; with a sandbox
  every command, with the other machines what differs there; a fault where fewer
  processes interleave.
- `bead_graph` (`MCStarts`, `Small`): four beads in eight graphs, among them a cycle of
  blockers, one of parents, and a root with beads beside it; one bead closes during a walk, one call times out;
  `MaxHops` is 3 where the code has 16, so that the cycle of parents reaches it. Nobody
  reopens a bead.
- `prompt_watched` (`Small`): two runs, or a watch over the last steps of one; one mishap;
  five writes per directory.

A constraint cuts behaviours off where the environment would leave the bounds, never in
the middle of what the code does by itself; so the liveness properties speak of the
behaviours within them.

### Fairness

Run control: the timer starts a pass every five minutes and a pass goes on
(`serve.py:162-190`); the worker polls its pool; time passes; a turn ends and a
flow has finitely many. Strong fairness is needed where an action is enabled
again and again between turns (a flow's end). Steps: the flow's code runs, and a
turn ends because the backend's wall-clock budget (`DEFAULT_AGENT_TIMEOUT_S`,
`agent_session.py:52`) turns a wedged one into an error. Turns: the turn's code runs,
and its timeouts expire. Scheduling: a submission's code runs, the server promotes due
runs, live workers poll, a waiter loops. Environments: the command's process runs, live
workers poll, flows end. Graph: `watch` loops. Prompt runs: each task of the watcher's
event loop gets its turn. All of these are weak. No fairness is assumed of agents,
operators, or faults.

Deadlock is checked in the runs of the reconcilers, which start passes forever.
Commands, calls, turns and formulas end: the other runs say `CHECK_DEADLOCK FALSE`.

## 4. Theorems

All hold for every value of the constants that the assumptions of the modules
allow. `tlapm` on each of `RunControlProofs`, `GoalLoopProofs`, `AgentTurnProofs`,
`TmuxTurnProofs`, `WaitingProofs`, `EnvironmentsProofs`, `BeadGraphProofs` and
`PromptRunProofs` checks them. The theorems about `AgentStep` stand beside those about
the loop, which use their lemmas; they cite no assumption about the loop.

| Theorem | States | By |
| --- | --- | --- |
| `RunControlProofs!Typing` | `TypeOK`, which includes that the stamp never outlives its run directory | one lemma per action |
| `ResumedOver` | `ResumedRunsAreOver` under every fault | `OverInv`: what a pass holds between its steps is terminal already (`PassOK`), because the forced Failed comes before the claim |
| `LaunchMutex` | `LockMutex` for any commands, if there is no reconciler | `LockInv`: who is past `TakeLock` holds the lock of the file that is linked, because every command sees itself in the process table and so unlinks nothing (`OwnsLock`) |
| `ForegroundKept` | `ForegroundUndisturbed` under the same assumption | who runs a flow in process still holds the lock |
| `ResumedOnce` | `ResumedAtMostOnce` without raising lookups and without retries | `OnceInv`: a resumed run has its marker, and passes past `Claim` have different ones |
| `GoalLoopProofs!Typing` | `TypeOK` | one lemma per action |
| `EverySlotTried` | `AllSlotsTried` for any number of slots | `TurnInv`: the slots tried are those the rotation passed since the turn began, and the budget is the number of those ahead |
| `SessionsKept` | `SessionKept` | `SessionInv`: from the end of the work on, the caller's session object, the store and the last completed turn agree |
| `AnsweredRest` | `AnsweredStepsRest` for any roles, iterations, calls and faults | `StepInv` |
| `VerdictsStable` | `VerdictStable`, likewise | `StepInv` |
| `LoopTyping` | `LoopTypeOK` | `AgentStep`'s steps keep `TypeOK`, the loop's are calls |
| `ContractKept` | `KeepsContract`: the refinement, for any iterations, runs, slots and both backends, under `GoalWords` and `Quiet` | `LInv` |
| `AgentTurnProofs!Typing` | `TypeOK` of `AgentTurn` | a turn under way stands in a chain that the policy's checks accept |
| `ChainExhausted` | `CapacityExhaustive` for chains and retries of any length | `InOrder`: the runtimes behind the attempt were tried in full |
| `MailKept` | `MailNotLost` for any mail and deaths | `Carried`: what a turn will mark as read is what its prompt carried |
| `OwnProvider` | `SameProviderInProcess` | `OwnSession`: an id the process did not load from the store was issued by the session's own provider |
| `StoreReturns` | `ReadsOwnWrites`, if the metadata keys of the roles differ (`KeysApart`) | `Stored`: what the next `get` finds, tier by tier, at each of the four requests of a `set` |
| `RestoredThere` | `RestoredAtHome`, if one admin writes the registry at a time or no handle is used with two providers (`HandlesKept`) | `HomeInv`: what is being written keeps what is registered, and the account that issued an id is registered with the provider that did |
| `TmuxTurnProofs!TmuxTyping` | `TmuxTypeOK` | one lemma per action |
| `PaneGone` | `NoPaneLeft` for any turns, names and operators | `Panes` |
| `PeersKept` | `PeersSpared` | `Panes`: a cleanup shuts what its target resolves to, in a shared session at most its own pane |
| `AnswerIsOwn` | `OwnAnswer` for any turns after and beside one another | `AnswerInv` |
| `WaitingProofs!SchedTyping` | `SchedTypeOK`, with which runs are due and which ones failed where a waiter takes them for failed | `SchedInv` |
| `NoClaimLeft` | `ClaimReleased` for any waiters, submissions, workers and beads | `ClaimInv` |
| `EnvironmentsProofs!EnvTyping` | `EnvTypeOK` | one lemma per action |
| `MadeIsFound` | `MachineFindable` for any commands, environments and kinds of machine | `EnvInv` |
| `WorkersArmed` | `SecretsReachWorker`, likewise, with or without secrets of po's own | `EnvInv` |
| `BeadGraphProofs!GraphTyping` | `GraphTypeOK` | one lemma per action |
| `SeedsShared` | `SeedShared` for chains of any length and any cycles, if no call timed out | `Seeking`: the first parents lead from the issue to where its walk stands; they lead to one end (`OneEnd`) |
| `TailFound` | `OpenTailFound` for any graph, whatever is closed meanwhile, if no call timed out | `Descending`: every edge of a bead that was seen is still queued or has been followed |
| `OnlyBelowFound` | `OnlyBelow`, whichever calls time out | `Staying`: the queue and the nodes are below the root |
| `BlockersComeFirst` | `BlockersFirst` for any number of nodes, if no call timed out | `Ordering`: the dependencies of a node have every node that blocks it; `LayersOrder` |
| `CyclesReal` | `CyclesAreReal`, whichever calls time out | `Holding`: no dependency is made up; `StuckMeansCycle` |
| `PromptRunProofs!Typing` | `PromptTypeOK` | a run under way has a handle (`Named1`) |
| `Answered` | `ClosedIsAnswered` for any number of runs, labels and mishaps | `AnswerInv`: a run past its reply has it on disk or the directory was marked as taken away, and a reply that is there stays (`Grows`) |
| `OwnBeads` | `OwnBead` for any number of runs, rigs and mishaps | `OwnInv`: where it is not a word, the kind of a handle tells how the run came by it, and beads do not go away |

`StepInv` says, unless the faults that lose beads are on (`Unsound`): which bead
stands for a role-step (`MapOK`: on br a recorded bead exists and no bead has the
convention id), that an answered role-step's bead is closed with a reason that
gives the answer (`AnswersOK`), and what the call in progress knows at each place
of the code (`CallOK`). Neither property is inductive alone: a repeated call is
harmless because the bead it finds is closed, which holds because each place that
returns has seen it closed or closed it, and because nothing that creates or
closes a bead may hit a closed one.

`LInv` adds to `StepInv` what relates the loop to its beads. `FlowInv`: the role-steps
have different beads, on br also while a new one is not yet recorded, and the forced
close finds its bead open. `LoopInv`: whoever has an answer has all earlier ones, each
of which made the loop go on (`Chain`); the role-step the loop waits for is the next
one; a call that returned told the answer, or "failed" for a forced close, which the
loop takes as the contract takes the forced close's reason; a reported outcome is one
the answers stand for (`EndedAt`). From `Chain` only one role-step can end the loop
(`OneEnd`), so that a repeated run's report is a stutter of the contract. `Quiet` says
that `bd show` answers, the map is written, agents die with their flow and nothing
requires artifacts; `GoalWords` are the keywords `goal_loop` passes.

`ClosedIsAnswered` is not inductive either: two runs may share a handle, so that one
closes a bead in whose directory the other wrote last. `PromptRunProofs!AnswerInv` speaks of each run's
own place in the code, and a step of one run cannot spoil it for another because no
step takes a reply away without marking the directory.

`TmuxTurnProofs!AnswerInv`: a turn reads files by name and aims at panes by name, so the property needs
what lies under a name. `Panes`: without a shared session two live panes never have one
name, and a turn before its spawn has none. `Remembered` and `Handed`: whoever of the role
is beside a turn, or left a pane or a sentinel, is in the history the property speaks of
(`rivals`), and a prompt lies under its own turn's name. `OwnFiles` and `OwnPane`: for a
turn without a namesake (without a rival, in the TUI) the files tell how far its own pane
is. `Kept`: nothing changes an answer that was taken.

`ClaimInv`: a waiter looks at Prefect after it read the bead, and clears the claim after
it read the bead again. `Sound` says what it knows at each place: from the look that found
the failed run until it leaves, that run has the claim only if the row read last says so
(`ToClear`), for which a claimed open bead must be in progress (`Claims`). That nobody
claims the bead for a failed run later needs that a failed run stays failed (`FailedStay`).

`EnvInv`: under any fault, which machine each command may name (`TypeInv`, and `RefInv`: a
record names a machine that its own environment's command made, once). As long as no call
has failed, `Calm`: a command that tears down knows of what (`Sure`), who deletes a record
saw the machine go (`TornDown`), who starts a worker left the secrets (`Supplied`), every
machine is in a record or with the process that makes it (`Findable`, the property with
"works with it" cut to the steps before the record), and every running worker is armed.
`Calm` has to be one invariant: that a `down` spares another environment's machine rests
on the records, and the records on who deletes them. The attempt showed that
`SecretsReachWorker`, as it stood, held only in small instances: where two processes start
one environment, the first may take the secrets away after the second put them there. It
now names those rivals.

`GraphInv` (theorem `GraphSound`) puts these parts together: each speaks of one walk, and
closing a bead spoils none because a closed bead stays closed. What a walk finds is
defined without recursion: `Below` and `Under` (the beads whose first parents lead to a
bead) are least closed sets, so that a worklist that is done, being closed, has all of
them. The layers of `Placed` are a recursive function, and what is said of it is
said by its first counterexample (`Least`): the layers grow, a node is in a later one
than what it waits for, and as many layers as there are beads are enough, since a layer
that adds nothing leaves nodes that each wait for another of them.

`HandlesKept` is what `RestoredAtHome` needs: without it a lost addition lets a handle
change its provider.

The assumptions of `LaunchMutex`, `ForegroundKept` and `ResumedOnce` are needed, and
the runs show it: a raising lookup breaks `ResumedAtMostOnce` (`run_exactly_once`), a
retry takes the markers away with the directory, and a reconciler may unlink a lock
that is held.

The modules assume of their constants what the code fixes: finite sets of issues, slots
and turns; names that stand for nobody or nothing (`Nobody`, `NoMachine`, `NoSid`) are no
member of the sets beside them.

Only model-checked: liveness under fairness (`DeadRunTerminalized`, `AbandonedIsResumed`,
`StepEnds`, `RunEnds`, `TurnEnds` twice, `ScheduledIsClaimed`, `FailureIsNoticed`,
`DispatchEnds`, `CloseIsSeen`, `OutcomeShown`, `ChangesShown`), which is beyond the
prover, and the counterexample. Every safety property of a passing run is a theorem.

## 5. Not modelled

- In the modelled parts: rendering of prompts, tasks and status; the reopening of
  a bead by a retry; notes added to a bead after it was closed; `watchdog_fail_stale_runs`, which has no caller; the seed bead
  as a step's target, the failure row, a misconfigured token file, dry runs of the
  loop; an inline goal's fresh seed (every resumed run of such a goal is a first run);
  one session shared by two roles. Run ids that are prefixes of one another are told
  apart.
- The `agent_step` fast path returns a closed bead's verdict without asking for its
  required artifacts: it is in the model, and no property is stated about it,
  because nothing in the repository requires artifacts.
- Of agent turns: the plain subprocess backend, the stub, telemetry, the parsing of
  transcripts beyond its outcome. Of environments: what the installation scripts do
  inside a machine, apart from whether they succeed.
- The other components of the inventory: see `PROJECT.json` for each one's reason.

## 6. Plan

1. Run control, `AgentStep`, `GoalLoop` and their theorems. Done.
2. Turns, sessions, accounts, scheduling, waiting, environments, graph, prompt formula
   and watch. Done.
3. `PromptRunProofs`, `AgentTurnProofs` and the refinement, `GoalLoopProofs`. Done.
   `TmuxTurnProofs`, `WaitingProofs`, `EnvironmentsProofs`, `RestoredAtHome`,
   `BeadGraphProofs`. Done.
4. `test_cache.py`, where a tree's hash is read before the tests and stored after them.

## 7. Running

    tlc -workers 2 -config run_commands.cfg MCRunControl
    tlc -workers 2 -config step_calls.cfg MCAgentStep
    tlc -workers 2 -config goal_loop.cfg MCGoalLoop
    tlc -workers 2 -config turns.cfg MCAgentTurn
    tlc -workers 2 -config tmux_turns.cfg MCTmuxTurn
    tlc -workers 2 -config scheduling.cfg MCWaiting
    tlc -workers 2 -config environments.cfg MCEnvironments
    tlc -workers 2 -config bead_graph.cfg MCBeadGraph
    tlc -workers 2 -config prompt_watched.cfg MCFeed
    tlapm RunControlProofs.tla
    tlapm GoalLoopProofs.tla
    tlapm AgentTurnProofs.tla
    tlapm TmuxTurnProofs.tla
    tlapm WaitingProofs.tla
    tlapm EnvironmentsProofs.tla
    tlapm BeadGraphProofs.tla
    tlapm PromptRunProofs.tla

`PROJECT.json` lists every run, the lines each definition stands for, and for each
property a mutant of the code's model that breaks it.
