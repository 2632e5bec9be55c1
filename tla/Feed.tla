--------------------------------- MODULE Feed ---------------------------------
(***************************************************************************)
(* `po watch` (watch.py and the lookups of run_lookup.py) over a run: the  *)
(* directory is found, the run in Prefect is found, what is there may be   *)
(* replayed, and then two pollers put what changes into a queue that a     *)
(* third task prints. One event loop: steps interleave at its awaits, and  *)
(* files and states change between any two of them.                        *)
(***************************************************************************)
EXTENDS PromptRun, SequencesExt

CONSTANTS
    Watched,     \* what is watched: a set of [run, inRig, token, replay]
    Tasks,       \* task runs of the flow: numbers, the newer the larger
    TaskLimit    \* newest task runs that are read

ASSUME FeedAssumption ==
    /\ Tasks \subseteq Nat /\ IsFiniteSet(Tasks) /\ TaskLimit \in Nat \ {0}
    /\ \A w \in Watched : w.run \in Runs /\ w.inRig \in BOOLEAN /\ w.replay \in BOOLEAN
                          /\ w.token \in {"handle", "flow id"}

VARIABLES
    task,    \* states of the task runs
    feed     \* the watcher; shown keeps the last event of each file and of the flow

feedVars == <<promptVars, task, feed>>

Unknown == "?"
TaskStates == {Unknown, "Running", "Completed"}
Seen == [Files -> 0..MaxWrites]
Blank == [f \in Files |-> 0]

\* Events: a file and its time, a state of the flow or of a task, the end of a source.
Events == [kind : {"file"}, of : Files, what : 1..MaxWrites]
          \cup [kind : {"state"}, of : {"flow"}, what : States]
          \cup [kind : {"task"}, of : Tasks, what : TaskStates]
          \cup [kind : {"info"}, of : {"flow", "dir"}, what : {"gone", "error", "over"}]
Event(kind, of, what) == [kind |-> kind, of |-> of, what |-> what]

FeedInit ==
    /\ PromptInit
    /\ task = [k \in Tasks |-> Unknown]
    /\ \E w \in Watched : feed =
          [asked |-> w, pc |-> "begin", follows |-> Nobody, dirs |-> "off", flows |-> "off",
           scan |-> Blank, prev |-> Blank, state |-> Unknown,
           tasks |-> [k \in {} |-> Unknown], queue |-> <<>>,
           shown |-> [files |-> Blank, flow |-> Unknown], cancelled |-> FALSE]

-----------------------------------------------------------------------------

Watching == feed.asked.run
Place == IF Handle(Watching) = NoHandle THEN NoDir ELSE dir[Handle(Watching)]
FeedAt(pc) == feed.pc = pc
Elsewhere == UNCHANGED <<rig, asked, second, bead, dir, run, flow, task>>

-----------------------------------------------------------------------------
(* Finding the directory and the run.                                      *)

\* `bd show` where the command is run: only `bd`, only in the rig.
Row == IF rig.bd /\ rig.backend = "dolt" /\ feed.asked.inRig /\ feed.asked.token = "handle"
       THEN bead[Handle(Watching)] ELSE NoBead

\* <rig>/.planning/*/<name>, in the rig that Prefect names or the command is run in. A
\* prompt's run is not named after its bead, so Prefect has no rig for a handle.
ByPath(name) == name = Handle(Watching) /\ feed.asked.inRig /\ Place.there

\* With a flow id Prefect has a rig, and for want of an issue_id the name of the run,
\* <label>-<role>, which is neither a bead nor a directory.
Found ==
    IF Row # NoBead /\ Row.dir THEN Place.there
    ELSE ByPath(IF feed.asked.token = "handle" THEN Handle(Watching) ELSE NoHandle)

Locate ==
    /\ FeedAt("begin") /\ Handle(Watching) # NoHandle
    /\ feed' = [feed EXCEPT !.pc = IF Found THEN "query" ELSE "refused"]
    /\ Fine /\ Elsewhere

\* The newest run with the tag of the issue, if it is under way. Without one the directory
\* alone is watched.
Query ==
    /\ FeedAt("query")
    /\ LET tagged == {p \in Runs : Handle(p) = Handle(Watching) /\ flow[p].tagged}
           next == IF feed.asked.replay THEN "replay" ELSE "seed"
       IN  \/ /\ Fine
              /\ \E p \in IF tagged = {} THEN {Nobody} ELSE tagged :
                    feed' = [feed EXCEPT !.pc = next, !.follows =
                                IF p \in Runs /\ flow[p].state \notin Terminal THEN p ELSE Nobody]
           \/ feed' = [feed EXCEPT !.pc = next] /\ Mishap
    /\ Elsewhere

Times == Place.files

Replay ==
    /\ FeedAt("replay")
    /\ feed' = [feed EXCEPT !.pc = "seed", !.shown.files = Times]
    /\ Fine /\ Elsewhere

\* Another scan: what it finds is not announced.
Seed ==
    /\ FeedAt("seed")
    /\ LET dirs == IF Place.there THEN "asleep" ELSE "off"
           flows == IF feed.follows = Nobody THEN "off" ELSE "read"
       IN  feed' = [feed EXCEPT !.prev = Times, !.dirs = dirs, !.flows = flows,
                                !.pc = IF dirs = "off" /\ flows = "off" THEN "ended" ELSE "live"]
    /\ Fine /\ Elsewhere

-----------------------------------------------------------------------------
(* The pollers. A poller that slept wakes up after the printer has run.    *)

Slept == feed.queue = <<>>

Scan ==
    /\ FeedAt("live") /\ feed.dirs = "asleep" /\ Slept
    /\ feed' = [feed EXCEPT !.dirs = "scanned", !.scan = Times]
    /\ Fine /\ Elsewhere

\* Mutant: the scanner ends with the flow.
DirsAfter_Flow == IF feed.flows = "off" THEN "off" ELSE "asleep"

\* The scanner goes on when the flow is over.
DirsAfter == "asleep"

\* diff_run_dir: new files and later times, oldest first.
Changed == {f \in Files : feed.scan[f] > feed.prev[f]}
Changes ==
    [i \in 1..Cardinality(Changed) |->
        LET f == SetToSortSeq(Changed, LAMBDA x, y : feed.scan[x] < feed.scan[y])[i]
        IN  Event("file", f, feed.scan[f])]

Compare ==
    /\ FeedAt("live") /\ feed.dirs = "scanned"
    /\ feed' = IF feed.scan = Blank /\ ~Place.there
               THEN [feed EXCEPT !.dirs = "off", !.queue = Append(@, Event("info", "dir", "gone"))]
               ELSE [feed EXCEPT !.dirs = DirsAfter, !.queue = @ \o Changes, !.prev = feed.scan,
                                    !.scan = Blank]
    /\ Fine /\ Elsewhere

\* Mutant: a terminal state is left to the closing line.
StateEvents_Terminal(was, is) == IF is \in Terminal THEN <<>> ELSE <<Event("state", "flow", is)>>

\* diff_flow_state.
StateEvents(was, is) == IF was = is THEN <<>> ELSE <<Event("state", "flow", is)>>

ReadFlow ==
    /\ FeedAt("live") /\ feed.flows = "read" /\ Slept
    /\ LET is == flow[feed.follows].state IN
       \/ /\ Fine
          /\ feed' = [feed EXCEPT !.flows = "tasks", !.state = is,
                                  !.queue = @ \o StateEvents(feed.state, is)]
       \/ Mishap /\ feed' = [feed EXCEPT !.queue = Append(@, Event("info", "flow", "error"))]
    /\ Elsewhere

\* The newest TaskLimit task runs.
Newest ==
    LET begun == {k \in Tasks : task[k] # Unknown}
    IN  {k \in begun : Cardinality({x \in begun : x > k}) < TaskLimit}

\* diff_task_runs: against the task runs of the last reading.
TaskChanges ==
    {k \in Newest : k \notin DOMAIN feed.tasks \/ feed.tasks[k] # task[k]}
TaskEvents ==
    [i \in 1..Cardinality(TaskChanges) |->
        LET k == SetToSortSeq(TaskChanges, LAMBDA x, y : x > y)[i] IN Event("task", k, task[k])]

\* The terminal state was read before the task runs were.
ReadTasks ==
    /\ FeedAt("live") /\ feed.flows = "tasks"
    /\ LET over == feed.state \in Terminal
           end == IF over THEN <<Event("info", "flow", "over")>> ELSE <<>>
           after == IF over THEN "off" ELSE "read"
       IN  \/ /\ Fine
              /\ feed' = [feed EXCEPT !.flows = after, !.queue = @ \o TaskEvents \o end,
                             !.tasks = IF Newest = {} THEN @ ELSE [k \in Newest |-> task[k]]]
           \/ Mishap /\ feed' = [feed EXCEPT !.flows = after, !.queue = @ \o end]
    /\ Elsewhere

-----------------------------------------------------------------------------
(* The printer, and the end.                                               *)

\* What is there is printed without a pause.
Drain ==
    /\ FeedAt("live") /\ feed.queue # <<>>
    /\ LET files == {e \in Range(feed.queue) : e.kind = "file"}
           states == SelectSeq(feed.queue, LAMBDA e : e.kind = "state")
       IN  feed' = [feed EXCEPT
               !.queue = <<>>,
               !.shown.files = [f \in Files |-> Max({@[f]} \cup {e.what : e \in {x \in files : x.of = f}})],
               !.shown.flow = IF states = <<>> THEN @ ELSE Last(states).what]
    /\ Fine /\ Elsewhere

\* Ctrl-C cancels the pollers.
Cancel ==
    /\ FeedAt("live") /\ ~feed.cancelled
    /\ feed' = [feed EXCEPT !.cancelled = TRUE, !.dirs = "off", !.flows = "off"]
    /\ Fine /\ Elsewhere

\* The sentinel comes after everything else in the queue.
Drained == feed.queue = <<>>

\* Both pollers are over.
Finish ==
    /\ FeedAt("live") /\ feed.dirs = "off" /\ feed.flows = "off" /\ Drained
    /\ feed' = [feed EXCEPT !.pc = "ended"]
    /\ Fine /\ Elsewhere

FeedStep ==
    \/ Locate \/ Query \/ Replay \/ Seed \/ Scan \/ Compare \/ ReadFlow \/ ReadTasks
    \/ Drain \/ Finish

\* Tasks of the flow begin and end; those of the bundled formula have none.
TaskMoves(k) ==
    /\ flow[Watching].state = "Running" /\ run[Watching].pc = "turn"
    /\ ~feed.asked.replay /\ task[k] # "Completed" /\ \A x \in Tasks : x < k => task[x] # Unknown
    /\ task' = [task EXCEPT ![k] = IF @ = Unknown THEN "Running" ELSE "Completed"]
    /\ UNCHANGED <<promptVars, feed>>

FeedNext ==
    \/ PromptNext /\ UNCHANGED <<task, feed>>
    \/ FeedStep \/ Cancel
    \/ \E k \in Tasks : TaskMoves(k)

FeedSpec == FeedInit /\ [][FeedNext]_feedVars

\* Each of the tasks of the event loop gets its turn.
FeedFairSpec ==
    /\ FeedSpec
    /\ WF_feedVars(Locate \/ Query \/ Replay \/ Seed) /\ WF_feedVars(Scan \/ Compare)
    /\ WF_feedVars(ReadFlow \/ ReadTasks) /\ WF_feedVars(Drain) /\ WF_feedVars(Finish)

-----------------------------------------------------------------------------
(* Properties.                                                             *)

FeedTypeOK ==
    /\ PromptTypeOK
    /\ task \in [Tasks -> TaskStates]
    /\ feed.asked \in Watched /\ feed.follows \in Runs \cup {Nobody}
    /\ feed.pc \in {"begin", "refused", "query", "replay", "seed", "live", "ended"}
    /\ feed.dirs \in {"off", "asleep", "scanned"} /\ feed.flows \in {"off", "read", "tasks"}
    /\ feed.scan \in Seen /\ feed.prev \in Seen /\ feed.state \in States \cup {Unknown}
    /\ DOMAIN feed.tasks \subseteq Tasks /\ feed.queue \in Seq(Events)
    /\ feed.shown \in [files : Seen, flow : States \cup {Unknown}]

\* A change of a file is shown, also when the flow is over (watch.py:489), unless the watch
\* was cancelled or the directory was taken away.
ChangesShown ==
    \A f \in Files :
        (FeedAt("live") /\ feed.dirs # "off" /\ Times[f] > feed.prev[f])
        ~> (feed.shown.files[f] = Times[f] \/ feed.cancelled \/ ~Place.there)

\* A watch that is on when its flow leaves Running shows that it has, whatever failed to be
\* read. A run that is being cancelled counts as over for it (watch.py:29), and what comes of
\* the cancelling is not shown.
OutcomeShown ==
    (FeedAt("live") /\ feed.flows # "off" /\ flow[feed.follows].state \in Terminal)
    ~> (feed.cancelled \/ feed.shown.flow \in Terminal)
=============================================================================
