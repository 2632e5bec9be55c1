-------------------------- MODULE EnvironmentsProofs --------------------------
(***************************************************************************)
(* For any number of commands, environments, machines and faults: the      *)
(* state of Environments is well typed, a machine that was made is found   *)
(* by a record or a process, and a worker runs with the host's secrets.    *)
(***************************************************************************)
EXTENDS Environments, TLAPS

-----------------------------------------------------------------------------
(* What the tasks fix.                                                     *)

Maker(c) == task[c].cmd \in Makes

\* Machines that a driver makes and destroys.
Provided == {m \in Machines : Kind[m] # "ssh"}

\* An environment that such a machine is for is put up by two processes.
Excused(m) == \E e \in Envs : m \in Homes(e) /\ Rivals(e, Makes)

LEMMA MakerHome ==
    ASSUME task \in [Clients -> Tasks], NEW c \in Clients, Maker(c)
    PROVE  task[c].home \in Homes(task[c].env) /\ task[c].env \in Envs
BY DEF Maker, Homes, Tasks

LEMMA HomesAreMachines ==
    ASSUME task \in [Clients -> Tasks], NEW e
    PROVE  Homes(e) \subseteq Machines /\ NoMachine \notin Homes(e)
BY EnvironmentsAssumption DEF Homes, Tasks

\* A name that is put up once has one home.
LEMMA OneHome ==
    ASSUME NEW e \in Envs, ~Rivals(e, Makes), NEW m \in Homes(e), NEW n \in Homes(e)
    PROVE  m = n
BY DEF Rivals, Homes

LEMMA NotExcused ==
    ASSUME NEW m, ~Excused(m), NEW e \in Envs, m \in Homes(e)
    PROVE  ~Rivals(e, Makes)
BY DEF Excused

LEMMA StaticTasks ==
    ASSUME task' = task
    PROVE  /\ \A e : Homes(e)' = Homes(e)
           /\ \A c : Maker(c)' <=> Maker(c)
           /\ \A e, cmds : Rivals(e, cmds)' <=> Rivals(e, cmds)
           /\ \A m : Excused(m)' <=> Excused(m)
           /\ \A c : Pushes(c)' <=> Pushes(c)
<1>1. \A e : Homes(e)' = Homes(e)
  BY DEF Homes
<1>2. \A c : Maker(c)' <=> Maker(c)
  BY DEF Maker
<1>3. \A e, cmds : Rivals(e, cmds)' <=> Rivals(e, cmds)
  BY DEF Rivals
<1>4. \A m : Excused(m)' <=> Excused(m)
  BY <1>1, <1>3 DEF Excused
<1>5. \A c : Pushes(c)' <=> Pushes(c)
  BY DEF Pushes
<1> QED
  BY <1>1, <1>2, <1>3, <1>4, <1>5

-----------------------------------------------------------------------------
(* Types.                                                                  *)

Early == {"begin", "remote", "identity", "creds", "worker", "write"}
Running == {"identity2", "deliver", "dispatch", "mirror", "rewrite"}

\* A record of e, wherever it is kept, has a driver and one of the machines of e, or
\* neither.
RecOK(rec, e) == IF rec.driven THEN rec.there /\ rec.m \in Homes(e) ELSE rec.m = NoMachine

JobOK(c, r) ==
    /\ task[c].cmd # "reap" => r.env = task[c].env
    /\ r.m \in Homes(r.env) \cup {NoMachine}
    /\ RecOK(r.rec, r.env) /\ \A e \in Envs : RecOK(r.snap[e], e)
    /\ r.at = "begin" => r.m = NoMachine
    /\ Maker(c) => r.at \in {"begin", "exited"} \/ r.m # NoMachine
    /\ r.at \in Running => r.rec.driven /\ r.m = r.rec.m
    /\ task[c].cmd = "start" /\ r.at \in {"creds", "worker"}
           => r.m # NoMachine /\ CanSuspend(r.m)

JobsOK ==
    /\ task \in [Clients -> Tasks]
    /\ job \in [Clients -> Jobs]
    /\ \A c \in Clients : JobOK(c, job[c])

RecordsOK ==
    /\ records \in [Envs -> Recorded]
    /\ \A e \in Envs : RecOK(records[e], e)

RestOK ==
    /\ driver \in BOOLEAN /\ mine \in 1..2
    /\ local \in [Issues -> Contents]
    /\ faults \in 0..MaxFaults

\* What is not idle has been asked for an environment's deployment.
Addressed == \A c \in Clients : sub[c].at # "idle" => sub[c].dep \in Deployments

TypeInv == SubTypeOK /\ Addressed /\ HostTypeOK /\ JobsOK /\ RecordsOK /\ RestOK

LEMMA TypeInvType == TypeInv => EnvTypeOK
BY DEF TypeInv, EnvTypeOK, JobsOK, RecordsOK, RestOK, RecOK

-----------------------------------------------------------------------------
(* Submissions.                                                            *)

\* The workers on the machines are what they were.
WorkersKept == \A p \in Pools, m \in Machines : procs'[p][m] = procs[p][m]

LEMMA NoSubOK == NoSub \in Subs /\ NoSub.at = "idle"
BY WorkerPoolAssumption DEF NoSub, Subs, SubPCs, RunStates

LEMMA SubMoves ==
    ASSUME sub \in [Clients -> Subs], Addressed, NEW c \in Clients, NEW r \in Subs,
           sub' = [sub EXCEPT ![c] = r], r.dep \in Deployments
    PROVE  sub' \in [Clients -> Subs] /\ Addressed'
<1>1. sub' \in [Clients -> Subs]
  OBVIOUS
<1>2. ASSUME NEW d \in Clients, sub'[d].at # "idle" PROVE sub'[d].dep \in Deployments
  BY <1>2 DEF Addressed
<1> QED
  BY <1>1, <1>2 DEF Addressed

LEMMA SubGoes ==
    ASSUME sub \in [Clients -> Subs], Addressed, NEW c \in Clients, NEW to \in SubPCs,
           sub[c].at # "idle", SubGo(c, to)
    PROVE  sub' \in [Clients -> Subs] /\ Addressed'
<1> DEFINE r == [sub[c] EXCEPT !.at = to]
<1>1. sub[c] \in Subs
  OBVIOUS
<1>2. r \in Subs /\ r.dep = sub[c].dep /\ sub' = [sub EXCEPT ![c] = r]
  BY <1>1 DEF Subs, SubGo
<1> HIDE DEF r
<1> QED
  BY <1>2, SubMoves DEF Addressed

LEMMA SpawnsType ==
    ASSUME PoolTypeOK, NEW p, SpawnWorker(p)
    PROVE  PoolTypeOK' /\ WorkersKept
<1>1. \A q \in Pools : /\ procs'[q] \in [Places -> Nat]
                       /\ \A m \in Machines : procs'[q][m] = procs[q][m]
  BY WorkerPoolAssumption, HostsAssumption DEF PoolTypeOK, SpawnWorker
<1>2. procs' = [q \in Pools |-> procs'[q]] /\ known' = known
  BY DEF PoolTypeOK, SpawnWorker
<1> QED
  BY <1>1, <1>2 DEF PoolTypeOK, WorkersKept

LEMMA PoolKept ==
    ASSUME PoolTypeOK, UNCHANGED poolVars
    PROVE  PoolTypeOK' /\ WorkersKept
BY DEF PoolTypeOK, poolVars, WorkersKept

\* One more request of a submission.
LEMMA SubStepType ==
    ASSUME SubTypeOK, Addressed, NEW c \in Clients, SubSteps(c)
    PROVE  SubTypeOK' /\ Addressed' /\ WorkersKept
<1>0. /\ sub \in [Clients -> Subs] /\ refusals \in 0..MaxRefusals /\ PoolTypeOK
      /\ deployed \in [Deployments -> Pools \cup {NoPool, Absent}]
      /\ catalog \in [Deployments -> [declared : BOOLEAN, flow : BOOLEAN]]
      /\ sub[c] \in Subs
  BY DEF SubTypeOK
<1>1. CASE UNCHANGED <<poolVars, catalog, deployed, refusals>>
           /\ \E to \in SubPCs : SubGo(c, to) /\ sub[c].at # "idle"
  BY <1>0, <1>1, SubGoes, PoolKept DEF SubTypeOK
<1>2. CASE FindForEnv(c) \/ FindManual(c)
  BY <1>1, <1>2 DEF FindForEnv, FindManual, SubAt, SubSame, NextOf, SubPCs
<1>3. CASE Apply(c) \/ Create(c)
  <2>1. /\ UNCHANGED <<poolVars, catalog, refusals>>
        /\ \E pool : deployed' = [deployed EXCEPT ![sub[c].dep] = pool]
                     /\ pool \in Pools \cup {NoPool, Absent}
        /\ SubGo(c, "probe") /\ sub[c].at # "idle" /\ "probe" \in SubPCs
    BY <1>0, <1>3, SubmissionAssumption DEF Apply, Create, PoolOf, SubAt, SubSame, SubPCs, Subs
  <2>2. deployed' \in [Deployments -> Pools \cup {NoPool, Absent}]
    BY <1>0, <2>1
  <2> QED
    BY <1>0, <2>1, <2>2, SubGoes, PoolKept DEF SubTypeOK
<1>4. CASE Probe(c)
  <2>1. /\ UNCHANGED <<poolVars, catalog, deployed>> /\ sub[c].at # "idle"
        /\ refusals' \in 0..MaxRefusals
    BY <1>0, <1>4, SubmissionAssumption DEF Probe, SubAt, Refused
  <2>2. CASE \E to \in SubPCs, lone \in BOOLEAN :
                sub' = [sub EXCEPT ![c].at = to, ![c].bereft = lone]
    <3>0. PICK to \in SubPCs, lone \in BOOLEAN :
              sub' = [sub EXCEPT ![c].at = to, ![c].bereft = lone]
      BY <2>2
    <3> DEFINE r == [sub[c] EXCEPT !.at = to, !.bereft = lone]
    <3>1. r \in Subs /\ r.dep = sub[c].dep /\ sub' = [sub EXCEPT ![c] = r]
      BY <1>0, <3>0 DEF Subs
    <3> HIDE DEF r
    <3> QED
      BY <1>0, <2>1, <3>1, SubMoves, PoolKept DEF SubTypeOK, Addressed
  <2>3. CASE sub' = [sub EXCEPT ![c].at = "submit", ![c].blind = TRUE]
    <3> DEFINE r == [sub[c] EXCEPT !.at = "submit", !.blind = TRUE]
    <3>1. r \in Subs /\ r.dep = sub[c].dep /\ sub' = [sub EXCEPT ![c] = r]
      BY <1>0, <2>3 DEF Subs, SubPCs
    <3> HIDE DEF r
    <3> QED
      BY <1>0, <2>1, <3>1, SubMoves, PoolKept DEF SubTypeOK, Addressed
  <2> QED
    BY <1>4, <2>2, <2>3 DEF Probe, SubPCs
<1>5. CASE Ensure(c)
  <2>1. UNCHANGED <<poolVars, catalog, deployed, refusals>> /\ sub[c].at # "idle"
    BY <1>5 DEF Ensure, SubAt, SubSame
  <2>2. PICK at \in {"spawn", "submit"}, warned \in BOOLEAN :
            sub' = [sub EXCEPT ![c].at = at, ![c].warned = warned]
    BY <1>5 DEF Ensure
  <2> DEFINE r == [sub[c] EXCEPT !.at = at, !.warned = warned]
  <2>3. r \in Subs /\ r.dep = sub[c].dep /\ sub' = [sub EXCEPT ![c] = r]
    BY <1>0, <2>2 DEF Subs, SubPCs
  <2> HIDE DEF r
  <2> QED
    BY <1>0, <2>1, <2>3, SubMoves, PoolKept DEF SubTypeOK, Addressed
<1>6. CASE Spawn(c)
  <2>1. UNCHANGED <<catalog, deployed>> /\ sub[c].at # "idle" /\ refusals' \in 0..MaxRefusals
    BY <1>0, <1>6, SubmissionAssumption DEF Spawn, SubAt, Refused
  <2>2. PoolTypeOK' /\ WorkersKept
    BY <1>0, <1>6, SpawnsType, PoolKept DEF Spawn
  <2>3. CASE SubGo(c, "submit")
    <3>1. "submit" \in SubPCs
      BY DEF SubPCs
    <3> QED
      BY <1>0, <2>1, <2>2, <2>3, <3>1, SubGoes DEF SubTypeOK
  <2>4. CASE sub' = [sub EXCEPT ![c].at = "submit", ![c].warned = TRUE]
    <3> DEFINE r == [sub[c] EXCEPT !.at = "submit", !.warned = TRUE]
    <3>1. r \in Subs /\ r.dep = sub[c].dep /\ sub' = [sub EXCEPT ![c] = r]
      BY <1>0, <2>4 DEF Subs, SubPCs
    <3> HIDE DEF r
    <3> QED
      BY <1>0, <2>1, <2>2, <3>1, SubMoves DEF SubTypeOK, Addressed
  <2> QED
    BY <1>6, <2>3, <2>4 DEF Spawn
<1>7. CASE Submit(c)
  <2>1. /\ UNCHANGED <<poolVars, catalog, deployed>> /\ sub[c].at # "idle"
        /\ refusals' \in 0..MaxRefusals
    BY <1>0, <1>7, SubmissionAssumption DEF Submit, SubAt, Refused
  <2>2. CASE SubGo(c, "error")
    <3>1. "error" \in SubPCs
      BY DEF SubPCs
    <3> QED
      BY <1>0, <2>1, <2>2, <3>1, SubGoes, PoolKept DEF SubTypeOK
  <2>3. CASE ~SubGo(c, "error")
    <3> DEFINE pool == deployed[sub[c].dep]
               r == [sub[c] EXCEPT !.at = "done", !.run = "scheduled", !.in = pool]
    <3>1. sub[c].dep \in Deployments
      BY <2>1 DEF Addressed
    <3>2. pool \in Pools \cup {NoPool}
      BY <1>0, <1>7, <2>3, <3>1 DEF Submit
    <3>3. sub' = [sub EXCEPT ![c] = r]
      BY <1>7, <2>3 DEF Submit
    <3>4. r \in Subs /\ r.dep = sub[c].dep
      <4> HIDE DEF pool
      <4> QED
        BY <1>0, <3>2 DEF Subs, SubPCs, RunStates
    <3> HIDE DEF r
    <3> QED
      BY <1>0, <2>1, <3>1, <3>3, <3>4, SubMoves, PoolKept DEF SubTypeOK
  <2> QED
    BY <2>2, <2>3
<1> QED
  BY <1>2, <1>3, <1>4, <1>5, <1>6, <1>7 DEF SubSteps

LEMMA AskType ==
    ASSUME SubTypeOK, Addressed, NEW c \in Clients, NEW e \in Envs, Ask(c, e, e),
           UNCHANGED <<poolVars, catalog, deployed, refusals>>
    PROVE  SubTypeOK' /\ Addressed' /\ WorkersKept
<1> DEFINE r == [NoSub EXCEPT !.at = "find", !.dep = e, !.pool = e]
<1>1. r \in Subs /\ r.dep = e
  BY NoSubOK, EnvironmentsAssumption DEF Subs, SubPCs
<1>2. sub' = [sub EXCEPT ![c] = r]
  BY DEF Ask
<1> HIDE DEF r
<1> QED
  BY <1>1, <1>2, SubMoves, PoolKept, EnvironmentsAssumption DEF SubTypeOK

\* The run is claimed, or ends.
LEMMA RunType ==
    ASSUME SubTypeOK, Addressed, NEW c \in Clients, NEW state \in RunStates, NEW x \in Places,
           sub' = [sub EXCEPT ![c] = [sub[c] EXCEPT !.run = state, !.place = x]],
           UNCHANGED <<poolVars, catalog, deployed, refusals>>
    PROVE  SubTypeOK' /\ Addressed' /\ WorkersKept
<1> DEFINE r == [sub[c] EXCEPT !.run = state, !.place = x]
<1>0. sub[c] \in Subs /\ sub \in [Clients -> Subs]
  BY DEF SubTypeOK
<1>1. r \in Subs /\ r.dep = sub[c].dep /\ r.at = sub[c].at
  BY <1>0 DEF Subs
<1>2. sub' = [sub EXCEPT ![c] = r]
  OBVIOUS
<1> HIDE DEF r
<1>3. sub' \in [Clients -> Subs] /\ sub'[c] = r /\ \A d \in Clients \ {c} : sub'[d] = sub[d]
  BY <1>0, <1>1, <1>2
<1>4. Addressed'
  BY <1>1, <1>3 DEF Addressed
<1> QED
  BY <1>3, <1>4, PoolKept DEF SubTypeOK

-----------------------------------------------------------------------------
(* One process moves.                                                      *)

Moves(c, r) ==
    /\ r \in Jobs /\ JobOK(c, r)
    /\ job' = [job EXCEPT ![c] = r]
    /\ task' = task

\* r holds the machine, the record and the snapshot that q held.
Like(r, q) ==
    /\ r.m = q.m /\ r.env = q.env /\ r.snap = q.snap /\ r.todo = q.todo
    /\ r.rec.m = q.rec.m /\ r.rec.driven = q.rec.driven /\ r.rec.there = q.rec.there

\* JobOK by the tasks of the next state.
LEMMA StaticJobOK ==
    ASSUME task' = task, NEW c \in Clients, JobOK(c, job'[c])
    PROVE  JobOK(c, job[c])'
BY StaticTasks DEF JobOK, RecOK, Maker, CanSuspend

LEMMA MovesType ==
    ASSUME JobsOK, NEW c \in Clients, NEW r, Moves(c, r)
    PROVE  /\ JobsOK'
           /\ job'[c] = r /\ \A d \in Clients \ {c} : job'[d] = job[d]
<1>1. /\ job' \in [Clients -> Jobs] /\ job'[c] = r
      /\ \A d \in Clients \ {c} : job'[d] = job[d]
  BY DEF JobsOK, Moves
<1>2. ASSUME NEW d \in Clients PROVE JobOK(d, job'[d])
  BY <1>1 DEF JobsOK, Moves
<1>3. \A d \in Clients : JobOK(d, job[d])'
  BY <1>2, StaticJobOK DEF Moves
<1> QED
  BY <1>1, <1>3 DEF JobsOK, Moves

LEMMA JobsKept ==
    ASSUME JobsOK, UNCHANGED <<task, job>>
    PROVE  JobsOK'
<1>1. \A d \in Clients : JobOK(d, job[d])'
  BY StaticJobOK DEF JobsOK
<1> QED
  BY <1>1 DEF JobsOK

LEMMA RecordsKept ==
    ASSUME RecordsOK, task' = task, UNCHANGED records
    PROVE  RecordsOK'
BY StaticTasks DEF RecordsOK, RecOK

LEMMA RecordsSet ==
    ASSUME RecordsOK, task' = task, NEW e \in Envs, NEW rec \in Recorded, RecOK(rec, e),
           records' = [records EXCEPT ![e] = rec]
    PROVE  RecordsOK' /\ records'[e] = rec /\ \A d \in Envs \ {e} : records'[d] = records[d]
<1>1. records' \in [Envs -> Recorded] /\ records'[e] = rec
      /\ \A d \in Envs \ {e} : records'[d] = records[d]
  BY DEF RecordsOK
<1>2. ASSUME NEW d \in Envs PROVE RecOK(records'[d], d)
  BY <1>1 DEF RecordsOK
<1>3. \A d \in Envs : RecOK(records[d], d)'
  BY <1>2, StaticTasks DEF RecOK
<1> QED
  BY <1>1, <1>3 DEF RecordsOK

\* The place in its command is all that changes.
LEMMA GoMoves ==
    ASSUME JobsOK, NEW c \in Clients, NEW at \in JobPCs \ {"begin"}, Go(c, at), task' = task,
           at # "exited" /\ Maker(c) => job[c].at \notin {"begin", "exited"},
           at \in Running => job[c].at \in Running,
           task[c].cmd = "start" /\ at \in {"creds", "worker"} => job[c].at \in {"creds", "worker"}
    PROVE  \E r \in Jobs : Moves(c, r) /\ Like(r, job[c]) /\ r.at = at
<1> DEFINE r == [job[c] EXCEPT !.at = at]
<1>0. job[c] \in Jobs /\ JobOK(c, job[c])
  BY DEF JobsOK
<1>1. r \in Jobs
  BY <1>0 DEF Jobs
<1>2. /\ r.at = at /\ r.m = job[c].m /\ r.env = job[c].env /\ r.snap = job[c].snap
      /\ r.todo = job[c].todo /\ r.rec = job[c].rec
  BY <1>0 DEF Jobs
<1>3. job' = [job EXCEPT ![c] = r]
  BY DEF Go
<1> HIDE DEF r
<1>4. JobOK(c, r)
  BY <1>0, <1>2 DEF JobOK
<1> QED
  BY <1>1, <1>2, <1>3, <1>4 DEF Moves, Like

\* So it is for the hash in the record that the process holds.
LEMMA HashMoves ==
    ASSUME JobsOK, NEW c \in Clients, NEW at \in {"creds", "deliver"}, NEW hash \in Nat,
           job' = [job EXCEPT ![c].at = at, ![c].rec.hash = hash], task' = task,
           Maker(c) => job[c].at \notin {"begin", "exited"},
           at \in Running => job[c].at \in Running,
           task[c].cmd = "start" => at # "creds"
    PROVE  \E r \in Jobs : Moves(c, r) /\ Like(r, job[c]) /\ r.at = at
<1> DEFINE rec == [job[c].rec EXCEPT !.hash = hash]
           r == [job[c] EXCEPT !.at = at, !.rec = rec]
<1>0. job[c] \in Jobs /\ JobOK(c, job[c])
  BY DEF JobsOK
<1>1. /\ rec \in Recorded /\ rec.m = job[c].rec.m /\ rec.driven = job[c].rec.driven
      /\ rec.there = job[c].rec.there
  BY <1>0 DEF Jobs, Recorded
<1>2. job' = [job EXCEPT ![c] = r]
  OBVIOUS
<1> HIDE DEF rec
<1>3. r \in Jobs
  BY <1>0, <1>1 DEF Jobs, JobPCs
<1>4. /\ r.at = at /\ r.m = job[c].m /\ r.env = job[c].env /\ r.snap = job[c].snap
      /\ r.todo = job[c].todo /\ r.rec = rec
  BY <1>0 DEF Jobs
<1> HIDE DEF r
<1>5. JobOK(c, r)
  BY <1>0, <1>1, <1>4 DEF JobOK, RecOK, Running
<1> QED
  BY <1>1, <1>2, <1>3, <1>4, <1>5 DEF Moves, Like

-----------------------------------------------------------------------------
(* Who knows of a machine.                                                 *)

\* Under the name e, the machine m is in the record or in somebody's copy of it, or a
\* command that did not make it works with it.
Knows(e, m) ==
    \/ records[e].m = m
    \/ \E d \in Clients : job[d].snap[e].m = m
    \/ \E d \in Clients : /\ job[d].env = e
                          /\ job[d].rec.m = m \/ (~Maker(d) /\ job[d].m = m)

\* A process that puts e up works with m.
MadeBy(e, m) == \E c \in Clients : Maker(c) /\ task[c].env = e /\ job[c].m = m

\* Before an environment is written down nobody else knows its machine.
Unwritten ==
    \A c \in Clients :
        Maker(c) /\ ~Rivals(task[c].env, Makes) /\ job[c].at \in Early
            => \A m \in Machines : ~Knows(task[c].env, m)

\* A machine that is known was made, by one process.
Made ==
    \A m \in Provided : \A e \in Envs : ~Excused(m) /\ Knows(e, m) => MadeBy(e, m)

MadeOnce ==
    \A m \in Provided : \A c, d \in Clients :
        ~Excused(m) /\ Maker(c) /\ Maker(d) /\ job[c].m = m /\ job[d].m = m => c = d

\* What is still to be made, nobody knows.
Unborn ==
    \A m \in Provided :
        machine[m].state = "absent"
            => (\A e \in Envs : ~Knows(e, m)) /\ \A c \in Clients : job[c].m # m

RefInv == Unwritten /\ Made /\ MadeOnce /\ Unborn

LEMMA KnowsHome ==
    ASSUME JobsOK, RecordsOK, NEW e \in Envs, NEW m \in Machines, Knows(e, m)
    PROVE  m \in Homes(e)
<1>1. CASE records[e].m = m
  BY <1>1, EnvironmentsAssumption DEF RecordsOK, RecOK
<1>2. CASE \E d \in Clients : job[d].snap[e].m = m
  BY <1>2, EnvironmentsAssumption DEF JobsOK, JobOK, RecOK
<1>3. CASE \E d \in Clients : /\ job[d].env = e
                              /\ job[d].rec.m = m \/ (~Maker(d) /\ job[d].m = m)
  <2>1. PICK d \in Clients : job[d].env = e /\ (job[d].rec.m = m \/ job[d].m = m)
    BY <1>3
  <2>2. RecOK(job[d].rec, e) /\ job[d].m \in Homes(e) \cup {NoMachine}
    BY <2>1 DEF JobsOK, JobOK
  <2> QED
    BY <2>1, <2>2, EnvironmentsAssumption DEF RecOK
<1> QED
  BY <1>1, <1>2, <1>3 DEF Knows

\* A step after which nobody knows a machine who did not before, and nobody puts one up
\* who did not before.
Copying ==
    /\ task' = task
    /\ \A e \in Envs, m \in Machines : Knows(e, m)' => Knows(e, m)
    /\ \A c \in Clients : Maker(c) =>
          \/ job'[c].m = job[c].m
          \/ /\ job[c].m # NoMachine /\ job'[c].m \in Machines
             /\ Knows(task[c].env, job'[c].m)
    /\ \A c \in Clients : Maker(c) /\ job'[c].at \in Early
          => job[c].at \in Early /\ job'[c].m = job[c].m
    /\ \A m \in Provided : machine'[m].state = "absent" => machine[m].state = "absent"

\* A process that puts up an environment keeps its machine, if it is the only one.
LEMMA MakerKeeps ==
    ASSUME JobsOK, RecordsOK, Copying, NEW c \in Clients, Maker(c),
           NEW m \in Machines, ~Excused(m), job[c].m = m \/ job'[c].m = m
    PROVE  job'[c].m = job[c].m
<1> SUFFICES ASSUME job'[c].m # job[c].m PROVE FALSE
  OBVIOUS
<1> DEFINE e == task[c].env
<1>1. job[c].m # NoMachine /\ job'[c].m \in Machines /\ Knows(e, job'[c].m)
  BY DEF Copying
<1>2. e \in Envs /\ job[c].env = e
  BY DEF JobsOK, JobOK, Tasks, Maker, Makes
<1>3. job[c].m \in Homes(e)
  BY <1>1, <1>2 DEF JobsOK, JobOK
<1>4. job'[c].m \in Homes(e)
  BY <1>1, <1>2, KnowsHome
<1>5. ~Rivals(e, Makes)
  BY <1>2, <1>3, <1>4, NotExcused
<1> QED
  BY <1>2, <1>3, <1>4, <1>5, OneHome

LEMMA CopyingRefs ==
    ASSUME JobsOK, RecordsOK, RefInv, Copying, JobsOK'
    PROVE  RefInv'
<1>0. /\ \A c : Maker(c)' <=> Maker(c)
      /\ \A e, cmds : Rivals(e, cmds)' <=> Rivals(e, cmds)
      /\ \A m : Excused(m)' <=> Excused(m)
  BY StaticTasks DEF Copying
<1>1. Unwritten'
  <2>1. \A c \in Clients : Maker(c) => task[c].env \in Envs
    BY DEF JobsOK, Tasks
  <2> QED
    BY <1>0, <2>1 DEF Unwritten, RefInv, Copying
<1>2. ASSUME NEW m \in Provided, NEW e \in Envs, ~Excused(m), Knows(e, m)'
      PROVE  MadeBy(e, m)'
  <2>1. PICK c \in Clients : Maker(c) /\ task[c].env = e /\ job[c].m = m
    BY <1>2 DEF RefInv, Made, Copying, MadeBy, Provided
  <2>2. job'[c].m = m
    BY <1>2, <2>1, MakerKeeps DEF Provided
  <2> QED
    BY <1>0, <2>1, <2>2 DEF MadeBy, Copying
<1>3. Made'
  BY <1>0, <1>2 DEF Made, Provided
<1>4. ASSUME NEW m \in Provided, NEW c \in Clients, NEW d \in Clients, ~Excused(m),
             Maker(c), Maker(d), job'[c].m = m, job'[d].m = m
      PROVE  c = d
  <2>1. job[c].m = m /\ job[d].m = m
    BY <1>4, MakerKeeps DEF Provided
  <2> QED
    BY <1>4, <2>1 DEF RefInv, MadeOnce
<1>5. MadeOnce'
  BY <1>0, <1>4 DEF MadeOnce, Provided
<1>6. Unborn'
  <2>1. ASSUME NEW m \in Provided, machine'[m].state = "absent"
        PROVE  /\ \A e \in Envs : ~Knows(e, m)'
               /\ \A c \in Clients : job'[c].m # m
    <3>1. machine[m].state = "absent"
      BY <2>1 DEF Copying
    <3>2. \A e \in Envs : ~Knows(e, m) /\ ~Knows(e, m)'
      BY <3>1 DEF RefInv, Unborn, Copying, Provided
    <3>3. ASSUME NEW c \in Clients, job'[c].m = m PROVE FALSE
      <4>1. CASE Maker(c)
        <5>1. task[c].env \in Envs
          BY DEF JobsOK, Tasks
        <5> QED
          BY <3>1, <3>2, <3>3, <4>1, <5>1 DEF Copying, RefInv, Unborn
      <4>2. CASE ~Maker(c)
        <5>1. PICK e \in Envs : job'[c].env = e
          BY DEF JobsOK, Jobs
        <5>2. Knows(e, m)'
          BY <1>0, <3>3, <4>2, <5>1 DEF Knows
        <5> QED
          BY <3>2, <5>2
      <4> QED
        BY <4>1, <4>2
    <3> QED
      BY <3>2, <3>3
  <2> QED
    BY <2>1 DEF Unborn, Provided
<1> QED
  BY <1>1, <1>3, <1>5, <1>6 DEF RefInv

\* A process goes on with what it has, and the records say nothing new.
LEMMA LikeCopies ==
    ASSUME JobsOK, NEW c \in Clients, NEW r, Moves(c, r), Like(r, job[c]),
           Maker(c) /\ r.at \in Early => job[c].at \in Early,
           \A e \in Envs, m \in Machines : records'[e].m = m => Knows(e, m),
           \A m \in Provided : machine'[m].state = "absent" => machine[m].state = "absent"
    PROVE  Copying
<1>1. job'[c] = r /\ (\A d \in Clients \ {c} : job'[d] = job[d]) /\ task' = task
  BY MovesType DEF Moves
<1>2. \A d \in Clients :
          /\ job'[d].m = job[d].m /\ job'[d].env = job[d].env
          /\ job'[d].snap = job[d].snap /\ job'[d].rec.m = job[d].rec.m
          /\ Maker(d) /\ job'[d].at \in Early => job[d].at \in Early
  BY <1>1 DEF Like
<1>3. ASSUME NEW e \in Envs, NEW m \in Machines, Knows(e, m)' PROVE Knows(e, m)
  BY <1>1, <1>2, <1>3, StaticTasks DEF Knows
<1> QED
  BY <1>1, <1>2, <1>3 DEF Copying

\* Nobody moves.
LEMMA StillCopies ==
    ASSUME UNCHANGED <<task, job, records, machine>>
    PROVE  Copying
BY StaticTasks DEF Copying, Knows

-----------------------------------------------------------------------------
(* What happens to the machines.                                           *)

MachineTypes == [state : MachineStates, secrets : BOOLEAN, prefect : BOOLEAN,
                 session : BOOLEAN, identity : Nat]

HostsOK == PoolTypeOK /\ HostTypeOK

\* No machine comes, goes or is changed by more than a bundle or the secrets; no worker
\* of a machine starts or ends.
Steady ==
    /\ \A m \in Machines :
          /\ machine'[m].state = machine[m].state
          /\ machine'[m].prefect = machine[m].prefect
          /\ machine[m].secrets => machine'[m].secrets
    /\ armed' = armed
    /\ WorkersKept

\* A machine that is destroyed stays so, and none becomes one that is still to be made.
NoReturn ==
    \A m \in Provided :
        /\ machine[m].state = "destroyed" => machine'[m].state = "destroyed"
        /\ machine'[m].state = "absent" => machine[m].state = "absent"

LEMMA SteadyReturns == Steady => NoReturn
BY DEF Steady, NoReturn, Provided

LEMMA SteadyType ==
    ASSUME HostsOK, PoolTypeOK', Steady, machine' \in [Machines -> MachineTypes],
           dirs' \in [Machines -> [Issues -> Contents]], tgz' \in [Machines -> Contents]
    PROVE  HostsOK'
BY DEF HostsOK, HostTypeOK, Steady, WorkersKept, MachineTypes

LEMMA HostsKept ==
    ASSUME HostsOK, PoolTypeOK', WorkersKept, UNCHANGED hostVars
    PROVE  HostsOK' /\ Steady
<1>1. Steady
  BY DEF Steady, hostVars
<1> QED
  BY <1>1, SteadyType DEF HostsOK, HostTypeOK, hostVars, MachineTypes

LEMMA HostsStay ==
    ASSUME HostsOK, HostsSame
    PROVE  HostsOK' /\ Steady
BY HostsKept, PoolKept DEF HostsSame, HostsOK

LEMMA GivesType ==
    ASSUME HostsOK, NEW m \in Machines,
           \/ \E version \in Nat : machine' = WithIdentity(m, version)
           \/ machine' = WithSecrets(m)
           \/ machine' = machine,
           UNCHANGED <<poolVars, armed, dirs, tgz>>
    PROVE  HostsOK' /\ Steady
<1>1. /\ machine' \in [Machines -> MachineTypes]
      /\ \A n \in Machines : /\ machine'[n].state = machine[n].state
                             /\ machine'[n].prefect = machine[n].prefect
                             /\ machine[n].secrets => machine'[n].secrets
  <2>1. machine \in [Machines -> MachineTypes]
    BY DEF HostsOK, HostTypeOK, MachineTypes
  <2>2. CASE \E version \in Nat : machine' = WithIdentity(m, version)
    <3>1. PICK version \in Nat : machine' = [machine EXCEPT ![m].identity = version]
      BY <2>2 DEF WithIdentity
    <3> QED
      BY <2>1, <3>1 DEF MachineTypes
  <2>3. CASE machine' = WithSecrets(m)
    BY <2>1, <2>3 DEF WithSecrets, MachineTypes
  <2>4. CASE machine' = machine
    BY <2>1, <2>4
  <2> QED
    BY <2>2, <2>3, <2>4
<1>2. PoolTypeOK' /\ WorkersKept
  BY PoolKept DEF HostsOK
<1>3. Steady
  BY <1>1, <1>2 DEF Steady
<1> QED
  BY <1>1, <1>2, <1>3, SteadyType DEF HostsOK, HostTypeOK

\* What goes to and fro: the rig, the artifacts.
LEMMA FilesType ==
    ASSUME HostsOK, UNCHANGED <<poolVars, machine, armed>>,
           dirs' \in [Machines -> [Issues -> Contents]], tgz' \in [Machines -> Contents]
    PROVE  HostsOK' /\ Steady
<1>1. PoolTypeOK' /\ WorkersKept
  BY PoolKept DEF HostsOK
<1>2. Steady
  BY <1>1 DEF Steady
<1> QED
  BY <1>1, <1>2, SteadyType DEF HostsOK, HostTypeOK, MachineTypes

LEMMA PushRigType ==
    ASSUME HostsOK, NEW m, NEW rig \in [Issues -> Contents], PushRig(m, rig)
    PROVE  HostsOK' /\ Steady
<1>1. dirs' \in [Machines -> [Issues -> Contents]]
  BY DEF HostsOK, HostTypeOK, PushRig
<1> QED
  BY <1>1, FilesType DEF PushRig, HostsOK, HostTypeOK

LEMMA PackedType ==
    ASSUME HostsOK, NEW m \in Machines, NEW i \in Issues
    PROVE  Packed(m, i) \in Contents
BY DEF HostsOK, HostTypeOK, Packed

LEMMA FsDownloadType ==
    ASSUME HostsOK, NEW m \in Machines, NEW i \in Issues, FsDownload(m, i)
    PROVE  HostsOK' /\ Steady
<1>1. tgz' \in [Machines -> Contents]
  BY PackedType DEF HostsOK, HostTypeOK, FsDownload
<1> QED
  BY <1>1, FilesType DEF FsDownload, HostsOK, HostTypeOK

\* A machine is made, or an own host looked up.
LEMMA ProvisionType ==
    ASSUME HostsOK, NEW m \in Machines,
           machine[m].state = IF Kind[m] = "ssh" THEN "on" ELSE "absent",
           machine' = Provisioned(m), UNCHANGED <<poolVars, armed, dirs, tgz>>
    PROVE  /\ HostsOK' /\ WorkersKept /\ NoReturn
           /\ machine'[m].state = "on"
           /\ \A n \in Machines : /\ n # m => machine'[n].state = machine[n].state
                                  /\ machine'[n].prefect = machine[n].prefect
                                  /\ machine'[n].secrets = machine[n].secrets
<1>1. /\ machine' \in [Machines -> MachineTypes]
      /\ machine'[m].state = "on"
      /\ \A n \in Machines : /\ n # m => machine'[n].state = machine[n].state
                             /\ machine'[n].prefect = machine[n].prefect
                             /\ machine'[n].secrets = machine[n].secrets
  BY DEF HostsOK, HostTypeOK, Provisioned, MachineTypes, MachineStates
<1>2. PoolTypeOK' /\ WorkersKept
  BY PoolKept DEF HostsOK
<1>3. HostTypeOK'
  <2>1. ASSUME NEW n \in Machines, machine'[n].state # "on", NEW p \in Pools
        PROVE  procs'[p][n] = 0
    <3>1. machine[n].state # "on"
      BY <1>1, <2>1
    <3>2. procs[p][n] = 0
      BY <3>1 DEF HostsOK, HostTypeOK
    <3> QED
      BY <1>2, <3>2 DEF WorkersKept
  <2> QED
    BY <1>1, <2>1 DEF HostsOK, HostTypeOK, MachineTypes
<1>4. NoReturn
  BY <1>1 DEF NoReturn, Provided
<1> QED
  BY <1>1, <1>2, <1>3, <1>4 DEF HostsOK

LEMMA WorkerlessType ==
    ASSUME PoolTypeOK, NEW m \in Machines
    PROVE  /\ Workerless(m) \in [Pools -> [Places -> Nat]]
           /\ \A p \in Pools : Workerless(m)[p][m] = 0
           /\ \A p \in Pools, x \in Places \ {m} : Workerless(m)[p][x] = procs[p][x]
<1>1. m \in Places
  BY HostsAssumption
<1> QED
  BY <1>1 DEF PoolTypeOK, Workerless

\* A worker is started on a machine that is there.
LEMMA StartWorkerType ==
    ASSUME HostsOK, NEW m \in Machines, NEW e \in Pools, Reachable(m), StartWorker(m, e)
    PROVE  /\ HostsOK' /\ NoReturn
           /\ \A n \in Machines : /\ machine'[n].state = machine[n].state
                                  /\ machine'[n].prefect = machine[n].prefect
                                  /\ machine'[n].secrets = machine[n].secrets
                                  /\ n # m => armed'[n] = armed[n]
           /\ \A p \in Pools, n \in Machines \ {m} : procs'[p][n] = procs[p][n]
           /\ \/ /\ armed'[m] = armed[m] /\ \A p \in Pools : procs'[p][m] = procs[p][m]
              \/ /\ armed'[m] = machine[m].secrets
                 /\ \A p \in Pools \ {e} : procs'[p][m] > 0 => procs[p][m] > 0
<1>0. /\ machine \in [Machines -> MachineTypes] /\ armed \in [Machines -> BOOLEAN]
      /\ procs \in [Pools -> [Places -> Nat]] /\ Machines \subseteq Places
      /\ known' = known /\ dirs' = dirs /\ tgz' = tgz
  BY HostsAssumption DEF HostsOK, HostTypeOK, PoolTypeOK, MachineTypes, StartWorker
<1>1. CASE StartInTmux(m, e)
  <2>1. /\ machine' \in [Machines -> MachineTypes]
        /\ \A n \in Machines : /\ machine'[n].state = machine[n].state
                               /\ machine'[n].prefect = machine[n].prefect
                               /\ machine'[n].secrets = machine[n].secrets
    BY <1>0, <1>1 DEF StartInTmux, MachineTypes
  <2>2. CASE UNCHANGED <<procs, armed>>
    <3>1. PoolTypeOK' /\ HostTypeOK'
      BY <1>0, <2>1, <2>2 DEF PoolTypeOK, HostTypeOK, HostsOK, MachineTypes
    <3> QED
      BY <2>1, <2>2, <3>1 DEF HostsOK, NoReturn, Provided
  <2>3. CASE /\ procs' = [procs EXCEPT ![e][m] = 1]
             /\ armed' = [armed EXCEPT ![m] = machine[m].secrets]
    <3>1. /\ procs' \in [Pools -> [Places -> Nat]]
          /\ \A p \in Pools, n \in Machines : p # e \/ n # m => procs'[p][n] = procs[p][n]
      BY <1>0, <2>3
    <3>2. /\ armed' \in [Machines -> BOOLEAN] /\ armed'[m] = machine[m].secrets
          /\ \A n \in Machines \ {m} : armed'[n] = armed[n]
      BY <1>0, <2>3 DEF MachineTypes
    <3>3. PoolTypeOK'
      BY <1>0, <3>1 DEF PoolTypeOK, HostsOK
    <3>4. HostTypeOK'
      <4>1. machine[m].state = "on"
        BY DEF Reachable
      <4>2. ASSUME NEW n \in Machines, machine'[n].state # "on", NEW p \in Pools
            PROVE  procs'[p][n] = 0
        <5>1. machine[n].state # "on" /\ n # m
          BY <2>1, <4>1, <4>2
        <5>2. procs[p][n] = 0
          BY <5>1 DEF HostsOK, HostTypeOK
        <5> QED
          BY <3>1, <5>1, <5>2
      <4>3. dirs' \in [Machines -> [Issues -> Contents]] /\ tgz' \in [Machines -> Contents]
        BY <1>0 DEF HostsOK, HostTypeOK
      <4> QED
        BY <2>1, <3>2, <4>2, <4>3 DEF HostTypeOK, MachineTypes
    <3> QED
      BY <2>1, <3>1, <3>2, <3>3, <3>4 DEF HostsOK, NoReturn, Provided
  <2> QED
    BY <1>1, <2>2, <2>3 DEF StartInTmux
<1>2. CASE StartDirectly(m, e)
  <2> DEFINE w == Workerless(m)
  <2>1. /\ w \in [Pools -> [Places -> Nat]]
        /\ \A p \in Pools : w[p][m] = 0
        /\ \A p \in Pools, x \in Places \ {m} : w[p][x] = procs[p][x]
    BY WorkerlessType DEF HostsOK
  <2>2. procs' = [w EXCEPT ![e][m] = 1] /\ machine' = machine
        /\ armed' = [armed EXCEPT ![m] = machine[m].secrets]
    BY <1>2 DEF StartDirectly
  <2> HIDE DEF w
  <2>3. /\ procs' \in [Pools -> [Places -> Nat]]
        /\ \A p \in Pools, n \in Machines \ {m} : procs'[p][n] = procs[p][n]
        /\ \A p \in Pools \ {e} : procs'[p][m] = 0
    BY <1>0, <2>1, <2>2
  <2>4. /\ armed' \in [Machines -> BOOLEAN] /\ armed'[m] = machine[m].secrets
        /\ \A n \in Machines \ {m} : armed'[n] = armed[n]
    BY <1>0, <2>2 DEF MachineTypes
  <2>5. PoolTypeOK'
    BY <1>0, <2>3 DEF PoolTypeOK, HostsOK
  <2>6. HostTypeOK'
    BY <1>0, <2>2, <2>3, <2>4 DEF HostTypeOK, HostsOK, MachineTypes, Reachable
  <2> QED
    BY <2>2, <2>3, <2>4, <2>5, <2>6 DEF HostsOK, NoReturn, Provided
<1> QED
  BY <1>1, <1>2 DEF StartWorker

\* A machine loses its workers and its secrets, an own host alone goes on.
LEMMA EndsType ==
    ASSUME HostsOK, NEW m \in Machines, Reachable(m) \/ machine[m].state = "suspended",
           Teardown(m) \/ (Suspend(m) /\ CanSuspend(m) /\ Reachable(m))
    PROVE  /\ HostsOK' /\ NoReturn /\ armed' = armed
           /\ \A n \in Machines \ {m} : machine'[n] = machine[n]
           /\ machine'[m].prefect = machine[m].prefect
           /\ \A p \in Pools : procs'[p][m] = 0
           /\ \A p \in Pools, n \in Machines \ {m} : procs'[p][n] = procs[p][n]
           /\ Teardown(m) /\ m \in Provided => machine'[m].state = "destroyed"
           /\ m \in Provided => machine'[m].state # "on"
<1>0. /\ machine \in [Machines -> MachineTypes] /\ Machines \subseteq Places
  BY HostsAssumption DEF HostsOK, HostTypeOK, MachineTypes
<1>1. /\ procs' = Workerless(m) /\ known' = known /\ armed' = armed /\ dirs' = dirs
      /\ tgz' = tgz
  BY DEF Teardown, Suspend
<1>2. PICK secrets \in {FALSE}, session \in BOOLEAN, state \in {"on", "suspended", "destroyed"} :
          /\ machine' = [machine EXCEPT ![m].secrets = secrets, ![m].session = session,
                                        ![m].state = state]
          /\ Teardown(m) /\ m \in Provided => state = "destroyed"
          /\ m \in Provided => state # "on"
  <2>1. CASE Teardown(m)
    <3> DEFINE state == IF Kind[m] = "ssh" THEN machine[m].state ELSE "destroyed"
    <3>1. state \in {"on", "suspended", "destroyed"}
      BY DEF Reachable
    <3>2. machine' = [machine EXCEPT ![m].secrets = FALSE, ![m].session = FALSE, ![m].state = state]
      BY <1>0, <2>1 DEF Teardown, MachineTypes
    <3>3. m \in Provided => state = "destroyed"
      BY DEF Provided
    <3> HIDE DEF state
    <3> QED
      BY <3>1, <3>2, <3>3
  <2>2. CASE Suspend(m) /\ ~Teardown(m)
    <3>1. machine' = [machine EXCEPT ![m].secrets = FALSE, ![m].session = machine[m].session,
                                     ![m].state = "suspended"]
      BY <1>0, <2>2 DEF Suspend, MachineTypes
    <3>2. machine[m].session \in BOOLEAN
      BY <1>0 DEF MachineTypes
    <3> QED
      BY <2>2, <3>1, <3>2
  <2> QED
    BY <2>1, <2>2
<1>3. /\ machine' \in [Machines -> MachineTypes]
      /\ \A n \in Machines \ {m} : machine'[n] = machine[n]
      /\ machine'[m].prefect = machine[m].prefect /\ machine'[m].state = state
  <2> DEFINE after == [machine[m] EXCEPT !.secrets = secrets, !.session = session,
                                         !.state = state]
  <2>1. machine' = [machine EXCEPT ![m] = after]
    BY <1>0, <1>2 DEF MachineTypes
  <2>2. machine[m] \in MachineTypes /\ state \in MachineStates
    BY <1>0 DEF MachineStates
  <2>3. after \in MachineTypes
    BY <2>2 DEF MachineTypes
  <2>4. after.prefect = machine[m].prefect /\ after.state = state
    BY <2>2 DEF MachineTypes
  <2> HIDE DEF after
  <2> QED
    BY <1>0, <2>1, <2>3, <2>4
<1>4. /\ procs' \in [Pools -> [Places -> Nat]]
      /\ \A p \in Pools : procs'[p][m] = 0
      /\ \A p \in Pools, n \in Machines \ {m} : procs'[p][n] = procs[p][n]
  BY <1>0, <1>1, WorkerlessType DEF HostsOK
<1>5. PoolTypeOK'
  BY <1>1, <1>4 DEF HostsOK, PoolTypeOK
<1>6. HostTypeOK'
  <2>1. ASSUME NEW n \in Machines, machine'[n].state # "on", NEW p \in Pools
        PROVE  procs'[p][n] = 0
    <3>1. CASE n = m
      BY <1>4, <3>1
    <3>2. CASE n # m
      BY <1>3, <1>4, <2>1, <3>2 DEF HostsOK, HostTypeOK
    <3> QED
      BY <3>1, <3>2
  <2>2. /\ armed' \in [Machines -> BOOLEAN]
        /\ dirs' \in [Machines -> [Issues -> Contents]]
        /\ tgz' \in [Machines -> Contents]
    BY <1>1 DEF HostsOK, HostTypeOK
  <2> QED
    BY <1>3, <2>1, <2>2 DEF HostTypeOK, MachineTypes
<1>7. NoReturn
  BY <1>2, <1>3 DEF NoReturn, Provided, Reachable
<1> QED
  BY <1>1, <1>2, <1>3, <1>4, <1>5, <1>6, <1>7 DEF HostsOK

\* A machine that was suspended, or never was, goes on.
LEMMA ResumeType ==
    ASSUME HostsOK, NEW m \in Machines, machine[m].state # "destroyed", Resume(m)
    PROVE  /\ HostsOK' /\ WorkersKept /\ NoReturn /\ armed' = armed
           /\ \A n \in Machines : /\ n # m => machine'[n].state = machine[n].state
                                  /\ machine'[n].prefect = machine[n].prefect
                                  /\ machine'[n].secrets = machine[n].secrets
           /\ machine'[m].state = "on"
<1>1. /\ machine' \in [Machines -> MachineTypes]
      /\ machine'[m].state = "on"
      /\ \A n \in Machines : /\ n # m => machine'[n].state = machine[n].state
                             /\ machine'[n].prefect = machine[n].prefect
                             /\ machine'[n].secrets = machine[n].secrets
  BY DEF HostsOK, HostTypeOK, Resume, MachineTypes, MachineStates
<1>2. PoolTypeOK' /\ WorkersKept
  BY PoolKept DEF HostsOK, Resume
<1>3. HostTypeOK'
  BY <1>1, <1>2 DEF HostsOK, HostTypeOK, WorkersKept, MachineTypes, Resume
<1>4. NoReturn
  BY <1>1 DEF NoReturn, Provided
<1> QED
  BY <1>1, <1>2, <1>3, <1>4 DEF HostsOK, Resume

LEMMA SyncType ==
    ASSUME HostsOK, NEW m \in Machines, SyncPacks(m)
    PROVE  /\ HostsOK' /\ WorkersKept /\ NoReturn /\ armed' = armed
           /\ \A n \in Machines : /\ machine'[n].state = machine[n].state
                                  /\ machine'[n].secrets = machine[n].secrets
                                  /\ n # m => machine'[n].prefect = machine[n].prefect
<1> DEFINE prefect == machine[m].prefect \/ Kind[m] # "vm"
<1>0. machine \in [Machines -> MachineTypes]
  BY DEF HostsOK, HostTypeOK, MachineTypes
<1>1. machine' = [machine EXCEPT ![m].prefect = prefect] /\ prefect \in BOOLEAN
  BY <1>0 DEF SyncPacks, MachineTypes
<1> HIDE DEF prefect
<1>2. /\ machine' \in [Machines -> MachineTypes]
      /\ \A n \in Machines : /\ machine'[n].state = machine[n].state
                             /\ machine'[n].secrets = machine[n].secrets
                             /\ n # m => machine'[n].prefect = machine[n].prefect
  BY <1>0, <1>1 DEF MachineTypes
<1>3. PoolTypeOK' /\ WorkersKept
  BY PoolKept DEF HostsOK, SyncPacks
<1>4. HostTypeOK'
  <2>1. \A n \in Machines : machine'[n].state # "on" => \A p \in Pools : procs'[p][n] = 0
    BY <1>2, <1>3 DEF HostsOK, HostTypeOK, WorkersKept
  <2> QED
    BY <1>2, <2>1 DEF HostsOK, HostTypeOK, MachineTypes, SyncPacks
<1>5. NoReturn
  BY <1>2 DEF NoReturn, Provided
<1> QED
  BY <1>2, <1>3, <1>4, <1>5 DEF HostsOK, SyncPacks

-----------------------------------------------------------------------------
(* The invariant.                                                          *)

There(m) == machine[m].state \in {"on", "suspended"}

\* A machine that is being put up is not suspended: nobody else knows it.
Building ==
    \A c \in Clients :
        Maker(c) /\ job[c].at \in Early /\ job[c].m \in Provided /\ ~Excused(job[c].m)
            => machine[job[c].m].state \in {"on", "destroyed"}

\* One process puts e up and one starts it, each of them pushes secrets, and its machine
\* m is no other's.
Alone(e, m) ==
    /\ \A c \in Clients : task[c].env = e => Pushes(c)
    /\ ~Rivals(e, Makes) /\ ~Rivals(e, {"start"})
    /\ \A d \in Envs \ {e} : m \notin Homes(d)

\* A command that is about to tear down has a record that says of what.
Sure(c, r) ==
    /\ \A e \in Envs : r.snap[e].there => r.snap[e].driven
    /\ \A e \in r.todo : r.snap[e].driven
    /\ r.at = "teardown" /\ task[c].cmd # "ephemeral" => r.rec.driven /\ r.m = r.rec.m

\* Who deletes a record has seen the machine go.
TornDown(c) ==
    job[c].at = "delete" /\ ~Rivals(job[c].env, Makes)
        => \A m \in Homes(job[c].env) : m \in Provided => machine[m].state = "destroyed"

\* Who is about to start a worker has left the secrets.
Supplied(c) ==
    /\ task[c].cmd \in Makes \cup {"start"} /\ job[c].at = "worker"
    /\ job[c].m \in Machines /\ Alone(task[c].env, job[c].m) /\ Reachable(job[c].m)
    => machine[job[c].m].secrets

Findable ==
    \A m \in Provided :
        ~Excused(m) /\ There(m) =>
            \/ \E e \in Envs : records[e].m = m
            \/ \E c \in Clients : Maker(c) /\ job[c].at \in Early /\ job[c].m = m
            \/ StartRaises(m)

Armed ==
    \A e \in Envs : \A m \in Homes(e) : Alone(e, m) /\ procs[e][m] > 0 => armed[m]

RecordsCalm == \A e \in Envs : records[e].there => records[e].driven

\* What holds as long as no call failed and nothing was killed.
Calm ==
    /\ driver /\ RecordsCalm
    /\ \A c \in Clients : Sure(c, job[c]) /\ TornDown(c) /\ Supplied(c)
    /\ Findable /\ Armed

EnvInv == TypeInv /\ RefInv /\ Building /\ (faults = 0 => Calm)

-----------------------------------------------------------------------------
(* What keeps each part.                                                   *)

EarlyKept ==
    \A c \in Clients : Maker(c) /\ job'[c].at \in Early
        => job[c].at \in Early /\ job'[c].m = job[c].m

\* The record of a machine that is there is not lost.
NoneLost ==
    \A e \in Envs, m \in Provided :
        ~Excused(m) /\ There(m) /\ records[e].m = m => records'[e].m = m

\* Who has put a machine up stays with it until it is in a record, is gone, or can have
\* no worker.
NoneLeft ==
    \A c \in Clients :
        Maker(c) /\ job[c].at \in Early /\ job[c].m \in Provided
            /\ ~Excused(job[c].m) /\ There(job[c].m)
        => \/ job'[c].at \in Early /\ job'[c].m = job[c].m
           \/ StartRaises(job[c].m)
           \/ \E e \in Envs : records'[e].m = job[c].m

LEMMA BuildingKept ==
    ASSUME Building, task' = task, EarlyKept,
           \A m \in Provided : machine[m].state \in {"on", "destroyed"}
               => machine'[m].state \in {"on", "destroyed"}
    PROVE  Building'
<1>1. ASSUME NEW c \in Clients, Maker(c), job'[c].at \in Early, job'[c].m \in Provided,
             ~Excused(job'[c].m)
      PROVE  machine'[job'[c].m].state \in {"on", "destroyed"}
  BY <1>1 DEF Building, EarlyKept
<1>2. \A c : Excused(job[c].m)' <=> Excused(job'[c].m)
  BY DEF Excused, Homes, Rivals
<1> QED
  BY <1>1, <1>2, StaticTasks DEF Building, Provided

LEMMA FindableKept ==
    ASSUME Findable, task' = task, NoneLost, NoneLeft,
           \A m \in Provided : There(m)' => There(m),
           \A m \in Provided : There(m)' /\ ~Excused(m) /\ StartRaises(m)
               => StartRaises(m)' \/ \E e \in Envs : records'[e].m = m
    PROVE  Findable'
<1>1. ASSUME NEW m \in Provided, ~Excused(m), There(m)'
      PROVE  \/ \E e \in Envs : records'[e].m = m
             \/ \E c \in Clients : Maker(c) /\ job'[c].at \in Early /\ job'[c].m = m
             \/ StartRaises(m)'
  <2>1. There(m)
    BY <1>1
  <2>2. CASE \E e \in Envs : records[e].m = m
    BY <1>1, <2>1, <2>2 DEF NoneLost
  <2>3. CASE \E c \in Clients : Maker(c) /\ job[c].at \in Early /\ job[c].m = m
    BY <1>1, <2>1, <2>3 DEF NoneLeft
  <2>4. CASE StartRaises(m)
    BY <1>1, <2>4
  <2> QED
    BY <1>1, <2>1, <2>2, <2>3, <2>4 DEF Findable
<1> QED
  BY <1>1, StaticTasks DEF Findable, Provided

LEMMA TornDownKept ==
    ASSUME JobsOK, \A c \in Clients : TornDown(c), task' = task, NoReturn,
           \A c \in Clients : job'[c].at = "delete"
               => \/ job[c].at = "delete" /\ job'[c].env = job[c].env
                  \/ TornDown(c)'
    PROVE  \A c \in Clients : TornDown(c)'
<1>1. ASSUME NEW c \in Clients, job'[c].at = "delete",
             job[c].at = "delete" /\ job'[c].env = job[c].env
      PROVE  TornDown(c)'
  <2>1. PICK e \in Envs : job[c].env = e
    BY DEF JobsOK, Jobs
  <2>2. Homes(e)' = Homes(e) /\ (Rivals(e, Makes)' <=> Rivals(e, Makes))
    BY StaticTasks
  <2>3. Homes(job[c].env)' = Homes(e) /\ (Rivals(job[c].env, Makes)' <=> Rivals(e, Makes))
    BY <1>1, <2>1, <2>2
  <2> QED
    BY <1>1, <2>1, <2>3 DEF TornDown, NoReturn, Provided
<1>2. ASSUME NEW c \in Clients, job'[c].at # "delete" PROVE TornDown(c)'
  BY <1>2 DEF TornDown
<1> QED
  BY <1>1, <1>2

LEMMA StaticAlone ==
    ASSUME task' = task
    PROVE  \A e, m : Alone(e, m)' <=> Alone(e, m)
BY StaticTasks DEF Alone

LEMMA SuppliedKept ==
    ASSUME NEW c \in Clients, Supplied(c), task' = task,
           job[c].at = "worker", job'[c].m = job[c].m,
           job[c].m \in Machines /\ machine'[job[c].m].state = "on"
               => machine[job[c].m].state = "on"
                  /\ (machine[job[c].m].secrets => machine'[job[c].m].secrets)
    PROVE  Supplied(c)'
<1>1. Alone(task[c].env, job[c].m)' => Alone(task[c].env, job[c].m)
  BY StaticTasks DEF Alone
<1> QED
  BY <1>1 DEF Supplied, Reachable

LEMMA ArmedKept ==
    ASSUME Armed, JobsOK, task' = task, armed' = armed,
           \A e \in Envs, m \in Machines : procs'[e][m] > 0 => procs[e][m] > 0
    PROVE  Armed'
<1>1. \A e \in Envs : Homes(e) \subseteq Machines /\ Homes(e)' = Homes(e)
  BY HomesAreMachines, StaticTasks DEF JobsOK
<1> QED
  BY <1>1, StaticAlone DEF Armed

-----------------------------------------------------------------------------
(* Steps that leave the machines as they are.                              *)

\* What such a step does while nothing goes wrong.
CalmStep ==
    /\ driver' = driver /\ RecordsCalm' /\ NoneLost /\ NoneLeft
    /\ \A c \in Clients : Sure(c, job'[c])
    /\ \A c \in Clients : job'[c].at = "delete"
           => \/ job[c].at = "delete" /\ job'[c].env = job[c].env
              \/ TornDown(c)'
    /\ \A c \in Clients : job'[c].at = "worker"
           => \/ job[c].at = "worker" /\ job'[c].m = job[c].m
              \/ Supplied(c)'

LEMMA SureKept ==
    ASSUME task' = task, \A c \in Clients : Sure(c, job'[c])
    PROVE  \A c \in Clients : Sure(c, job[c])'
BY DEF Sure

LEMMA SteadyInv ==
    ASSUME EnvInv, TypeInv', RefInv', task' = task, EarlyKept, Steady,
           faults' = 0 => faults = 0 /\ CalmStep
    PROVE  EnvInv'
<1>1. Building'
  BY BuildingKept DEF EnvInv, Steady, Provided
<1>2. ASSUME faults' = 0 PROVE Calm'
  <2>1. Calm /\ CalmStep /\ JobsOK /\ HostsOK
    BY <1>2 DEF EnvInv, TypeInv, HostsOK, SubTypeOK
  <2>2. NoReturn
    BY SteadyReturns
  <2>3. Findable'
    <3>1. \A m \in Provided : There(m)' => There(m)
      BY DEF There, Steady, Provided
    <3>2. \A m \in Provided : StartRaises(m) => StartRaises(m)'
      BY DEF StartRaises, Steady, Provided
    <3> QED
      BY <2>1, <3>1, <3>2, FindableKept DEF Calm, CalmStep
  <2>4. Armed'
    <3>1. \A e \in Envs, m \in Machines : procs'[e][m] > 0 => procs[e][m] > 0
      BY EnvironmentsAssumption DEF Steady, WorkersKept
    <3> QED
      BY <2>1, <3>1, ArmedKept DEF Calm, Steady
  <2>5. \A c \in Clients : TornDown(c)'
    BY <2>1, <2>2, TornDownKept DEF Calm, CalmStep
  <2>6. ASSUME NEW c \in Clients PROVE Supplied(c)'
    <3>1. CASE job'[c].at # "worker"
      BY <3>1 DEF Supplied
    <3>2. CASE job[c].at = "worker" /\ job'[c].m = job[c].m
      BY <2>1, <3>2, SuppliedKept DEF Calm, Steady
    <3> QED
      BY <2>1, <3>1, <3>2 DEF CalmStep
  <2>7. \A c \in Clients : Sure(c, job[c])'
    BY <2>1, SureKept DEF CalmStep
  <2>8. driver'
    BY <2>1 DEF Calm, CalmStep
  <2> QED
    BY <2>1, <2>3, <2>4, <2>5, <2>6, <2>7, <2>8 DEF Calm, CalmStep
<1> QED
  BY <1>1, <1>2 DEF EnvInv

\* So it is when one process c moves.
CalmMove(c) ==
    /\ driver' = driver /\ RecordsCalm' /\ NoneLost /\ Sure(c, job'[c])
    /\ job'[c].at = "delete" => TornDown(c)'
    /\ job'[c].at = "worker" => Supplied(c)'
    /\ Maker(c) /\ job[c].at \in Early /\ job[c].m \in Provided
           /\ ~Excused(job[c].m) /\ There(job[c].m)
           => \/ job'[c].at \in Early /\ job'[c].m = job[c].m
              \/ StartRaises(job[c].m)
              \/ \E e \in Envs : records'[e].m = job[c].m

LEMMA SteadyMove ==
    ASSUME EnvInv, NEW c \in Clients, NEW r, Moves(c, r), Copying, Steady,
           SubTypeOK', Addressed', HostsOK', RecordsOK', RestOK',
           faults' = 0 => faults = 0 /\ CalmMove(c)
    PROVE  EnvInv'
<1>1. /\ JobsOK' /\ task' = task /\ job'[c] = r
      /\ \A d \in Clients \ {c} : job'[d] = job[d]
  BY MovesType DEF EnvInv, TypeInv, Moves
<1>2. TypeInv'
  BY <1>1 DEF TypeInv, HostsOK
<1>3. RefInv'
  BY <1>1, CopyingRefs DEF EnvInv, TypeInv
<1>4. EarlyKept
  BY DEF EarlyKept, Copying
<1>5. ASSUME faults' = 0 PROVE CalmStep
  <2>1. Calm /\ CalmMove(c)
    BY <1>5 DEF EnvInv
  <2>2. \A d \in Clients : Sure(d, job'[d])
    BY <1>1, <2>1 DEF Calm, CalmMove
  <2>3. NoneLeft
    BY <1>1, <2>1 DEF NoneLeft, CalmMove
  <2>4. ASSUME NEW d \in Clients
        PROVE  /\ job'[d].at = "delete"
                      => (job[d].at = "delete" /\ job'[d].env = job[d].env) \/ TornDown(d)'
               /\ job'[d].at = "worker"
                      => (job[d].at = "worker" /\ job'[d].m = job[d].m) \/ Supplied(d)'
    BY <1>1, <2>1 DEF CalmMove
  <2> QED
    BY <2>1, <2>2, <2>3, <2>4 DEF CalmStep, CalmMove
<1> QED
  BY <1>1, <1>2, <1>3, <1>4, <1>5, SteadyInv

\* It goes on with what it has.
LEMMA LikeMove ==
    ASSUME EnvInv, NEW c \in Clients, NEW r, Moves(c, r), Like(r, job[c]), Steady,
           UNCHANGED <<records, driver>>,
           Maker(c) /\ r.at \in Early => job[c].at \in Early,
           SubTypeOK', Addressed', HostsOK', RestOK',
           faults' = 0 =>
               /\ faults = 0
               /\ r.at = "teardown" => task[c].cmd = "ephemeral"
               /\ r.at = "delete" => TornDown(c)'
               /\ r.at = "worker" => Supplied(c)'
               /\ Maker(c) /\ job[c].at \in Early /\ job[c].m \in Provided
                      /\ ~Excused(job[c].m) /\ There(job[c].m)
                      => r.at \in Early \/ StartRaises(job[c].m)
    PROVE  EnvInv'
<1>1. task' = task /\ job'[c] = r
  BY MovesType DEF EnvInv, TypeInv, Moves
<1>2. Copying
  BY LikeCopies DEF EnvInv, TypeInv, Steady, Knows, Provided
<1>3. RecordsOK'
  BY <1>1, RecordsKept DEF EnvInv, TypeInv
<1>4. ASSUME faults' = 0 PROVE faults = 0 /\ CalmMove(c)
  <2>1. Calm /\ faults = 0
    BY <1>4 DEF EnvInv
  <2>2. RecordsCalm' /\ NoneLost
    BY <2>1 DEF Calm, RecordsCalm, NoneLost
  <2>3. Sure(c, r)
    BY <1>4, <2>1 DEF Calm, Sure, Like
  <2> QED
    BY <1>1, <1>4, <2>1, <2>2, <2>3 DEF CalmMove, Like
<1> QED
  BY <1>2, <1>3, <1>4, SteadyMove

\* No process moves.
LEMMA SteadyStill ==
    ASSUME EnvInv, UNCHANGED <<task, job, records, machine>>, Steady,
           SubTypeOK', Addressed', HostsOK', RestOK',
           faults' = 0 => faults = 0 /\ driver' = driver
    PROVE  EnvInv'
<1>1. JobsOK' /\ RecordsOK'
  BY JobsKept, RecordsKept DEF EnvInv, TypeInv
<1>2. TypeInv'
  BY <1>1 DEF TypeInv, HostsOK
<1>3. RefInv' /\ EarlyKept
  BY <1>1, StillCopies, CopyingRefs DEF EnvInv, TypeInv, EarlyKept
<1>4. ASSUME faults' = 0 PROVE faults = 0 /\ CalmStep
  BY <1>4 DEF EnvInv, Calm, CalmStep, RecordsCalm, NoneLost, NoneLeft
<1> QED
  BY <1>2, <1>3, <1>4, SteadyInv

-----------------------------------------------------------------------------
(* The types of what most steps leave alone.                               *)

LEMMA PrefectType ==
    ASSUME SubTypeOK, Addressed, PrefectSame, PoolTypeOK'
    PROVE  SubTypeOK' /\ Addressed'
BY DEF SubTypeOK, Addressed, PrefectSame

LEMMA RestType ==
    ASSUME RestOK, RestSame, Fault \/ NoFault
    PROVE  RestOK' /\ driver' = driver /\ task' = task /\ (Fault => faults' # 0)
                   /\ (faults' = 0 => faults = 0)
BY EnvironmentsAssumption DEF RestOK, RestSame, Fault, NoFault

\* What the invariant says of a process.
LEMMA AtHand ==
    ASSUME EnvInv, NEW c \in Clients
    PROVE  /\ SubTypeOK /\ Addressed /\ HostsOK /\ JobsOK /\ RecordsOK /\ RestOK
           /\ job[c] \in Jobs /\ JobOK(c, job[c])
           /\ task[c] \in Tasks /\ task[c].env \in Envs /\ task[c].home \in Machines
           /\ job[c].m \in Machines \cup {NoMachine} /\ NoMachine \notin Machines
           /\ Maker(c) /\ job[c].at \notin {"begin", "exited"} => job[c].m \in Machines
BY EnvironmentsAssumption
   DEF EnvInv, TypeInv, HostsOK, SubTypeOK, JobsOK, JobOK, Jobs, Tasks

LEMMA QuietMove ==
    ASSUME EnvInv, NEW c \in Clients, NEW r, Moves(c, r), Like(r, job[c]),
           UNCHANGED records, Quiet, Fault \/ NoFault, HostsOK', Steady,
           Maker(c) /\ r.at \in Early => job[c].at \in Early,
           NoFault =>
               /\ r.at = "teardown" => task[c].cmd = "ephemeral"
               /\ r.at = "delete" /\ Calm => TornDown(c)'
               /\ r.at = "worker" => Supplied(c)'
               /\ Maker(c) /\ job[c].at \in Early /\ job[c].m \in Provided
                      /\ ~Excused(job[c].m) /\ There(job[c].m)
                      => r.at \in Early \/ StartRaises(job[c].m)
    PROVE  EnvInv'
<1>1. SubTypeOK' /\ Addressed' /\ RestOK'
  BY AtHand, PrefectType, RestType DEF Quiet, HostsOK
<1>2. driver' = driver /\ (faults' = 0 => faults = 0 /\ NoFault)
  BY AtHand, RestType DEF Quiet
<1> QED
  BY <1>1, <1>2, LikeMove DEF EnvInv

-----------------------------------------------------------------------------
(* `po env up`.                                                            *)

LEMMA EnsureRigRemoteInv ==
    ASSUME EnvInv, NEW c \in Clients, EnsureRigRemote(c)
    PROVE  EnvInv'
<1>0. /\ Maker(c) /\ job[c].at = "remote" /\ Quiet /\ HostsSame /\ UNCHANGED records
      /\ task' = task
      /\ \/ Go(c, "identity") /\ NoFault
         \/ Go(c, "exited") /\ Fault
  BY DEF EnsureRigRemote, At, Maker, Exit, Quiet, RestSame
<1>1. PICK at \in {"identity", "exited"} : Go(c, at) /\ (at = "exited" => Fault)
  BY <1>0
<1>2. PICK r \in Jobs : Moves(c, r) /\ Like(r, job[c]) /\ r.at = at
  BY <1>0, <1>1, AtHand, GoMoves DEF JobPCs, Running, Maker, Makes
<1>3. HostsOK' /\ Steady
  BY <1>0, AtHand, HostsStay
<1>4. NoFault => at \in Early
  BY <1>0, <1>1, AtHand DEF Early, RestOK, Fault, NoFault
<1>5. job[c].at \in Early
  BY <1>0 DEF Early
<1> QED
  BY <1>0, <1>1, <1>2, <1>3, <1>4, <1>5, QuietMove

LEMMA PushIdentityInv ==
    ASSUME EnvInv, NEW c \in Clients, PushIdentity(c)
    PROVE  EnvInv'
<1>0. /\ Maker(c) /\ job[c].at = "identity" /\ Quiet /\ UNCHANGED records /\ task' = task
      /\ UNCHANGED <<poolVars, armed, dirs, tgz>>
      /\ Fault \/ NoFault
      /\ job' = [job EXCEPT ![c].at = "creds", ![c].rec.hash = mine]
      /\ machine' = WithIdentity(job[c].m, mine) \/ machine' = machine
  BY DEF PushIdentity, At, Maker, Quiet, RestSame
<1>1. mine \in Nat /\ job[c].m \in Machines
  BY <1>0, AtHand DEF RestOK
<1>2. PICK r \in Jobs : Moves(c, r) /\ Like(r, job[c]) /\ r.at = "creds"
  BY <1>0, <1>1, AtHand, HashMoves DEF Running, Maker, Makes
<1>3. HostsOK' /\ Steady
  BY <1>0, <1>1, AtHand, GivesType
<1> QED
  BY <1>0, <1>2, <1>3, QuietMove DEF Early

LEMMA PushCredentialsInv ==
    ASSUME EnvInv, NEW c \in Clients, PushCredentials(c)
    PROVE  EnvInv'
<1>0. /\ task[c].cmd \in Makes \cup {"start"} /\ job[c].at = "creds" /\ Quiet
      /\ UNCHANGED records /\ task' = task /\ UNCHANGED <<poolVars, armed, dirs, tgz>>
      /\ (Fault \/ NoFault) /\ Go(c, "worker")
      /\ machine' = WithSecrets(job[c].m) \/ machine' = machine
      /\ NoFault => machine' = IF Pushes(c) /\ Reachable(job[c].m)
                               THEN WithSecrets(job[c].m) ELSE machine
  BY AtHand DEF PushCredentials, At, Quiet, RestSame, RestOK, Fault, NoFault
<1>1. job[c].m \in Machines
  BY <1>0, AtHand DEF JobOK, Maker
<1>2. PICK r \in Jobs : Moves(c, r) /\ Like(r, job[c]) /\ r.at = "worker"
  <2>1. Go(c, "worker")
    BY <1>0 DEF PushCredentials
  <2> QED
    BY <1>0, <2>1, AtHand, GoMoves DEF Running, Maker, Makes, JobPCs
<1>3. HostsOK' /\ Steady
  BY <1>0, <1>1, AtHand, GivesType
<1>4. NoFault => Supplied(c)'
  <2>0. Alone(task[c].env, job[c].m)' => Pushes(c)
    BY <1>0, StaticAlone DEF Alone
  <2> SUFFICES ASSUME NoFault, Pushes(c), machine'[job[c].m].state = "on"
               PROVE  machine'[job[c].m].secrets
    BY <1>0, <1>2, <2>0, MovesType, AtHand DEF Supplied, Reachable, Like
  <2>1. Reachable(job[c].m)
    BY <1>1, <1>3 DEF Steady, Reachable
  <2>2. machine' = [machine EXCEPT ![job[c].m].secrets = TRUE]
    BY <1>0, <2>1 DEF WithSecrets
  <2> QED
    BY <1>1, <2>2, AtHand DEF HostsOK, HostTypeOK
<1> QED
  BY <1>0, <1>2, <1>3, <1>4, QuietMove DEF Early

\* A worker that is started gets the secrets that are there; and whoever starts it has
\* left them, unless the machine is another environment's as well.
LEMMA StartedInv ==
    ASSUME EnvInv, NEW c \in Clients, task[c].cmd \in Makes \cup {"start"},
           job[c].at = "worker", Reachable(job[c].m), StartWorker(job[c].m, task[c].env),
           Go(c, IF Maker(c) THEN "write" ELSE "exited"),
           NoFault, Quiet, UNCHANGED records
    PROVE  EnvInv'
<1> DEFINE m == job[c].m
           e == task[c].env
           at == IF Maker(c) THEN "write" ELSE "exited"
<1>1. /\ m \in Machines /\ e \in Pools /\ e \in Envs /\ m \in Homes(e)
      /\ task' = task /\ driver' = driver /\ faults' = faults
  BY AtHand, EnvironmentsAssumption DEF JobOK, Maker, Makes, Quiet, RestSame, NoFault
<1>2. PICK r \in Jobs : Moves(c, r) /\ Like(r, job[c]) /\ r.at = at
  BY AtHand, <1>1, GoMoves DEF Running, Maker, Makes, JobPCs
<1>3. /\ JobsOK' /\ job'[c] = r /\ \A d \in Clients \ {c} : job'[d] = job[d]
  BY <1>2, AtHand, MovesType
<1>4. /\ HostsOK' /\ NoReturn
      /\ \A n \in Machines : /\ machine'[n].state = machine[n].state
                             /\ machine'[n].prefect = machine[n].prefect
                             /\ machine'[n].secrets = machine[n].secrets
                             /\ n # m => armed'[n] = armed[n]
      /\ \A p \in Pools, n \in Machines \ {m} : procs'[p][n] = procs[p][n]
      /\ \/ /\ armed'[m] = armed[m] /\ \A p \in Pools : procs'[p][m] = procs[p][m]
         \/ /\ armed'[m] = machine[m].secrets
            /\ \A p \in Pools \ {e} : procs'[p][m] > 0 => procs[p][m] > 0
  <2> HIDE DEF m, e
  <2>1. Reachable(m) /\ StartWorker(m, e) /\ HostsOK
    BY AtHand DEF m, e
  <2> QED
    BY <1>1, <2>1, StartWorkerType
<1>5. TypeInv'
  <2>1. SubTypeOK' /\ Addressed' /\ RestOK'
    BY AtHand, <1>4, PrefectType, RestType DEF Quiet, HostsOK
  <2> QED
    BY AtHand, <1>1, <1>3, <1>4, <2>1, RecordsKept DEF TypeInv, HostsOK
<1>6. RefInv' /\ EarlyKept
  <2>1. Copying
    BY <1>2, <1>4, AtHand, LikeCopies DEF Knows, Early, Provided
  <2> QED
    BY <2>1, <1>3, AtHand, CopyingRefs DEF EnvInv, EarlyKept, Copying
<1>7. Building'
  BY <1>1, <1>4, <1>6, BuildingKept DEF EnvInv, Provided
<1>8. ASSUME faults' = 0 PROVE Calm'
  <2>1. Calm
    BY <1>1, <1>8 DEF EnvInv
  <2>2. driver' /\ RecordsCalm'
    BY <1>1, <2>1 DEF Calm, RecordsCalm
  <2>3. \A d \in Clients : Sure(d, job'[d])
    BY <1>2, <1>3, <2>1 DEF Calm, Sure, Like
  <2>4. \A d \in Clients : Sure(d, job[d])'
    BY <1>1, <2>3, SureKept
  <2>5. \A d \in Clients : TornDown(d)'
    BY <1>1, <1>2, <1>3, <1>4, <2>1, AtHand, TornDownKept DEF Calm
  <2>6. ASSUME NEW d \in Clients PROVE Supplied(d)'
    <3>1. CASE d = c
      BY <1>2, <1>3, <3>1 DEF Supplied
    <3>2. CASE d # c
      <4>1. CASE job[d].at = "worker"
        BY <1>1, <1>3, <1>4, <2>1, <3>2, <4>1, SuppliedKept DEF Calm
      <4>2. CASE job[d].at # "worker"
        BY <1>3, <3>2, <4>2 DEF Supplied
      <4> QED
        BY <4>1, <4>2
    <3> QED
      BY <3>1, <3>2
  <2>7. Findable'
    <3>1. \A n \in Machines : (There(n)' <=> There(n)) /\ (StartRaises(n)' <=> StartRaises(n))
      BY <1>4 DEF There, StartRaises
    <3>2. NoneLost
      BY DEF NoneLost
    <3>3. NoneLeft
      BY <1>2, <1>3 DEF NoneLeft, Early, Like
    <3> QED
      BY <1>1, <2>1, <3>1, <3>2, <3>3, FindableKept DEF Calm, Provided
  <2>8. Armed'
    <3>1. ASSUME NEW d \in Envs, NEW n \in Homes(d), Alone(d, n), procs'[d][n] > 0
          PROVE  armed'[n]
      <4>1. n \in Machines /\ d \in Pools
        BY AtHand, HomesAreMachines, EnvironmentsAssumption DEF JobsOK
      <4>2. procs[d][n] > 0 => armed[n]
        BY <2>1, <3>1 DEF Calm, Armed
      <4>3. CASE n # m
        BY <1>4, <3>1, <4>1, <4>2, <4>3
      <4>4. CASE n = m /\ d # e
        BY <1>1, <3>1, <4>4 DEF Alone
      <4>5. CASE n = m /\ d = e
        <5>1. machine[m].secrets
          BY <1>1, <2>1, <3>1, <4>5 DEF Calm, Supplied
        <5> QED
          BY <1>4, <3>1, <4>1, <4>2, <4>5, <5>1
      <4> QED
        BY <4>3, <4>4, <4>5
    <3>2. \A d \in Envs : Homes(d)' = Homes(d)
      BY <1>1, StaticTasks
    <3> QED
      BY <1>1, <3>1, <3>2, StaticAlone DEF Armed
  <2> QED
    BY <2>2, <2>4, <2>5, <2>6, <2>7, <2>8 DEF Calm
<1> QED
  BY <1>5, <1>6, <1>7, <1>8 DEF EnvInv

\* What start_worker raises; a machine that is being put up is reached.
LEMMA NotStartedInv ==
    ASSUME EnvInv, NEW c \in Clients, task[c].cmd \in Makes \cup {"start"},
           job[c].at = "worker", Go(c, "exited"), HostsSame, Quiet, UNCHANGED records,
           \/ NoFault /\ (~Reachable(job[c].m) \/ StartRaises(job[c].m))
           \/ Fault
    PROVE  EnvInv'
<1>1. task' = task
  BY DEF Quiet, RestSame
<1>2. PICK r \in Jobs : Moves(c, r) /\ Like(r, job[c]) /\ r.at = "exited"
  BY <1>1, AtHand, GoMoves DEF Running, JobPCs
<1>3. HostsOK' /\ Steady
  BY AtHand, HostsStay
<1>4. NoFault /\ Maker(c) /\ job[c].m \in Provided /\ ~Excused(job[c].m) /\ There(job[c].m)
          => StartRaises(job[c].m)
  <2>1. Maker(c) /\ job[c].m \in Provided /\ ~Excused(job[c].m)
            => machine[job[c].m].state \in {"on", "destroyed"}
    BY DEF EnvInv, Building, Early
  <2>2. ~(NoFault /\ Fault)
    BY AtHand DEF RestOK, Fault, NoFault
  <2> QED
    BY <2>1, <2>2 DEF There, Reachable
<1>5. NoFault \/ Fault
  OBVIOUS
<1> QED
  BY <1>2, <1>3, <1>4, <1>5, QuietMove DEF Early

LEMMA LaunchWorkerInv ==
    ASSUME EnvInv, NEW c \in Clients, LaunchWorker(c)
    PROVE  EnvInv'
<1>1. /\ task[c].cmd \in Makes \cup {"start"} /\ job[c].at = "worker" /\ Quiet
      /\ UNCHANGED records
  BY DEF LaunchWorker, At
<1>2. CASE /\ Reachable(job[c].m) /\ StartWorker(job[c].m, task[c].env) /\ NoFault
           /\ Go(c, IF task[c].cmd \in Makes THEN "write" ELSE "exited")
  BY <1>1, <1>2, StartedInv DEF Maker
<1>3. CASE /\ Go(c, "exited") /\ HostsSame
           /\ \/ NoFault /\ (~Reachable(job[c].m) \/ StartRaises(job[c].m))
              \/ Fault
  BY <1>1, <1>3, NotStartedInv
<1> QED
  BY <1>2, <1>3 DEF LaunchWorker, Exit

\* From here on the machine is known.
LEMMA WriteRecordInv ==
    ASSUME EnvInv, NEW c \in Clients, WriteRecord(c)
    PROVE  EnvInv'
<1> DEFINE m == job[c].m
           e == task[c].env
           rec == [there |-> TRUE, driven |-> TRUE, m |-> m, hash |-> job[c].rec.hash]
           at == IF task[c].cmd = "up" THEN "exited" ELSE "refresh"
<1>1. /\ Maker(c) /\ job[c].at = "write" /\ HostsSame /\ Quiet /\ NoFault
      /\ Go(c, at) /\ records' = [records EXCEPT ![e] = rec]
      /\ task' = task /\ driver' = driver /\ faults' = faults
  BY DEF WriteRecord, At, Maker, Quiet, RestSame, NoFault
<1>2. /\ m \in Machines /\ e \in Envs /\ m \in Homes(e)
      /\ rec \in Recorded /\ rec.m = m /\ rec.driven /\ rec.there
  <2>1. m \in Machines /\ e \in Envs /\ job[c].rec.hash \in Nat
    BY <1>1, AtHand DEF Recorded, Jobs
  <2>2. m \in Homes(e)
    BY <1>1, <2>1, AtHand DEF JobOK, Maker, Makes
  <2> QED
    BY <2>1, <2>2 DEF Recorded
<1> HIDE DEF rec
<1>3. PICK r \in Jobs : Moves(c, r) /\ Like(r, job[c]) /\ r.at = at
  BY AtHand, <1>1, GoMoves DEF Running, JobPCs
<1>4. /\ JobsOK' /\ job'[c] = r /\ \A d \in Clients \ {c} : job'[d] = job[d]
  BY <1>3, AtHand, MovesType
<1>5. \A d \in Clients :
          /\ job'[d].m = job[d].m /\ job'[d].env = job[d].env
          /\ job'[d].snap = job[d].snap /\ job'[d].rec.m = job[d].rec.m
          /\ Maker(d) /\ job'[d].at \in Early => job[d].at \in Early /\ d # c
  BY <1>3, <1>4 DEF Like, Early
<1>6. HostsOK' /\ Steady /\ machine' = machine
  BY <1>1, AtHand, HostsStay DEF HostsSame, hostVars
<1>7. /\ RecordsOK' /\ records'[e] = rec /\ \A d \in Envs \ {e} : records'[d] = records[d]
  <2>1. RecOK(rec, e)
    BY <1>2 DEF RecOK
  <2> QED
    BY <1>1, <1>2, <2>1, AtHand, RecordsSet
<1>8. TypeInv'
  <2>1. SubTypeOK' /\ Addressed' /\ RestOK'
    BY <1>1, <1>6, AtHand, PrefectType, RestType DEF Quiet, HostsOK
  <2> QED
    BY <1>4, <1>6, <1>7, <2>1 DEF TypeInv, HostsOK
<1>9. ASSUME NEW d \in Envs, NEW n \in Machines, Knows(d, n)'
      PROVE  Knows(d, n) \/ (d = e /\ n = m)
  BY <1>1, <1>2, <1>5, <1>7, <1>9, StaticTasks DEF Knows
<1>10. RefInv'
  <2>1. Unwritten'
    <3>1. ASSUME NEW d \in Clients, Maker(d), ~Rivals(task[d].env, Makes), job'[d].at \in Early
          PROVE  task[d].env \in Envs /\ task[d].env # e /\ job[d].at \in Early
      BY <1>1, <1>5, <3>1, AtHand DEF Rivals, Maker
    <3> QED
      BY <1>1, <1>9, <3>1, StaticTasks DEF EnvInv, RefInv, Unwritten
  <2>2. Made'
    <3>1. ASSUME NEW n \in Provided, NEW d \in Envs, ~Excused(n), Knows(d, n)'
          PROVE  MadeBy(d, n)
      BY <1>1, <1>9, <3>1 DEF EnvInv, RefInv, Made, MadeBy, Provided
    <3>2. \A d, n : MadeBy(d, n) => MadeBy(d, n)'
      BY <1>1, <1>5, StaticTasks DEF MadeBy
    <3> QED
      BY <1>1, <3>1, <3>2, StaticTasks DEF Made, Provided
  <2>3. MadeOnce'
    BY <1>1, <1>5, StaticTasks DEF EnvInv, RefInv, MadeOnce, Provided
  <2>4. Unborn'
    <3>1. ASSUME NEW n \in Provided, machine[n].state = "absent"
          PROVE  (\A d \in Envs : ~Knows(d, n)') /\ \A d \in Clients : job'[d].m # n
      BY <1>5, <1>9, <3>1 DEF EnvInv, RefInv, Unborn, Provided
    <3> QED
      BY <1>6, <3>1 DEF Unborn, Provided
  <2> QED
    BY <2>1, <2>2, <2>3, <2>4 DEF RefInv
<1>11. EarlyKept
  BY <1>5 DEF EarlyKept
<1>12. ASSUME faults' = 0 PROVE CalmStep
  <2>1. Calm
    BY <1>1, <1>12 DEF EnvInv
  <2>2. RecordsCalm'
    BY <1>2, <1>7, <2>1 DEF Calm, RecordsCalm
  <2>3. NoneLost
    <3>1. ASSUME NEW n \in Provided, ~Excused(n), records[e].m = n
          PROVE  n = m
      <4>1. n \in Machines /\ n \in Homes(e)
        BY <1>2, <3>1, AtHand, KnowsHome DEF Knows, Provided
      <4> QED
        BY <1>2, <3>1, <4>1, NotExcused, OneHome
    <3> QED
      BY <1>2, <1>7, <3>1 DEF NoneLost
  <2>4. NoneLeft
    BY <1>2, <1>4, <1>7 DEF NoneLeft
  <2>5. \A d \in Clients : Sure(d, job'[d])
    BY <1>3, <1>4, <2>1 DEF Calm, Sure, Like
  <2>6. ASSUME NEW d \in Clients
        PROVE  /\ job'[d].at = "delete" => job[d].at = "delete" /\ job'[d].env = job[d].env
               /\ job'[d].at = "worker" => job[d].at = "worker" /\ job'[d].m = job[d].m
    BY <1>3, <1>4
  <2> QED
    BY <1>1, <2>1, <2>2, <2>3, <2>4, <2>5, <2>6 DEF CalmStep
<1> QED
  BY <1>1, <1>6, <1>8, <1>10, <1>11, <1>12, SteadyInv

\* A machine that is made is nobody's but its maker's.
LEMMA ProvisionInv ==
    ASSUME EnvInv, NEW c \in Clients, Provision(c), driver
    PROVE  EnvInv'
<1> DEFINE m == task[c].home
           e == task[c].env
<1>1. /\ Maker(c) /\ job[c].at = "begin" /\ Quiet /\ UNCHANGED <<records, faults>>
      /\ machine[m].state = IF Kind[m] = "ssh" THEN "on" ELSE "absent"
      /\ machine' = Provisioned(m) /\ UNCHANGED <<poolVars, armed, dirs, tgz>>
      /\ job' = [job EXCEPT ![c].at = "remote", ![c].m = m]
      /\ task' = task /\ driver' = driver
  BY DEF Provision, At, Maker, Quiet, RestSame
<1>2. /\ m \in Machines /\ e \in Envs /\ m \in Homes(e) /\ job[c].m = NoMachine
      /\ job[c].env = e
  BY <1>1, AtHand, MakerHome DEF JobOK, JobsOK, Maker, Makes
<1>3. /\ HostsOK' /\ WorkersKept /\ NoReturn
      /\ machine'[m].state = "on"
      /\ \A n \in Machines : /\ n # m => machine'[n].state = machine[n].state
                             /\ machine'[n].prefect = machine[n].prefect
                             /\ machine'[n].secrets = machine[n].secrets
  <2> HIDE DEF m
  <2> QED
    BY <1>1, <1>2, AtHand, ProvisionType
<1> DEFINE r == [job[c] EXCEPT !.at = "remote", !.m = m]
<1>4. /\ r \in Jobs /\ r.at = "remote" /\ r.m = m /\ r.env = job[c].env /\ r.rec = job[c].rec
      /\ r.snap = job[c].snap /\ r.todo = job[c].todo /\ job' = [job EXCEPT ![c] = r]
  BY <1>1, <1>2, AtHand DEF Jobs, JobPCs
<1> HIDE DEF r
<1>5. Moves(c, r)
  BY <1>1, <1>2, <1>4, AtHand DEF Moves, JobOK, Running, Maker, Makes
<1>6. /\ JobsOK' /\ job'[c] = r /\ \A d \in Clients \ {c} : job'[d] = job[d]
  BY <1>5, AtHand, MovesType
<1>7. TypeInv'
  <2>1. SubTypeOK' /\ Addressed' /\ RestOK'
    BY <1>1, <1>3, AtHand, PrefectType, RestType DEF Quiet, HostsOK, NoFault
  <2> QED
    BY <1>1, <1>3, <1>6, <2>1, AtHand, RecordsKept DEF TypeInv, HostsOK
<1>8. ASSUME NEW d \in Envs, NEW n \in Machines, Knows(d, n)' PROVE Knows(d, n)
  <2>1. \A x \in Clients : /\ job'[x].env = job[x].env /\ job'[x].rec = job[x].rec
                           /\ job'[x].snap = job[x].snap
                           /\ ~Maker(x) => job'[x].m = job[x].m
    BY <1>1, <1>4, <1>6
  <2> QED
    BY <1>1, <1>8, <2>1, StaticTasks DEF Knows
<1>9. ASSUME m \in Provided
      PROVE  (\A d \in Envs : ~Knows(d, m)) /\ \A d \in Clients : job[d].m # m
  BY <1>1, <1>9 DEF EnvInv, RefInv, Unborn, Provided
<1>10. RefInv'
  <2>1. Unwritten'
    <3>1. ASSUME NEW d \in Clients, job'[d].at \in Early
          PROVE  task[d].env \in Envs /\ job[d].at \in Early
      BY <1>1, <1>6, <3>1, AtHand DEF Early
    <3> QED
      BY <1>1, <1>8, <3>1, StaticTasks DEF EnvInv, RefInv, Unwritten
  <2>2. Made'
    <3>1. ASSUME NEW n \in Provided, NEW d \in Envs, ~Excused(n), Knows(d, n)'
          PROVE  MadeBy(d, n)'
      <4>1. PICK x \in Clients : Maker(x) /\ task[x].env = d /\ job[x].m = n
        BY <1>8, <3>1 DEF EnvInv, RefInv, Made, MadeBy, Provided
      <4>2. x # c
        BY <1>2, <4>1, AtHand DEF Provided
      <4> QED
        BY <1>1, <1>6, <4>1, <4>2, StaticTasks DEF MadeBy
    <3> QED
      BY <1>1, <3>1, StaticTasks DEF Made, Provided
  <2>3. MadeOnce'
    <3>1. ASSUME NEW n \in Provided, NEW x \in Clients, NEW y \in Clients, ~Excused(n),
                 Maker(x), Maker(y), job'[x].m = n, job'[y].m = n
          PROVE  x = y
      BY <1>4, <1>6, <1>9, <3>1 DEF EnvInv, RefInv, MadeOnce
    <3> QED
      BY <1>1, <3>1, StaticTasks DEF MadeOnce, Provided
  <2>4. Unborn'
    <3>1. ASSUME NEW n \in Provided, machine'[n].state = "absent"
          PROVE  (\A d \in Envs : ~Knows(d, n)') /\ \A d \in Clients : job'[d].m # n
      <4>1. n # m /\ machine[n].state = "absent"
        BY <1>3, <3>1 DEF Provided
      <4> QED
        BY <1>4, <1>6, <1>8, <4>1 DEF EnvInv, RefInv, Unborn, Provided
    <3> QED
      BY <3>1 DEF Unborn, Provided
  <2> QED
    BY <2>1, <2>2, <2>3, <2>4 DEF RefInv
<1>11. Building'
  <2>1. ASSUME NEW d \in Clients, Maker(d), job'[d].at \in Early, job'[d].m \in Provided,
               ~Excused(job'[d].m)
        PROVE  machine'[job'[d].m].state \in {"on", "destroyed"}
    <3>1. CASE d = c
      BY <1>3, <1>4, <1>6, <3>1
    <3>2. CASE d # c
      BY <1>3, <1>6, <2>1, <3>2 DEF EnvInv, Building, Provided
    <3> QED
      BY <3>1, <3>2
  <2>2. \A d : Excused(job[d].m)' <=> Excused(job'[d].m)
    BY <1>1 DEF Excused, Homes, Rivals
  <2> QED
    BY <1>1, <2>1, <2>2, StaticTasks DEF Building, Provided
<1>12. ASSUME faults' = 0 PROVE Calm'
  <2>1. Calm
    BY <1>1, <1>12 DEF EnvInv
  <2>2. driver' /\ RecordsCalm'
    BY <1>1, <2>1 DEF Calm, RecordsCalm
  <2>3. \A d \in Clients : Sure(d, job'[d])
    BY <1>4, <1>6, <2>1 DEF Calm, Sure
  <2>4. \A d \in Clients : Sure(d, job[d])'
    BY <1>1, <2>3, SureKept
  <2>5. \A d \in Clients : TornDown(d)'
    BY <1>1, <1>3, <1>4, <1>6, <2>1, AtHand, TornDownKept DEF Calm
  <2>6. ASSUME NEW d \in Clients PROVE Supplied(d)'
    <3>1. CASE d = c \/ job[d].at # "worker"
      BY <1>4, <1>6, <3>1 DEF Supplied
    <3>2. CASE d # c /\ job[d].at = "worker"
      <4>1. job[d].m \in Machines /\ machine'[job[d].m].state = "on"
                => machine[job[d].m].state = "on"
        BY <1>1, <1>3, <1>9 DEF Provided
      <4> QED
        BY <1>1, <1>3, <1>6, <2>1, <3>2, <4>1, SuppliedKept DEF Calm
    <3> QED
      BY <3>1, <3>2
  <2>7. Findable'
    <3>1. ASSUME NEW n \in Provided, ~Excused(n), There(n)'
          PROVE  \/ \E d \in Envs : records'[d].m = n
                 \/ \E d \in Clients : Maker(d) /\ job'[d].at \in Early /\ job'[d].m = n
                 \/ StartRaises(n)'
      <4>1. CASE n = m
        BY <1>1, <1>4, <1>6, <4>1 DEF Early
      <4>2. CASE n # m
        <5>1. There(n) /\ (StartRaises(n) => StartRaises(n)')
          BY <1>3, <3>1, <4>2 DEF There, StartRaises, Provided
        <5>2. job[c].m # n
          BY <1>2, AtHand DEF Provided
        <5> QED
          BY <1>1, <1>6, <2>1, <3>1, <5>1, <5>2 DEF Calm, Findable
      <4> QED
        BY <4>1, <4>2
    <3> QED
      BY <1>1, <3>1, StaticTasks DEF Findable, Provided
  <2>8. Armed'
    <3>1. \A d \in Envs, n \in Machines : procs'[d][n] > 0 => procs[d][n] > 0
      BY <1>3, EnvironmentsAssumption DEF WorkersKept
    <3> QED
      BY <1>1, <2>1, <3>1, AtHand, ArmedKept DEF Calm
  <2> QED
    BY <2>2, <2>4, <2>5, <2>6, <2>7, <2>8 DEF Calm
<1> QED
  BY <1>7, <1>10, <1>11, <1>12 DEF EnvInv

\* Without a driver nothing is made.
LEMMA UnprovisionedInv ==
    ASSUME EnvInv, NEW c \in Clients, Provision(c), ~driver
    PROVE  EnvInv'
<1>1. /\ Go(c, "exited") /\ HostsSame /\ Quiet /\ UNCHANGED records /\ NoFault
      /\ job[c].at = "begin" /\ task' = task /\ Maker(c)
  BY DEF Provision, At, Exit, Maker, HostsSame, hostVars, Quiet, RestSame, NoFault
<1>2. PICK r \in Jobs : Moves(c, r) /\ Like(r, job[c]) /\ r.at = "exited"
  BY <1>1, AtHand, GoMoves DEF Running, JobPCs
<1>3. HostsOK' /\ Steady
  BY <1>1, AtHand, HostsStay
<1>4. job[c].m \notin Provided
  BY <1>1, AtHand DEF JobOK, Provided
<1> QED
  BY <1>1, <1>2, <1>3, <1>4, QuietMove DEF Early

-----------------------------------------------------------------------------
(* Records are read.                                                       *)

\* A process takes a record of the environment it works for as its own.
LEMMA ReadCopies ==
    ASSUME JobsOK, RecordsOK, NEW c \in Clients, NEW r, Moves(c, r), UNCHANGED <<records, machine>>,
           NEW e \in Envs, r.env = e, r.snap = job[c].snap, r.m = r.rec.m,
           \A m \in Machines : r.rec.m = m => Knows(e, m),
           Maker(c) => task[c].env = e /\ job[c].m # NoMachine /\ r.m \in Machines,
           r.at \notin Early
    PROVE  Copying
<1>1. job'[c] = r /\ (\A d \in Clients \ {c} : job'[d] = job[d]) /\ task' = task
  BY MovesType DEF Moves
<1>2. ASSUME NEW d \in Envs, NEW m \in Machines, Knows(d, m)' PROVE Knows(d, m)
  <2>1. CASE \E x \in Clients : x # c /\ job'[x].env = d
                 /\ (job'[x].rec.m = m \/ (~Maker(x)' /\ job'[x].m = m))
    BY <1>1, <2>1, StaticTasks DEF Knows
  <2>2. CASE job'[c].env = d /\ (job'[c].rec.m = m \/ (~Maker(c)' /\ job'[c].m = m))
    BY <1>1, <2>2
  <2>3. CASE records'[d].m = m \/ \E x \in Clients : job'[x].snap[d].m = m
    BY <1>1, <2>3 DEF Knows
  <2> QED
    BY <1>2, <2>1, <2>2, <2>3 DEF Knows
<1>3. \A d \in Clients : Maker(d) =>
          \/ job'[d].m = job[d].m
          \/ /\ job[d].m # NoMachine /\ job'[d].m \in Machines
             /\ Knows(task[d].env, job'[d].m)
  BY <1>1
<1> QED
  BY <1>1, <1>2, <1>3 DEF Copying

\* Reading alone.
LEMMA ReadInv ==
    ASSUME EnvInv, NEW c \in Clients, NEW r, Moves(c, r), Copying, HostsSame, Quiet, NoFault,
           UNCHANGED records, Calm => Sure(c, r), r.at \notin {"delete", "worker"},
           Maker(c) => job[c].at \notin Early
    PROVE  EnvInv'
<1>1. job'[c] = r /\ task' = task
  BY AtHand, MovesType DEF Moves
<1>2. HostsOK' /\ Steady /\ RecordsOK'
  BY <1>1, AtHand, HostsStay, RecordsKept
<1>3. SubTypeOK' /\ Addressed' /\ RestOK' /\ driver' = driver
  BY <1>2, AtHand, PrefectType, RestType DEF Quiet, HostsOK
<1>4. ASSUME faults' = 0 PROVE faults = 0 /\ CalmMove(c)
  <2>1. Calm /\ faults = 0
    BY <1>4 DEF EnvInv, NoFault
  <2> QED
    BY <1>1, <1>3, <2>1 DEF CalmMove, Calm, RecordsCalm, NoneLost
<1> QED
  BY <1>2, <1>3, <1>4, SteadyMove

\* What a process holds that has taken a record of e.
Taken(q, at, rec, e, todo) ==
    [q EXCEPT !.at = at, !.rec = rec, !.m = rec.m, !.env = e, !.todo = todo]

LEMMA RecordTaken ==
    ASSUME NEW q \in Jobs, NEW e \in Envs, NEW rec \in Recorded,
           NEW at \in JobPCs, NEW todo \in SUBSET Envs, NEW r, r = Taken(q, at, rec, e, todo)
    PROVE  /\ r \in Jobs
           /\ r.at = at /\ r.rec = rec /\ r.m = rec.m /\ r.env = e
           /\ r.snap = q.snap /\ r.todo = todo
<1>1. rec.m \in Machines \cup {NoMachine}
  BY DEF Recorded
<1> QED
  BY <1>1 DEF Jobs, Taken

LEMMA ReadForRunInv ==
    ASSUME EnvInv, NEW c \in Clients, ReadForRun(c)
    PROVE  EnvInv'
<1> DEFINE e == task[c].env
           rec == records[e]
<1>1. /\ HostsSame /\ Quiet /\ UNCHANGED records /\ NoFault /\ task' = task
      /\ \/ ~Maker(c) /\ task[c].cmd = "run" /\ job[c].at = "begin"
         \/ Maker(c) /\ task[c].cmd = "ephemeral" /\ job[c].at = "refresh"
  BY DEF ReadForRun, At, Maker, Makes, Runs, Quiet, RestSame, NoFault
<1>2. /\ e \in Envs /\ rec \in Recorded /\ RecOK(rec, e) /\ job[c].env = e
      /\ job[c] \in Jobs /\ JobOK(c, job[c])
  BY <1>1, AtHand DEF RecordsOK, JobOK
<1>3. CASE Usable(rec)
  <2>1. job' = [job EXCEPT ![c].at = "identity2", ![c].rec = rec, ![c].m = rec.m]
    BY <1>3 DEF ReadForRun
  <2> DEFINE r == Taken(job[c], "identity2", rec, e, job[c].todo)
  <2>2. job' = [job EXCEPT ![c] = r]
    BY <1>2, <2>1 DEF Jobs, Taken
  <2>3. /\ r \in Jobs
        /\ r.at = "identity2" /\ r.rec = rec /\ r.m = rec.m /\ r.env = e
        /\ r.snap = job[c].snap /\ r.todo = job[c].todo
    <3>1. "identity2" \in JobPCs /\ job[c].todo \in SUBSET Envs
      BY <1>2 DEF JobPCs, Jobs
    <3> HIDE DEF rec, e
    <3> QED
      BY <1>2, <3>1, RecordTaken
  <2> HIDE DEF r
  <2>4. /\ rec.m \in Machines /\ rec.m \in Homes(e) /\ rec.driven
        /\ \A m \in Machines : rec.m = m => Knows(e, m)
    BY <1>2, <1>3, AtHand, HomesAreMachines DEF Usable, RecOK, Knows, JobsOK
  <2>5. JobOK(c, r)
    BY <1>1, <1>2, <2>3, <2>4, AtHand DEF JobOK, Running
  <2>6. Moves(c, r)
    BY <1>1, <2>2, <2>3, <2>5 DEF Moves
  <2>7. Copying
    <3>1. Maker(c) => job[c].m # NoMachine
      BY <1>1, AtHand
    <3>2. UNCHANGED machine
      BY <1>1 DEF HostsSame, hostVars
    <3> QED
      BY <1>1, <1>2, <2>3, <2>4, <2>6, <3>1, <3>2, AtHand, ReadCopies DEF Early
  <2>8. Calm => Sure(c, r)
    BY <2>3 DEF Calm, Sure
  <2>9. Maker(c) => job[c].at \notin Early
    BY <1>1 DEF Early
  <2> QED
    BY <1>1, <2>3, <2>6, <2>7, <2>8, <2>9, ReadInv
<1>4. CASE ~Usable(rec)
  <2>1. PICK at \in {"exited", "teardown"} : /\ Go(c, at)
                                             /\ at = "teardown" => task[c].cmd = "ephemeral"
    BY <1>1, <1>4 DEF ReadForRun, AfterRun, Runs
  <2>2. PICK r \in Jobs : Moves(c, r) /\ Like(r, job[c]) /\ r.at = at
    <3>1. at # "exited" /\ Maker(c) => job[c].at \notin {"begin", "exited"}
      BY <1>1, <2>1 DEF Maker, Makes
    <3> QED
      BY <1>1, <2>1, <3>1, AtHand, GoMoves DEF Running, JobPCs
  <2>3. HostsOK' /\ Steady
    BY <1>1, AtHand, HostsStay
  <2>4. Maker(c) => job[c].at \notin Early
    BY <1>1 DEF Early, Maker, Makes
  <2> QED
    BY <1>1, <2>1, <2>2, <2>3, <2>4, QuietMove DEF Early
<1> QED
  BY <1>3, <1>4

LEMMA ReadForDownInv ==
    ASSUME EnvInv, NEW c \in Clients, ReadForDown(c)
    PROVE  EnvInv'
<1> DEFINE e == task[c].env
           rec == records[e]
<1>1. /\ HostsSame /\ Quiet /\ UNCHANGED records /\ NoFault /\ task' = task
      /\ ~Maker(c) /\ task[c].cmd = "down" /\ job[c].at = "begin"
  BY DEF ReadForDown, Reads, At, Maker, Makes, Quiet, RestSame, NoFault
<1>2. /\ e \in Envs /\ rec \in Recorded /\ RecOK(rec, e) /\ job[c].env = e
      /\ job[c] \in Jobs /\ JobOK(c, job[c])
  BY <1>1, AtHand DEF RecordsOK, JobOK
<1>3. CASE rec.there
  <2> DEFINE r == Taken(job[c], "teardown", rec, e, job[c].todo)
  <2>0. job' = [job EXCEPT ![c].at = "teardown", ![c].rec = rec, ![c].m = rec.m]
    BY <1>3 DEF ReadForDown, AfterRead
  <2>1. job' = [job EXCEPT ![c] = r]
    BY <1>2, <2>0 DEF Jobs, Taken
  <2>2. /\ r \in Jobs
        /\ r.at = "teardown" /\ r.rec = rec /\ r.m = rec.m /\ r.env = e
        /\ r.snap = job[c].snap /\ r.todo = job[c].todo
    <3>1. "teardown" \in JobPCs /\ job[c].todo \in SUBSET Envs
      BY <1>2 DEF JobPCs, Jobs
    <3> HIDE DEF rec, e
    <3> QED
      BY <1>2, <3>1, RecordTaken
  <2> HIDE DEF r
  <2>3. rec.m \in Homes(e) \cup {NoMachine} /\ \A m \in Machines : rec.m = m => Knows(e, m)
    BY <1>2 DEF RecOK, Knows
  <2>4. Moves(c, r)
    BY <1>1, <1>2, <2>1, <2>2, <2>3 DEF Moves, JobOK, Running
  <2>5. Copying
    <3>1. UNCHANGED machine
      BY <1>1 DEF HostsSame, hostVars
    <3> QED
      BY <1>1, <1>2, <2>2, <2>3, <2>4, <3>1, AtHand, ReadCopies DEF Early
  <2>6. Calm => Sure(c, r)
    BY <1>2, <1>3, <2>2 DEF Calm, Sure, RecordsCalm
  <2> QED
    BY <1>1, <2>2, <2>4, <2>5, <2>6, ReadInv
<1>4. CASE ~rec.there
  <2>1. Go(c, "exited")
    BY <1>4 DEF ReadForDown, Exit
  <2>2. PICK r \in Jobs : Moves(c, r) /\ Like(r, job[c]) /\ r.at = "exited"
    BY <1>1, <2>1, AtHand, GoMoves DEF Running, JobPCs
  <2>3. HostsOK' /\ Steady
    BY <1>1, AtHand, HostsStay
  <2> QED
    BY <1>1, <2>2, <2>3, QuietMove DEF Early
<1> QED
  BY <1>3, <1>4

LEMMA SnapshotInv ==
    ASSUME EnvInv, NEW c \in Clients, Snapshot(c)
    PROVE  EnvInv'
<1>1. /\ HostsSame /\ Quiet /\ UNCHANGED records /\ NoFault /\ task' = task
      /\ ~Maker(c) /\ task[c].cmd = "reap" /\ UNCHANGED machine
  BY DEF Snapshot, Reads, At, Maker, Makes, Quiet, RestSame, NoFault, HostsSame, hostVars
<1>2. PICK idle \in SUBSET {e \in Envs : records[e].there} :
          job' = [job EXCEPT ![c].at = "reap", ![c].todo = idle, ![c].snap = records]
  BY DEF Snapshot
<1> DEFINE r == [job[c] EXCEPT !.at = "reap", !.todo = idle, !.snap = records]
<1>3. /\ r \in Jobs /\ job' = [job EXCEPT ![c] = r]
      /\ r.at = "reap" /\ r.rec = job[c].rec /\ r.m = job[c].m /\ r.env = job[c].env
      /\ r.snap = records /\ r.todo = idle
  BY <1>2, AtHand DEF Jobs, JobPCs, RecordsOK
<1> HIDE DEF r
<1>4. Moves(c, r)
  BY <1>1, <1>3, AtHand DEF Moves, JobOK, Running, RecordsOK
<1>5. job'[c] = r /\ (\A d \in Clients \ {c} : job'[d] = job[d])
  BY <1>4, AtHand, MovesType
<1>6. ASSUME NEW d \in Envs, NEW m \in Machines, Knows(d, m)' PROVE Knows(d, m)
  <2>1. \A x \in Clients : /\ job'[x].env = job[x].env /\ job'[x].rec = job[x].rec
                           /\ job'[x].m = job[x].m
                           /\ job'[x].snap = job[x].snap \/ job'[x].snap = records
    BY <1>3, <1>5
  <2> QED
    BY <1>1, <1>6, <2>1, StaticTasks DEF Knows
<1>7. Copying
  BY <1>1, <1>3, <1>5, <1>6 DEF Copying
<1>8. Calm => Sure(c, r)
  BY <1>3 DEF Calm, Sure, RecordsCalm
<1> QED
  BY <1>1, <1>3, <1>4, <1>7, <1>8, ReadInv

LEMMA ReapNextInv ==
    ASSUME EnvInv, NEW c \in Clients, ReapNext(c)
    PROVE  EnvInv'
<1>1. /\ HostsSame /\ Quiet /\ UNCHANGED records /\ NoFault /\ task' = task
      /\ ~Maker(c) /\ task[c].cmd = "reap" /\ job[c].at = "reap" /\ UNCHANGED machine
  BY DEF ReapNext, At, Maker, Makes, Quiet, RestSame, NoFault, HostsSame, hostVars
<1>2. CASE job[c].todo = {} /\ Go(c, "exited")
  <2>1. PICK r \in Jobs : Moves(c, r) /\ Like(r, job[c]) /\ r.at = "exited"
    BY <1>1, <1>2, AtHand, GoMoves DEF Running, JobPCs
  <2>2. HostsOK' /\ Steady
    BY <1>1, AtHand, HostsStay
  <2> QED
    BY <1>1, <2>1, <2>2, QuietMove DEF Early
<1>3. CASE \E e \in job[c].todo :
              job' = [job EXCEPT ![c].at = AfterRead, ![c].env = e, ![c].todo = @ \ {e},
                                 ![c].rec = job[c].snap[e], ![c].m = job[c].snap[e].m]
  <2>1. PICK e \in job[c].todo :
            job' = [job EXCEPT ![c].at = "teardown", ![c].env = e, ![c].todo = @ \ {e},
                               ![c].rec = job[c].snap[e], ![c].m = job[c].snap[e].m]
    BY <1>3 DEF AfterRead
  <2> DEFINE rec == job[c].snap[e]
             r == Taken(job[c], "teardown", rec, e, job[c].todo \ {e})
  <2>2. e \in Envs /\ rec \in Recorded /\ RecOK(rec, e) /\ job[c] \in Jobs
    BY <2>1, AtHand DEF Jobs, JobOK
  <2>3. job' = [job EXCEPT ![c] = r]
    BY <2>1, <2>2 DEF Jobs, Taken
  <2>4. /\ r \in Jobs
        /\ r.at = "teardown" /\ r.rec = rec /\ r.m = rec.m /\ r.env = e
        /\ r.snap = job[c].snap /\ r.todo = job[c].todo \ {e}
    <3> DEFINE rest == job[c].todo \ {e}
    <3>1. "teardown" \in JobPCs /\ rest \in SUBSET Envs
      BY <2>2 DEF JobPCs, Jobs
    <3>2. r = Taken(job[c], "teardown", rec, e, rest)
      OBVIOUS
    <3> HIDE DEF rec, r, rest
    <3>3. /\ r \in Jobs /\ r.at = "teardown" /\ r.rec = rec /\ r.m = rec.m /\ r.env = e
          /\ r.snap = job[c].snap /\ r.todo = rest
      BY <2>2, <3>1, <3>2, RecordTaken
    <3> QED
      BY <3>3 DEF rest
  <2>5. rec.m \in Homes(e) \cup {NoMachine} /\ \A m \in Machines : rec.m = m => Knows(e, m)
    BY <2>2 DEF RecOK, Knows
  <2>6. Calm => rec.driven
    BY <2>1 DEF Calm, Sure
  <2>7. Calm => \A d \in Envs : job[c].snap[d].there => job[c].snap[d].driven
    BY DEF Calm, Sure
  <2>8. Calm => \A d \in job[c].todo : job[c].snap[d].driven
    BY DEF Calm, Sure
  <2>9. \A d \in Envs : RecOK(job[c].snap[d], d)
    BY AtHand DEF JobOK
  <2> HIDE DEF rec, r
  <2>10. Moves(c, r)
    BY <1>1, <2>2, <2>3, <2>4, <2>5, <2>9 DEF Moves, JobOK, Running
  <2>11. Copying
    BY <1>1, <2>2, <2>4, <2>5, <2>10, AtHand, ReadCopies DEF Early
  <2>12. Calm => Sure(c, r)
    BY <2>4, <2>6, <2>7, <2>8 DEF Sure
  <2> QED
    BY <1>1, <2>4, <2>10, <2>11, <2>12, ReadInv
<1> QED
  BY <1>2, <1>3 DEF ReapNext, Exit

-----------------------------------------------------------------------------
(* `po run --env`.                                                         *)

\* What a run does on its way: the machine is as it was, the place changes.
LEMMA RunMove ==
    ASSUME EnvInv, NEW c \in Clients, NEW r, Moves(c, r), Like(r, job[c]),
           UNCHANGED <<records, driver>>, HostsOK', Steady, RestOK', SubTypeOK', Addressed',
           job[c].at \in Running, r.at \notin Early, r.at # "delete",
           r.at = "teardown" => task[c].cmd = "ephemeral",
           faults' = 0 => faults = 0
    PROVE  EnvInv'
<1>1. r.at # "worker" /\ job[c].at \notin Early
  BY DEF Running, Early
<1> QED
  BY <1>1, LikeMove

LEMMA RunPlaces ==
    ASSUME JobsOK, NEW c \in Clients, NEW at \in Running \cup {"exited", "teardown"},
           job[c].at \in Running, Go(c, at), task' = task
    PROVE  /\ \E r \in Jobs : Moves(c, r) /\ Like(r, job[c]) /\ r.at = at
           /\ at \notin Early /\ at # "delete"
BY GoMoves DEF Running, JobPCs, Early

LEMMA AfterRunPlaces ==
    ASSUME NEW c \in Clients, task[c].cmd \in Runs, NEW completed
    PROVE  /\ AfterRun(c, completed) \in {"exited", "teardown"}
           /\ AfterRun(c, completed) = "teardown" => task[c].cmd = "ephemeral"
BY DEF AfterRun, Runs

LEMMA RefreshIdentityInv ==
    ASSUME EnvInv, NEW c \in Clients, RefreshIdentity(c)
    PROVE  EnvInv'
<1> DEFINE m == job[c].m
<1>1. /\ Quiet /\ UNCHANGED records /\ task' = task /\ driver' = driver
      /\ UNCHANGED <<poolVars, armed, dirs, tgz>>
      /\ task[c].cmd \in Runs /\ job[c].at = "identity2" /\ (Fault \/ NoFault)
  BY DEF RefreshIdentity, At, Quiet, RestSame
<1>2. m \in Machines /\ job[c].rec.m = m /\ job[c].at \in Running /\ mine \in Nat
  BY <1>1, AtHand, HomesAreMachines DEF JobOK, Running, RecOK, JobsOK, RestOK
<1>3. /\ RestOK' /\ (faults' = 0 => faults = 0)
      /\ PoolTypeOK' => SubTypeOK' /\ Addressed'
  BY <1>1, AtHand, RestType, PrefectType DEF Quiet
<1>4. CASE UNCHANGED machine /\ \E at \in {"exited", "teardown", "deliver"} :
               Go(c, at) /\ (at = "teardown" => task[c].cmd = "ephemeral")
  <2>1. PICK at \in {"exited", "teardown", "deliver"} :
               Go(c, at) /\ (at = "teardown" => task[c].cmd = "ephemeral")
    BY <1>4
  <2>2. HostsOK' /\ Steady
    BY <1>1, <1>2, <1>4, AtHand, GivesType
  <2>3. at \in Running \cup {"exited", "teardown"}
    BY DEF Running
  <2>4. PICK r \in Jobs : Moves(c, r) /\ Like(r, job[c]) /\ r.at = at
    BY <1>1, <1>2, <2>1, <2>3, AtHand, RunPlaces
  <2>5. at \notin Early /\ at # "delete"
    BY DEF Early
  <2> QED
    BY <1>1, <1>2, <1>3, <2>1, <2>2, <2>4, <2>5, RunMove DEF HostsOK
<1>5. CASE /\ machine' = WithIdentity(job[c].rec.m, mine)
           /\ job' = [job EXCEPT ![c].at = "deliver", ![c].rec.hash = mine]
  <2>1. HostsOK' /\ Steady
    <3>1. machine' = WithIdentity(m, mine)
      BY <1>2, <1>5
    <3> QED
      BY <1>1, <1>2, <3>1, AtHand, GivesType
  <2>2. PICK r \in Jobs : Moves(c, r) /\ Like(r, job[c]) /\ r.at = "deliver"
    BY <1>1, <1>2, <1>5, AtHand, HashMoves DEF Running
  <2>3. "deliver" \notin Early
    BY DEF Early
  <2> QED
    BY <1>1, <1>2, <1>3, <2>1, <2>2, <2>3, RunMove DEF HostsOK
<1>6. \/ Go(c, AfterRun(c, FALSE)) /\ UNCHANGED machine
      \/ Go(c, "deliver") /\ UNCHANGED machine
      \/ /\ machine' = WithIdentity(job[c].rec.m, mine)
         /\ job' = [job EXCEPT ![c].at = "deliver", ![c].rec.hash = mine]
  BY DEF RefreshIdentity
<1>7. /\ AfterRun(c, FALSE) \in {"exited", "teardown"}
      /\ AfterRun(c, FALSE) = "teardown" => task[c].cmd = "ephemeral"
  BY <1>1, AfterRunPlaces
<1> QED
  BY <1>4, <1>5, <1>6, <1>7

LEMMA DeliverInv ==
    ASSUME EnvInv, NEW c \in Clients, Deliver(c)
    PROVE  EnvInv'
<1>1. /\ UNCHANGED <<records, catalog, deployed, refusals>> /\ RestSame /\ task' = task
      /\ driver' = driver /\ job[c].at = "deliver" /\ job[c].at \in Running
      /\ Go(c, "dispatch") /\ Ask(c, task[c].env, task[c].env) /\ (Fault \/ NoFault)
      /\ HostsSame \/ PushRig(job[c].m, local)
  BY DEF Deliver, At, RestSame, Running
<1>2. HostsOK' /\ Steady /\ UNCHANGED poolVars
  <2>1. CASE HostsSame
    BY <2>1, AtHand, HostsStay DEF HostsSame
  <2>2. CASE PushRig(job[c].m, local)
    BY <2>2, AtHand, PushRigType DEF PushRig, RestOK
  <2> QED
    BY <1>1, <2>1, <2>2
<1>3. PICK r \in Jobs : Moves(c, r) /\ Like(r, job[c]) /\ r.at = "dispatch"
  BY <1>1, AtHand, RunPlaces DEF Running
<1>4. SubTypeOK' /\ Addressed'
  <2>1. PICK e \in Envs : e = task[c].env
    BY AtHand
  <2> QED
    BY <1>1, <1>2, <2>1, AtHand, AskType
<1>5. RestOK' /\ (faults' = 0 => faults = 0)
  BY <1>1, AtHand, RestType
<1> QED
  BY <1>1, <1>2, <1>3, <1>4, <1>5, RunMove DEF Early

LEMMA PollInv ==
    ASSUME EnvInv, NEW c \in Clients, Poll(c)
    PROVE  EnvInv'
<1>1. /\ UNCHANGED <<records, faults>> /\ Quiet /\ RestSame /\ task' = task /\ driver' = driver
      /\ HostsSame /\ task[c].cmd \in Runs /\ job[c].at \in Running
  BY DEF Poll, At, Quiet, RestSame, Running
<1>2. /\ HostsOK' /\ Steady /\ RestOK' /\ SubTypeOK' /\ Addressed'
      /\ (faults' = 0 => faults = 0)
  BY <1>1, AtHand, HostsStay, RestType, PrefectType DEF Quiet, HostsOK, NoFault
<1>3. CASE \E at \in {"exited", "teardown"} :
               Go(c, at) /\ (at = "teardown" => task[c].cmd = "ephemeral")
  <2>1. PICK at \in {"exited", "teardown"} :
               Go(c, at) /\ (at = "teardown" => task[c].cmd = "ephemeral")
    BY <1>3
  <2>2. PICK r \in Jobs : Moves(c, r) /\ Like(r, job[c]) /\ r.at = at
    BY <1>1, <2>1, AtHand, RunPlaces
  <2> QED
    BY <1>1, <1>2, <2>1, <2>2, RunMove DEF Early
<1>4. CASE job' = [job EXCEPT ![c].at = "mirror", ![c].completed = sub[c].run = "completed"]
  <2> DEFINE done == sub[c].run = "completed"
             r == [job[c] EXCEPT !.at = "mirror", !.completed = done]
  <2>1. done \in BOOLEAN
    OBVIOUS
  <2>2. job' = [job EXCEPT ![c] = r]
    BY <1>4
  <2> HIDE DEF done
  <2>3. /\ r \in Jobs
        /\ r.at = "mirror" /\ r.m = job[c].m /\ r.env = job[c].env /\ r.snap = job[c].snap
        /\ r.todo = job[c].todo /\ r.rec = job[c].rec
    BY <2>1, AtHand DEF Jobs, JobPCs
  <2> HIDE DEF r
  <2>4. Moves(c, r) /\ Like(r, job[c])
    BY <1>1, <2>2, <2>3, AtHand DEF Moves, Like, JobOK, Running
  <2> QED
    BY <1>1, <1>2, <2>3, <2>4, RunMove DEF Early
<1>5. \/ Go(c, AfterRun(c, FALSE))
      \/ job' = [job EXCEPT ![c].at = "mirror", ![c].completed = sub[c].run = "completed"]
  BY DEF Poll
<1>6. /\ AfterRun(c, FALSE) \in {"exited", "teardown"}
      /\ AfterRun(c, FALSE) = "teardown" => task[c].cmd = "ephemeral"
  BY <1>1, AfterRunPlaces
<1> QED
  BY <1>3, <1>4, <1>5, <1>6

LEMMA MirrorInv ==
    ASSUME EnvInv, NEW c \in Clients, Mirror(c)
    PROVE  EnvInv'
<1> DEFINE m == job[c].m
           i == task[c].issue
<1>1. /\ UNCHANGED <<records, driver, mine>> /\ PrefectSame /\ task' = task /\ (Fault \/ NoFault)
      /\ task[c].cmd \in Runs /\ job[c].at = "mirror" /\ job[c].at \in Running
      /\ Go(c, "rewrite")
      /\ HostsSame \/ FsDownload(m, i)
      /\ local' = local \/ local' = [local EXCEPT ![i] = Arrives(m, i)]
  BY DEF Mirror, At, Running
<1>2. m \in Machines /\ i \in Issues
  BY <1>1, AtHand, HomesAreMachines DEF JobOK, RecOK, JobsOK, Tasks
<1>3. HostsOK' /\ Steady
  <2>1. CASE HostsSame
    BY <2>1, AtHand, HostsStay
  <2>2. CASE FsDownload(m, i)
    <3> HIDE DEF m, i
    <3> QED
      BY <1>2, <2>2, AtHand, FsDownloadType
  <2> QED
    BY <1>1, <2>1, <2>2
<1>4. RestOK' /\ (faults' = 0 => faults = 0)
  <2>1. Arrives(m, i) \in Contents
    <3> HIDE DEF m, i
    <3> QED
      BY <1>2, AtHand, PackedType DEF Arrives, Contents
  <2> QED
    BY <1>1, <2>1, AtHand, EnvironmentsAssumption DEF RestOK, Fault, NoFault
<1>5. SubTypeOK' /\ Addressed'
  BY <1>1, <1>3, AtHand, PrefectType DEF HostsOK
<1>6. PICK r \in Jobs : Moves(c, r) /\ Like(r, job[c]) /\ r.at = "rewrite"
  BY <1>1, AtHand, RunPlaces DEF Running
<1> QED
  BY <1>1, <1>3, <1>4, <1>5, <1>6, RunMove DEF Early

\* A record replaces one of its environment: the machine is the same, if the name has one.
LEMMA SameRecord ==
    ASSUME JobsOK, RecordsOK, NEW e \in Envs, NEW rec \in Recorded, RecOK(rec, e), rec.driven,
           records' = [records EXCEPT ![e] = rec]
    PROVE  NoneLost
<1>1. records'[e] = rec /\ \A d \in Envs \ {e} : records'[d] = records[d]
  BY DEF RecordsOK
<1>2. ASSUME NEW m \in Provided, ~Excused(m), records[e].m = m PROVE rec.m = m
  <2>1. m \in Homes(e) /\ rec.m \in Homes(e)
    BY <1>2, KnowsHome DEF Knows, Provided, RecOK
  <2> QED
    BY <1>2, <2>1, NotExcused, OneHome
<1> QED
  BY <1>1, <1>2 DEF NoneLost

LEMMA RewriteInv ==
    ASSUME EnvInv, NEW c \in Clients, Rewrite(c)
    PROVE  EnvInv'
<1> DEFINE e == task[c].env
           rec == job[c].rec
           at == AfterRun(c, job[c].completed)
<1>1. /\ HostsSame /\ Quiet /\ NoFault /\ task' = task /\ driver' = driver /\ RestSame
      /\ task[c].cmd \in Runs /\ job[c].at = "rewrite" /\ job[c].at \in Running
      /\ records' = [records EXCEPT ![e] = rec] /\ Go(c, at)
  BY DEF Rewrite, At, Quiet, RestSame, NoFault, Running
<1>2. /\ e \in Envs /\ job[c].env = e /\ rec \in Recorded /\ RecOK(rec, e) /\ rec.driven
      /\ rec.there /\ job[c].at \notin Early
  BY <1>1, AtHand DEF JobOK, Jobs, RecOK, Runs, Early
<1>3. at \in {"exited", "teardown"} /\ (at = "teardown" => task[c].cmd = "ephemeral")
  BY <1>1, AfterRunPlaces
<1>4. PICK r \in Jobs : Moves(c, r) /\ Like(r, job[c]) /\ r.at = at
  BY <1>1, <1>3, AtHand, RunPlaces
<1>5. job'[c] = r
  BY <1>4, AtHand, MovesType
<1>6. HostsOK' /\ Steady /\ UNCHANGED machine
  BY <1>1, AtHand, HostsStay DEF HostsSame, hostVars
<1>7. SubTypeOK' /\ Addressed' /\ RestOK' /\ (faults' = 0 => faults = 0)
  BY <1>1, <1>6, AtHand, PrefectType, RestType DEF Quiet, HostsOK
<1>8. RecordsOK' /\ records'[e] = rec /\ \A d \in Envs \ {e} : records'[d] = records[d]
  BY <1>1, <1>2, AtHand, RecordsSet
<1>9. Copying
  <2>1. \A d \in Envs, m \in Machines : records'[d].m = m => Knows(d, m)
    BY <1>2, <1>8 DEF Knows
  <2>2. at \notin Early
    BY <1>3 DEF Early
  <2> QED
    BY <1>4, <1>6, <2>1, <2>2, AtHand, LikeCopies
<1>10. ASSUME faults' = 0 PROVE faults = 0 /\ CalmMove(c)
  <2>1. Calm /\ faults = 0
    BY <1>7, <1>10 DEF EnvInv
  <2>2. RecordsCalm'
    BY <1>2, <1>8, <2>1 DEF Calm, RecordsCalm
  <2>3. NoneLost
    BY <1>1, <1>2, AtHand, SameRecord
  <2>4. Sure(c, r)
    BY <1>3, <1>4, <2>1 DEF Calm, Sure, Like
  <2> QED
    BY <1>1, <1>2, <1>3, <1>4, <1>5, <2>1, <2>2, <2>3, <2>4 DEF CalmMove
<1> QED
  BY <1>4, <1>6, <1>7, <1>8, <1>9, <1>10, SteadyMove

-----------------------------------------------------------------------------
(* Steps in which no command moves.                                        *)

LEMMA SubmittingInv ==
    ASSUME EnvInv, NEW c \in Clients, Submitting(c)
    PROVE  EnvInv'
<1>1. /\ SubSteps(c) /\ UNCHANGED <<job, records, hostVars, faults>> /\ RestSame
      /\ UNCHANGED <<task, machine, driver>>
  BY DEF Submitting, SubSteps, RestSame, hostVars
<1>2. SubTypeOK' /\ Addressed' /\ WorkersKept
  BY <1>1, AtHand, SubStepType
<1>3. HostsOK' /\ Steady
  BY <1>1, <1>2, AtHand, HostsKept DEF SubTypeOK
<1>4. RestOK'
  BY <1>1, AtHand, RestType DEF NoFault
<1> QED
  BY <1>1, <1>2, <1>3, <1>4, SteadyStill

LEMMA ClaimedInv ==
    ASSUME EnvInv, NEW c \in Clients, Claimed(c)
    PROVE  EnvInv'
<1>1. /\ UNCHANGED <<catalog, deployed, refusals, job, records, faults>> /\ HostsSame /\ RestSame
      /\ UNCHANGED <<task, machine, driver, poolVars>>
  BY DEF Claimed, RestSame, HostsSame, hostVars
<1>2. PICK x \in Places : sub' = [sub EXCEPT ![c].run = "running", ![c].place = x]
  BY DEF Claimed
<1>3. sub' = [sub EXCEPT ![c] = [sub[c] EXCEPT !.run = "running", !.place = x]]
  BY <1>2, AtHand DEF SubTypeOK
<1>4. SubTypeOK' /\ Addressed'
  <2>1. "running" \in RunStates
    BY DEF RunStates
  <2> QED
    BY <1>1, <1>3, <2>1, AtHand, RunType
<1>5. HostsOK' /\ Steady /\ RestOK'
  BY <1>1, AtHand, HostsStay, RestType DEF NoFault
<1> QED
  BY <1>1, <1>4, <1>5, SteadyStill

LEMMA FlowEndsInv ==
    ASSUME EnvInv, NEW c \in Clients, FlowEnds(c)
    PROVE  EnvInv'
<1>1. /\ UNCHANGED <<catalog, deployed, refusals, job, records, faults, poolVars, machine, armed,
                     tgz, task, driver, mine>>
  BY DEF FlowEnds
<1>2. PICK end \in {"completed", "failed"} : sub' = [sub EXCEPT ![c].run = end]
  BY DEF FlowEnds
<1>3. SubTypeOK' /\ Addressed'
  <2> DEFINE x == sub[c].place
  <2>1. sub[c] \in Subs /\ sub \in [Clients -> Subs]
    BY AtHand DEF SubTypeOK
  <2>2. x \in Places /\ end \in RunStates
    BY <2>1 DEF Subs, RunStates
  <2>3. sub' = [sub EXCEPT ![c] = [sub[c] EXCEPT !.run = end, !.place = x]]
    BY <1>2, <2>1 DEF Subs
  <2> HIDE DEF x
  <2> QED
    BY <1>1, <2>2, <2>3, AtHand, RunType
<1>4. local' \in [Issues -> Contents] /\ dirs' \in [Machines -> [Issues -> Contents]]
  <2> DEFINE i == task[c].issue
  <2>1. /\ i \in Issues /\ i \in Contents
        /\ local \in [Issues -> Contents] /\ dirs \in [Machines -> [Issues -> Contents]]
    BY AtHand DEF Tasks, Contents, RestOK, HostsOK, HostTypeOK
  <2>2. CASE UNCHANGED <<dirs, local>>
    BY <2>1, <2>2
  <2>3. CASE local' = [local EXCEPT ![i] = i] /\ UNCHANGED dirs
    BY <2>1, <2>3
  <2>4. CASE dirs' = [dirs EXCEPT ![sub[c].place][i] = i] /\ UNCHANGED local
    <3> DEFINE x == sub[c].place
    <3> HIDE DEF i, x
    <3>1. dirs' = [dirs EXCEPT ![x][i] = i]
      BY <2>4 DEF x
    <3>2. CASE x \in Machines
      <4>1. dirs' = [dirs EXCEPT ![x] = [dirs[x] EXCEPT ![i] = i]]
        BY <3>1
      <4>2. [dirs[x] EXCEPT ![i] = i] \in [Issues -> Contents]
        BY <2>1, <3>2
      <4> QED
        BY <2>1, <2>4, <3>2, <4>1, <4>2
    <3>3. CASE x \notin Machines
      <4>1. dirs' = dirs
        BY <2>1, <3>1, <3>3
      <4> QED
        BY <2>1, <2>4, <4>1
    <3> QED
      BY <3>2, <3>3
  <2>5. \/ UNCHANGED <<dirs, local>>
        \/ local' = [local EXCEPT ![i] = i] /\ UNCHANGED dirs
        \/ dirs' = [dirs EXCEPT ![sub[c].place][i] = i] /\ UNCHANGED local
    BY DEF FlowEnds
  <2> QED
    BY <2>2, <2>3, <2>4, <2>5
<1>5. HostsOK' /\ Steady
  <2>1. tgz' \in [Machines -> Contents]
    BY <1>1, AtHand DEF HostsOK, HostTypeOK
  <2> QED
    BY <1>1, <1>4, <2>1, AtHand, FilesType
<1>6. RestOK'
  BY <1>1, <1>4, AtHand DEF RestOK
<1> QED
  BY <1>1, <1>3, <1>5, <1>6, SteadyStill

\* Nobody in particular does these.
LEMMA Around ==
    ASSUME EnvInv
    PROVE  SubTypeOK /\ Addressed /\ HostsOK /\ JobsOK /\ RecordsOK /\ RestOK
BY DEF EnvInv, TypeInv, HostsOK, SubTypeOK

LEMMA PackRemovedInv ==
    ASSUME EnvInv, PackRemoved
    PROVE  EnvInv'
<1>1. /\ HostsSame /\ PrefectSame /\ UNCHANGED <<task, mine, local, job, records, machine>>
      /\ driver' = FALSE /\ Fault
  BY DEF PackRemoved, HostsSame, hostVars
<1>2. HostsOK' /\ Steady
  BY <1>1, Around, HostsStay
<1>3. SubTypeOK' /\ Addressed'
  BY <1>1, <1>2, Around, PrefectType DEF HostsOK
<1>4. RestOK' /\ faults' # 0
  <2>1. driver' \in BOOLEAN
    BY <1>1
  <2> QED
    BY <1>1, <2>1, Around, EnvironmentsAssumption DEF RestOK, Fault
<1> QED
  BY <1>1, <1>2, <1>3, <1>4, SteadyStill

LEMMA IdentityEditedInv ==
    ASSUME EnvInv, IdentityEdited
    PROVE  EnvInv'
<1>1. /\ HostsSame /\ PrefectSame
      /\ UNCHANGED <<task, driver, local, job, records, faults, machine>> /\ mine' = 2
  BY DEF IdentityEdited, HostsSame, hostVars
<1>2. HostsOK' /\ Steady
  BY <1>1, Around, HostsStay
<1>3. SubTypeOK' /\ Addressed'
  BY <1>1, <1>2, Around, PrefectType DEF HostsOK
<1>4. RestOK'
  BY <1>1, Around DEF RestOK
<1> QED
  BY <1>1, <1>2, <1>3, <1>4, SteadyStill

LEMMA ServerInv ==
    ASSUME EnvInv, Server
    PROVE  EnvInv'
<1>1. /\ UNCHANGED <<catalog, deployed, sub, refusals, job, records, faults, hostVars>> /\ RestSame
      /\ UNCHANGED <<task, driver, machine>> /\ PrefectSame /\ PoolNext
  BY DEF Server, RestSame, hostVars, PrefectSame
<1>2. PoolTypeOK' /\ WorkersKept
  <2>1. PICK p \in Pools, x \in Places : Heartbeat(p, x) \/ GoesOffline(p, x)
    BY <1>1 DEF PoolNext
  <2>2. /\ procs' = procs
        /\ \/ known' = [known EXCEPT ![p][x] = "online"]
           \/ known' = [known EXCEPT ![p][x] = "offline"]
    BY <2>1 DEF Heartbeat, GoesOffline
  <2>3. known' \in [Pools -> [Places -> {"unknown", "online", "offline"}]]
    <3>1. known \in [Pools -> [Places -> {"unknown", "online", "offline"}]]
      BY Around DEF HostsOK, PoolTypeOK
    <3>2. ASSUME NEW status \in {"online", "offline"}, known' = [known EXCEPT ![p][x] = status]
          PROVE  known' \in [Pools -> [Places -> {"unknown", "online", "offline"}]]
      BY <3>1, <3>2
    <3> QED
      BY <2>2, <3>2
  <2> QED
    BY <2>2, <2>3, Around DEF HostsOK, PoolTypeOK, WorkersKept
<1>3. HostsOK' /\ Steady
  BY <1>1, <1>2, Around, HostsKept
<1>4. SubTypeOK' /\ Addressed' /\ RestOK'
  BY <1>1, <1>2, Around, PrefectType, RestType DEF NoFault
<1> QED
  BY <1>1, <1>3, <1>4, SteadyStill

-----------------------------------------------------------------------------
(* Machines end.                                                           *)

\* Whoever ends a machine knows it, or has put it up and is done with that.
MayEnd(c, m) ==
    \/ \E e \in Envs : Knows(e, m)
    \/ Maker(c) /\ job[c].m = m /\ job[c].at \notin Early

\* So nobody is still putting it up, if its name or it is one process's only.
LEMMA NotBuilt ==
    ASSUME EnvInv, NEW c \in Clients, NEW m \in Machines, MayEnd(c, m),
           NEW d \in Clients, Maker(d), job[d].at \in Early, job[d].m = m,
           (m \in Provided /\ ~Excused(m)) \/ Alone(task[d].env, m)
    PROVE  FALSE
<1> DEFINE e == task[d].env
<1>1. e \in Envs /\ m \in Homes(e)
  BY AtHand DEF JobOK, Maker, Makes
<1>2. ~Rivals(e, Makes)
  BY <1>1, NotExcused DEF Alone
<1>3. ~Knows(e, m)
  BY <1>1, <1>2 DEF EnvInv, RefInv, Unwritten
<1>4. CASE \E x \in Envs : Knows(x, m)
  <2>1. PICK x \in Envs : Knows(x, m)
    BY <1>4
  <2>2. m \in Homes(x)
    BY <2>1, AtHand, KnowsHome
  <2>3. CASE Alone(e, m)
    BY <1>3, <2>1, <2>2, <2>3 DEF Alone
  <2>4. CASE m \in Provided /\ ~Excused(m)
    <3>1. PICK y \in Clients : Maker(y) /\ task[y].env = x /\ job[y].m = m
      BY <2>1, <2>4 DEF EnvInv, RefInv, Made, MadeBy
    <3>2. y = d
      BY <2>4, <3>1 DEF EnvInv, RefInv, MadeOnce
    <3> QED
      BY <1>3, <2>1, <3>1, <3>2
  <2> QED
    BY <2>3, <2>4
<1>5. CASE Maker(c) /\ job[c].m = m /\ job[c].at \notin Early
  <2>1. c # d
    BY <1>5
  <2>2. CASE m \in Provided /\ ~Excused(m)
    BY <1>5, <2>1, <2>2 DEF EnvInv, RefInv, MadeOnce
  <2>3. CASE Alone(e, m)
    <3>1. job[c].env = task[c].env /\ m \in Homes(task[c].env) /\ task[c].env \in Envs
      BY <1>5, AtHand DEF JobOK, Maker, Makes
    <3>2. task[c].env = e
      BY <2>3, <3>1 DEF Alone
    <3> QED
      BY <1>2, <1>5, <2>1, <3>2 DEF Rivals, Maker
  <2> QED
    BY <2>2, <2>3
<1> QED
  BY <1>4, <1>5 DEF MayEnd

LEMMA TornDownNow ==
    ASSUME JobsOK, task' = task, NEW c \in Clients, NEW e \in Envs, job'[c].env = e,
           NEW m \in Homes(e), m \in Provided => machine'[m].state = "destroyed"
    PROVE  TornDown(c)'
<1>1. Homes(e)' = Homes(e) /\ (Rivals(e, Makes)' <=> Rivals(e, Makes))
  BY StaticTasks
<1>2. Homes(job[c].env)' = Homes(e) /\ (Rivals(job[c].env, Makes)' <=> Rivals(e, Makes))
  BY <1>1
<1>3. ~Rivals(e, Makes) => \A n \in Homes(e) : n = m
  BY OneHome
<1> QED
  BY <1>2, <1>3 DEF TornDown, Provided

LEMMA EndsInv ==
    ASSUME EnvInv, NEW c \in Clients, NEW r, Moves(c, r), Like(r, job[c]),
           NEW m \in Machines, Reachable(m) \/ machine[m].state = "suspended", MayEnd(c, m),
           Teardown(m) \/ (Suspend(m) /\ CanSuspend(m) /\ Reachable(m)),
           NoFault, Quiet, UNCHANGED records,
           Maker(c) => job[c].at \notin Early, r.at \in {"delete", "exited"},
           r.at = "delete" /\ Calm => TornDown(c)'
    PROVE  EnvInv'
<1>1. /\ HostsOK' /\ NoReturn /\ armed' = armed
      /\ \A n \in Machines \ {m} : machine'[n] = machine[n]
      /\ machine'[m].prefect = machine[m].prefect
      /\ \A p \in Pools : procs'[p][m] = 0
      /\ \A p \in Pools, n \in Machines \ {m} : procs'[p][n] = procs[p][n]
      /\ m \in Provided => machine'[m].state # "on"
  BY AtHand, EndsType
<1>2. /\ JobsOK' /\ job'[c] = r /\ \A d \in Clients \ {c} : job'[d] = job[d]
      /\ task' = task /\ driver' = driver /\ faults' = faults
  BY AtHand, MovesType DEF Quiet, RestSame, NoFault
<1>3. TypeInv'
  <2>1. SubTypeOK' /\ Addressed' /\ RestOK'
    BY AtHand, <1>1, PrefectType, RestType DEF Quiet, HostsOK
  <2> QED
    BY AtHand, <1>1, <1>2, <2>1, RecordsKept DEF TypeInv, HostsOK
<1>4. RefInv' /\ EarlyKept
  <2>1. Copying
    BY <1>1, AtHand, LikeCopies DEF Knows, Early, NoReturn
  <2> QED
    BY <2>1, <1>2, AtHand, CopyingRefs DEF EnvInv, EarlyKept, Copying
<1>5. Building'
  <2>1. ASSUME NEW d \in Clients, Maker(d), job'[d].at \in Early, job'[d].m \in Provided,
               ~Excused(job'[d].m)
        PROVE  machine'[job'[d].m].state \in {"on", "destroyed"}
    <3>1. job[d].at \in Early /\ job'[d].m = job[d].m
      BY <1>4, <2>1 DEF EarlyKept
    <3>2. job[d].m # m
      BY <2>1, <3>1, NotBuilt
    <3> QED
      BY <1>1, <2>1, <3>1, <3>2 DEF EnvInv, Building, Provided
  <2>2. \A d : Excused(job[d].m)' <=> Excused(job'[d].m)
    BY <1>2 DEF Excused, Homes, Rivals
  <2> QED
    BY <1>2, <2>1, <2>2, StaticTasks DEF Building, Provided
<1>6. ASSUME faults' = 0 PROVE Calm'
  <2>1. Calm
    BY <1>2, <1>6 DEF EnvInv
  <2>2. driver' /\ RecordsCalm'
    BY <1>2, <2>1 DEF Calm, RecordsCalm
  <2>3. \A d \in Clients : Sure(d, job'[d])
    BY <1>2, <2>1 DEF Calm, Sure, Like
  <2>4. \A d \in Clients : Sure(d, job[d])'
    BY <1>2, <2>3, SureKept
  <2>5. \A d \in Clients : TornDown(d)'
    BY <1>1, <1>2, <2>1, AtHand, TornDownKept DEF Calm
  <2>6. ASSUME NEW d \in Clients PROVE Supplied(d)'
    <3>1. CASE d = c \/ job[d].at # "worker"
      BY <1>2, <3>1 DEF Supplied
    <3>2. CASE d # c /\ job[d].at = "worker" /\ job[d].m # m
      BY <1>1, <1>2, <2>1, <3>2, SuppliedKept DEF Calm
    <3>3. CASE d # c /\ job[d].at = "worker" /\ job[d].m = m
      <4>1. job'[d].m = m
        BY <1>2, <3>3
      <4>2. CASE Maker(d)
        <5>1. ~Alone(task[d].env, m)
          BY <3>3, <4>2, NotBuilt DEF Early
        <5>2. ~Alone(task[d].env, job[d].m)'
          BY <1>2, <3>3, <4>1, <5>1, StaticAlone
        <5> QED
          BY <5>2 DEF Supplied
      <4>3. CASE task[d].cmd = "start"
        <5>1. m \in Provided
          BY <3>3, <4>3, AtHand DEF JobOK, CanSuspend, Provided
        <5> QED
          BY <1>1, <4>1, <5>1 DEF Supplied, Reachable
      <4>4. CASE task[d].cmd \notin Makes \cup {"start"}
        BY <1>2, <4>4 DEF Supplied
      <4> QED
        BY <4>2, <4>3, <4>4 DEF Maker
    <3> QED
      BY <3>1, <3>2, <3>3
  <2>7. Findable'
    <3>1. \A n \in Provided : There(n)' => There(n)
      BY <1>1 DEF There, Provided, Reachable
    <3>2. \A n \in Provided : StartRaises(n) => StartRaises(n)'
      BY <1>1 DEF StartRaises, Provided
    <3>3. NoneLost
      BY DEF NoneLost
    <3>4. NoneLeft
      BY <1>2 DEF NoneLeft
    <3> QED
      BY <1>2, <2>1, <3>1, <3>2, <3>3, <3>4, FindableKept DEF Calm
  <2>8. Armed'
    <3>1. \A d \in Envs, n \in Machines : procs'[d][n] > 0 => procs[d][n] > 0
      BY <1>1, EnvironmentsAssumption
    <3> QED
      BY <1>1, <1>2, <2>1, <3>1, AtHand, ArmedKept DEF Calm
  <2> QED
    BY <2>2, <2>4, <2>5, <2>6, <2>7, <2>8 DEF Calm
<1> QED
  BY <1>3, <1>4, <1>5, <1>6 DEF EnvInv

LEMMA TearDownInv ==
    ASSUME EnvInv, NEW c \in Clients, TearDown(c)
    PROVE  EnvInv'
<1> DEFINE m == job[c].m
           e == job[c].env
<1>1. /\ job[c].at = "teardown" /\ Go(c, "delete") /\ UNCHANGED records /\ Quiet
      /\ task' = task /\ "delete" \notin Early /\ job[c].at \notin Early
  BY DEF TearDown, Quiet, RestSame, Early
<1>2. PICK r \in Jobs : Moves(c, r) /\ Like(r, job[c]) /\ r.at = "delete"
  BY <1>1, AtHand, GoMoves DEF Running, JobPCs
<1>3. e \in Envs /\ job'[c].env = e /\ m \in Homes(e) \cup {NoMachine}
      /\ Homes(e) \subseteq Machines
  BY <1>2, AtHand, MovesType, HomesAreMachines DEF Like, JobOK, Jobs, JobsOK
<1>4. CASE /\ m # NoMachine
           /\ Reachable(m) \/ machine[m].state = "suspended"
           /\ Teardown(m) /\ NoFault
  <2>1. m \in Machines /\ m \in Homes(e)
    BY <1>3, <1>4
  <2>2. m \in Provided => machine'[m].state = "destroyed"
    <3> HIDE DEF m
    <3> QED
      BY <1>4, <2>1, AtHand, EndsType
  <2>3. TornDown(c)'
    BY <1>1, <1>3, <2>1, <2>2, AtHand, TornDownNow
  <2>4. MayEnd(c, m)
    BY <1>1, <1>3 DEF MayEnd, Knows
  <2> HIDE DEF m
  <2> QED
    BY <1>1, <1>2, <1>4, <2>1, <2>3, <2>4, EndsInv
<1>5. CASE /\ \/ m = NoMachine
              \/ task[c].cmd # "ephemeral" /\ ~Usable(job[c].rec)
              \/ m # NoMachine /\ machine[m].state = "destroyed"
           /\ HostsSame /\ NoFault
  <2>1. HostsOK' /\ Steady
    BY <1>5, AtHand, HostsStay
  <2>2. ASSUME Calm PROVE TornDown(c)'
    <3>1. m # NoMachine
      <4>1. CASE task[c].cmd = "ephemeral"
        BY <1>1, <4>1, AtHand DEF Maker, Makes
      <4>2. CASE task[c].cmd # "ephemeral"
        <5>1. job[c].rec.driven /\ m = job[c].rec.m
          BY <1>1, <2>2, <4>2 DEF Calm, Sure
        <5>2. RecOK(job[c].rec, e)
          BY AtHand DEF JobOK
        <5> QED
          BY <1>3, <5>1, <5>2, AtHand DEF RecOK
      <4> QED
        BY <4>1, <4>2
    <3>2. task[c].cmd # "ephemeral" => Usable(job[c].rec)
      BY <1>1, <2>2 DEF Calm, Sure, Usable
    <3>3. m \in Homes(e) /\ m \in Machines /\ machine[m].state = "destroyed"
      BY <1>3, <1>5, <3>1, <3>2
    <3>4. machine'[m].state = "destroyed"
      BY <2>1, <3>3 DEF Steady
    <3> QED
      BY <1>1, <1>3, <3>3, <3>4, AtHand, TornDownNow
  <2> QED
    BY <1>1, <1>2, <1>5, <2>1, <2>2, QuietMove
<1>6. CASE HostsSame /\ Fault
  <2>1. HostsOK' /\ Steady
    BY <1>6, AtHand, HostsStay
  <2>2. ~NoFault
    BY <1>6, AtHand DEF RestOK, Fault, NoFault
  <2> QED
    BY <1>1, <1>2, <1>6, <2>1, <2>2, QuietMove
<1> QED
  BY <1>4, <1>5, <1>6 DEF TearDown

\* The record of a machine that is gone goes.
LEMMA DeleteInv ==
    ASSUME EnvInv, NEW c \in Clients, Delete(c)
    PROVE  EnvInv'
<1> DEFINE e == job[c].env
           at == IF task[c].cmd = "reap" THEN "reap" ELSE "exited"
<1>1. /\ job[c].at = "delete" /\ Go(c, at) /\ HostsSame /\ Quiet /\ NoFault
      /\ records' = [records EXCEPT ![e] = NoRecord]
      /\ task' = task /\ driver' = driver /\ RestSame
  BY DEF Delete, Quiet, RestSame, NoFault
<1>2. e \in Envs /\ NoRecord \in Recorded /\ RecOK(NoRecord, e) /\ ~NoRecord.there
      /\ NoRecord.m = NoMachine
  BY AtHand DEF Jobs, NoRecord, Recorded, RecOK
<1>3. PICK r \in Jobs : Moves(c, r) /\ Like(r, job[c]) /\ r.at = at
  BY <1>1, AtHand, GoMoves DEF Running, JobPCs
<1>4. job'[c] = r /\ at \notin Early /\ at \notin {"teardown", "delete", "worker"}
      /\ job[c].at \notin Early
  BY <1>1, <1>3, AtHand, MovesType DEF Early
<1>5. HostsOK' /\ Steady /\ UNCHANGED machine
  BY <1>1, AtHand, HostsStay DEF HostsSame, hostVars
<1>6. SubTypeOK' /\ Addressed' /\ RestOK' /\ (faults' = 0 => faults = 0)
  BY <1>1, <1>5, AtHand, PrefectType, RestType DEF Quiet, HostsOK
<1>7. RecordsOK' /\ records'[e] = NoRecord /\ \A d \in Envs \ {e} : records'[d] = records[d]
  BY <1>1, <1>2, AtHand, RecordsSet
<1>8. Copying
  <2>1. \A d \in Envs, m \in Machines : records'[d].m = m => Knows(d, m)
    BY <1>2, <1>7, AtHand DEF Knows
  <2> QED
    BY <1>3, <1>4, <1>5, <2>1, AtHand, LikeCopies
<1>9. ASSUME faults' = 0 PROVE faults = 0 /\ CalmMove(c)
  <2>1. Calm /\ faults = 0
    BY <1>6, <1>9 DEF EnvInv
  <2>2. RecordsCalm'
    BY <1>2, <1>7, <2>1 DEF Calm, RecordsCalm
  <2>3. ASSUME NEW m \in Provided, ~Excused(m), There(m), records[e].m = m PROVE FALSE
    <3>1. m \in Homes(e)
      BY <1>2, <2>3, AtHand, KnowsHome DEF Knows, Provided
    <3>2. ~Rivals(e, Makes)
      BY <1>2, <2>3, <3>1, NotExcused
    <3>3. machine[m].state = "destroyed"
      BY <1>1, <2>1, <2>3, <3>1, <3>2 DEF Calm, TornDown
    <3> QED
      BY <2>3, <3>3 DEF There
  <2>4. NoneLost
    BY <1>7, <2>3 DEF NoneLost
  <2>5. Sure(c, r)
    BY <1>3, <1>4, <2>1 DEF Calm, Sure, Like
  <2> QED
    BY <1>1, <1>3, <1>4, <2>1, <2>2, <2>4, <2>5 DEF CalmMove
<1> QED
  BY <1>3, <1>5, <1>6, <1>7, <1>8, <1>9, SteadyMove

\* A command is killed; what it was writing has no driver.
LEMMA KilledInv ==
    ASSUME EnvInv, NEW c \in Clients, Killed(c)
    PROVE  EnvInv'
<1> DEFINE e == task[c].env
           torn == [NoRecord EXCEPT !.there = TRUE]
<1>1. /\ job[c].at \notin {"begin", "exited"} /\ Go(c, "dead") /\ Fault /\ HostsSame /\ Quiet
      /\ records' = records \/ records' = [records EXCEPT ![e] = torn]
      /\ task' = task
  BY DEF Killed, Quiet, RestSame
<1>2. e \in Envs /\ torn \in Recorded /\ RecOK(torn, e) /\ torn.m = NoMachine
  BY AtHand DEF NoRecord, Recorded, RecOK
<1> HIDE DEF torn
<1>3. PICK r \in Jobs : Moves(c, r) /\ Like(r, job[c]) /\ r.at = "dead"
  BY <1>1, AtHand, GoMoves DEF Running, JobPCs
<1>4. HostsOK' /\ Steady /\ UNCHANGED machine
  BY <1>1, AtHand, HostsStay DEF HostsSame, hostVars
<1>5. SubTypeOK' /\ Addressed' /\ RestOK' /\ faults' # 0
  BY <1>1, <1>4, AtHand, PrefectType, RestType DEF Quiet, HostsOK
<1>6. RecordsOK'
  <2>1. CASE records' = records
    BY <1>1, <2>1, AtHand, RecordsKept
  <2>2. CASE records' = [records EXCEPT ![e] = torn]
    BY <1>1, <1>2, <2>2, AtHand, RecordsSet
  <2> QED
    BY <1>1, <2>1, <2>2
<1>7. Copying
  <2>1. \A d \in Envs, m \in Machines : records'[d].m = m => Knows(d, m)
    BY <1>1, <1>2, AtHand DEF Knows, RecordsOK
  <2> QED
    BY <1>3, <1>4, <2>1, AtHand, LikeCopies DEF Early
<1> QED
  BY <1>3, <1>4, <1>5, <1>6, <1>7, SteadyMove

-----------------------------------------------------------------------------
(* `po env stop`, `start` and `sync-packs`.                                *)

\* A usable record is of a machine of its environment.
LEMMA RecordUsed ==
    ASSUME EnvInv, NEW c \in Clients, Usable(records[task[c].env])
    PROVE  /\ records[task[c].env].m \in Homes(task[c].env)
           /\ records[task[c].env].m \in Machines
           /\ Knows(task[c].env, records[task[c].env].m)
BY AtHand, HomesAreMachines DEF Usable, RecordsOK, RecOK, Knows, JobsOK

\* Such a command exits before it has done anything.
LEMMA ExitsInv ==
    ASSUME EnvInv, NEW c \in Clients, job[c].at = "begin", Go(c, "exited"), ~Maker(c),
           HostsSame, Quiet, UNCHANGED records, Fault \/ NoFault
    PROVE  EnvInv'
<1>1. task' = task
  BY DEF Quiet, RestSame
<1>2. PICK r \in Jobs : Moves(c, r) /\ Like(r, job[c]) /\ r.at = "exited"
  BY <1>1, AtHand, GoMoves DEF Running, JobPCs
<1>3. HostsOK' /\ Steady
  BY AtHand, HostsStay
<1> QED
  BY <1>2, <1>3, QuietMove DEF Early

LEMMA StopInv ==
    ASSUME EnvInv, NEW c \in Clients, Stop(c)
    PROVE  EnvInv'
<1> DEFINE rec == records[task[c].env]
           m == rec.m
<1>1. /\ job[c].at = "begin" /\ Go(c, "exited") /\ ~Maker(c) /\ Quiet /\ NoFault
      /\ UNCHANGED records /\ task' = task
  BY DEF Stop, Reads, At, Exit, Maker, Makes, Quiet, RestSame, NoFault
<1>2. CASE HostsSame
  BY <1>1, <1>2, ExitsInv
<1>3. CASE Usable(rec) /\ CanSuspend(m) /\ Reachable(m) /\ Suspend(m)
  <2>1. m \in Machines /\ MayEnd(c, m)
    BY <1>3, AtHand, RecordUsed DEF MayEnd
  <2>2. PICK r \in Jobs : Moves(c, r) /\ Like(r, job[c]) /\ r.at = "exited"
    BY <1>1, AtHand, GoMoves DEF Running, JobPCs
  <2> HIDE DEF m
  <2> QED
    BY <1>1, <1>3, <2>1, <2>2, EndsInv
<1> QED
  BY <1>2, <1>3 DEF Stop

\* A machine that goes on is in a record: nobody else starts a worker there but one who
\* starts the environment, too.
LEMMA ResumedInv ==
    ASSUME EnvInv, NEW c \in Clients, task[c].cmd = "start", job[c].at = "begin",
           Usable(records[task[c].env]), CanSuspend(records[task[c].env].m),
           machine[records[task[c].env].m].state # "destroyed",
           Resume(records[task[c].env].m),
           job' = [job EXCEPT ![c].at = "creds", ![c].m = records[task[c].env].m],
           Quiet, NoFault, UNCHANGED records
    PROVE  EnvInv'
<1> DEFINE e == task[c].env
           m == records[e].m
<1>1. /\ e \in Envs /\ m \in Machines /\ m \in Homes(e) /\ Knows(e, m) /\ ~Maker(c)
      /\ job[c].env = e /\ m \in Provided /\ CanSuspend(m) /\ machine[m].state # "destroyed"
      /\ task' = task /\ driver' = driver /\ faults' = faults
  BY AtHand, RecordUsed
     DEF JobOK, Maker, Makes, Quiet, RestSame, NoFault, CanSuspend, Provided
<1>2. /\ HostsOK' /\ WorkersKept /\ NoReturn /\ armed' = armed
      /\ \A n \in Machines : /\ n # m => machine'[n].state = machine[n].state
                             /\ machine'[n].prefect = machine[n].prefect
                             /\ machine'[n].secrets = machine[n].secrets
      /\ machine'[m].state = "on"
  <2>1. HostsOK /\ m \in Machines /\ machine[m].state # "destroyed" /\ Resume(m)
    BY <1>1, AtHand
  <2> HIDE DEF m
  <2> QED
    BY <2>1, ResumeType
<1> DEFINE r == [job[c] EXCEPT !.at = "creds", !.m = m]
<1>3. /\ r \in Jobs /\ job' = [job EXCEPT ![c] = r]
      /\ r.at = "creds" /\ r.rec = job[c].rec /\ r.m = m /\ r.env = job[c].env
      /\ r.snap = job[c].snap /\ r.todo = job[c].todo
  BY <1>1, AtHand DEF Jobs, JobPCs
<1> HIDE DEF r, m
<1>4. Moves(c, r)
  BY <1>1, <1>3, AtHand DEF Moves, JobOK, Running
<1>5. /\ JobsOK' /\ job'[c] = r /\ \A d \in Clients \ {c} : job'[d] = job[d]
  BY <1>4, AtHand, MovesType
<1>6. TypeInv'
  <2>1. SubTypeOK' /\ Addressed' /\ RestOK'
    BY AtHand, <1>2, PrefectType, RestType DEF Quiet, HostsOK
  <2> QED
    BY AtHand, <1>1, <1>2, <1>5, <2>1, RecordsKept DEF TypeInv, HostsOK
<1>7. RefInv' /\ EarlyKept
  <2>1. ASSUME NEW d \in Envs, NEW n \in Machines, Knows(d, n)' PROVE Knows(d, n)
    <3>1. \A x \in Clients : /\ job'[x].env = job[x].env /\ job'[x].rec = job[x].rec
                             /\ job'[x].snap = job[x].snap
                             /\ job'[x].m = job[x].m \/ (job'[x].env = e /\ job'[x].m = m)
      BY <1>1, <1>3, <1>5
    <3>2. CASE \E x \in Clients : /\ job'[x].env = d /\ ~Maker(x)' /\ job'[x].m = n
                                  /\ job'[x].m # job[x].m
      BY <1>1, <3>1, <3>2
    <3>3. CASE \/ records'[d].m = n
               \/ \E x \in Clients : job'[x].snap[d].m = n
               \/ \E x \in Clients : /\ job'[x].env = d
                                     /\ \/ job'[x].rec.m = n
                                        \/ ~Maker(x) /\ job[x].m = n
      BY <3>1, <3>3 DEF Knows
    <3> QED
      BY <1>1, <2>1, <3>2, <3>3, StaticTasks DEF Knows
  <2>2. Copying
    BY <1>1, <1>2, <1>5, <2>1 DEF Copying, NoReturn
  <2> QED
    BY <2>2, <1>5, AtHand, CopyingRefs DEF EnvInv, EarlyKept, Copying
<1>8. Building'
  BY <1>1, <1>2, <1>7, BuildingKept DEF EnvInv, Provided
<1>9. ASSUME faults' = 0 PROVE Calm'
  <2>1. Calm
    BY <1>1, <1>9 DEF EnvInv
  <2>2. driver' /\ RecordsCalm'
    BY <1>1, <2>1 DEF Calm, RecordsCalm
  <2>3. \A d \in Clients : Sure(d, job'[d])
    <3>1. Sure(c, r)
      BY <1>3, <2>1 DEF Calm, Sure
    <3> QED
      BY <1>5, <2>1, <3>1 DEF Calm
  <2>4. \A d \in Clients : Sure(d, job[d])'
    BY <1>1, <2>3, SureKept
  <2>5. \A d \in Clients : TornDown(d)'
    BY <1>1, <1>2, <1>3, <1>5, <2>1, AtHand, TornDownKept DEF Calm
  <2>6. ASSUME NEW d \in Clients PROVE Supplied(d)'
    <3>1. CASE d = c \/ job[d].at # "worker"
      BY <1>3, <1>5, <3>1 DEF Supplied
    <3>2. CASE d # c /\ job[d].at = "worker" /\ job[d].m # m
      BY <1>1, <1>2, <1>5, <2>1, <3>2, SuppliedKept DEF Calm
    <3>3. CASE d # c /\ job[d].at = "worker" /\ job[d].m = m
      <4>1. job'[d].m = m
        BY <1>5, <3>3
      <4>2. CASE task[d].cmd \in Makes \cup {"start"}
        <5>1. ~Alone(task[d].env, m)
          <6>1. CASE Maker(d)
            BY <1>1, <3>3, <6>1, NotBuilt DEF Early, MayEnd
          <6>2. CASE task[d].cmd = "start"
            BY <1>1, <3>3, <6>2 DEF Alone, Rivals
          <6> QED
            BY <4>2, <6>1, <6>2 DEF Maker
        <5>2. ~Alone(task[d].env, job[d].m)'
          <6>1. Alone(task[d].env, job[d].m)' <=> Alone(task[d].env, job'[d].m)
            BY <1>1, StaticAlone
          <6> QED
            BY <4>1, <5>1, <6>1
        <5> QED
          BY <5>2 DEF Supplied
      <4>3. CASE task[d].cmd \notin Makes \cup {"start"}
        BY <1>1, <4>3 DEF Supplied
      <4> QED
        BY <4>2, <4>3
    <3> QED
      BY <3>1, <3>2, <3>3
  <2>7. Findable'
    <3>1. machine[m].state \in {"on", "suspended"}
      <4>1. machine[m].state # "absent"
        BY <1>1 DEF EnvInv, RefInv, Unborn
      <4> QED
        BY <1>1, <4>1, AtHand DEF HostsOK, HostTypeOK, MachineStates
    <3>2. \A n \in Provided : There(n)' => There(n)
      BY <1>2, <3>1 DEF There, Provided
    <3>3. \A n \in Provided : StartRaises(n) => StartRaises(n)'
      BY <1>2 DEF StartRaises, Provided
    <3>4. NoneLost
      BY DEF NoneLost
    <3>5. NoneLeft
      BY <1>1, <1>5 DEF NoneLeft
    <3> QED
      BY <1>1, <2>1, <3>2, <3>3, <3>4, <3>5, FindableKept DEF Calm
  <2>8. Armed'
    <3>1. \A d \in Envs, n \in Machines : procs'[d][n] > 0 => procs[d][n] > 0
      BY <1>2, EnvironmentsAssumption DEF WorkersKept
    <3> QED
      BY <1>1, <1>2, <2>1, <3>1, AtHand, ArmedKept DEF Calm
  <2> QED
    BY <2>2, <2>4, <2>5, <2>6, <2>7, <2>8 DEF Calm
<1> QED
  BY <1>6, <1>7, <1>8, <1>9 DEF EnvInv

LEMMA StartInv ==
    ASSUME EnvInv, NEW c \in Clients, Start(c)
    PROVE  EnvInv'
<1> DEFINE rec == records[task[c].env]
<1>1. /\ job[c].at = "begin" /\ task[c].cmd = "start" /\ Quiet /\ NoFault /\ ~Maker(c)
      /\ UNCHANGED records
  BY DEF Start, Reads, At, Maker, Makes, NoFault
<1>2. CASE Go(c, "exited") /\ HostsSame
  BY <1>1, <1>2, ExitsInv
<1>3. CASE /\ Usable(rec) /\ CanSuspend(rec.m) /\ machine[rec.m].state # "destroyed"
           /\ Resume(rec.m)
           /\ job' = [job EXCEPT ![c].at = "creds", ![c].m = rec.m]
  BY <1>1, <1>3, ResumedInv
<1> QED
  BY <1>2, <1>3 DEF Start, Exit, AfterResume

\* A worker may be started where it could not be: on a machine that is in a record.
LEMMA SyncInv ==
    ASSUME EnvInv, NEW c \in Clients, Sync(c)
    PROVE  EnvInv'
<1> DEFINE e == task[c].env
           rec == records[e]
           m == rec.m
<1>1. /\ job[c].at = "begin" /\ Go(c, "exited") /\ ~Maker(c) /\ Quiet
      /\ UNCHANGED records /\ task' = task /\ driver' = driver
  BY DEF Sync, Reads, At, Exit, Maker, Makes, Quiet, RestSame
<1>2. CASE HostsSame /\ (Fault \/ NoFault)
  BY <1>1, <1>2, ExitsInv
<1>3. CASE Usable(rec) /\ Reachable(m) /\ SyncPacks(m) /\ NoFault
  <2>1. m \in Machines /\ e \in Envs /\ faults' = faults
    BY <1>3, AtHand, RecordUsed DEF NoFault
  <2>2. /\ HostsOK' /\ WorkersKept /\ NoReturn /\ armed' = armed
        /\ \A n \in Machines : /\ machine'[n].state = machine[n].state
                               /\ machine'[n].secrets = machine[n].secrets
                               /\ n # m => machine'[n].prefect = machine[n].prefect
    <3>1. HostsOK /\ SyncPacks(m)
      BY <1>3, AtHand
    <3> HIDE DEF m
    <3> QED
      BY <2>1, <3>1, SyncType
  <2>3. PICK r \in Jobs : Moves(c, r) /\ Like(r, job[c]) /\ r.at = "exited"
    BY <1>1, AtHand, GoMoves DEF Running, JobPCs
  <2>4. /\ JobsOK' /\ job'[c] = r /\ \A d \in Clients \ {c} : job'[d] = job[d]
    BY <2>3, AtHand, MovesType
  <2>5. TypeInv'
    <3>1. SubTypeOK' /\ Addressed' /\ RestOK'
      BY AtHand, <1>1, <1>3, <2>2, PrefectType, RestType DEF Quiet, HostsOK
    <3> QED
      BY AtHand, <1>1, <2>2, <2>4, <3>1, RecordsKept DEF TypeInv, HostsOK
  <2>6. RefInv' /\ EarlyKept
    <3>1. Copying
      BY <1>1, <2>2, <2>3, AtHand, LikeCopies DEF Knows, NoReturn
    <3> QED
      BY <2>4, <3>1, AtHand, CopyingRefs DEF EnvInv, EarlyKept, Copying
  <2>7. Building'
    BY <1>1, <2>2, <2>6, BuildingKept DEF EnvInv, Provided
  <2>8. ASSUME faults' = 0 PROVE Calm'
    <3>1. Calm
      BY <2>1, <2>8 DEF EnvInv
    <3>2. driver' /\ RecordsCalm'
      BY <1>1, <3>1 DEF Calm, RecordsCalm
    <3>3. \A d \in Clients : Sure(d, job'[d])
      BY <2>3, <2>4, <3>1 DEF Calm, Sure, Like
    <3>4. \A d \in Clients : Sure(d, job[d])'
      BY <1>1, <3>3, SureKept
    <3>5. \A d \in Clients : TornDown(d)'
      BY <1>1, <2>2, <2>3, <2>4, <3>1, AtHand, TornDownKept DEF Calm
    <3>6. ASSUME NEW d \in Clients PROVE Supplied(d)'
      <4>1. CASE d = c \/ job[d].at # "worker"
        BY <2>3, <2>4, <4>1 DEF Supplied
      <4>2. CASE d # c /\ job[d].at = "worker"
        BY <1>1, <2>2, <2>4, <3>1, <4>2, SuppliedKept DEF Calm
      <4> QED
        BY <4>1, <4>2
    <3>7. Findable'
      <4>1. \A n \in Provided : There(n)' => There(n)
        BY <2>2 DEF There, Provided
      <4>2. \A n \in Provided : StartRaises(n)
                => StartRaises(n)' \/ \E d \in Envs : records'[d].m = n
        BY <1>1, <2>1, <2>2 DEF StartRaises, Provided
      <4>3. NoneLost
        BY <1>1 DEF NoneLost
      <4>4. NoneLeft
        BY <1>1, <2>4 DEF NoneLeft
      <4> QED
        BY <1>1, <3>1, <4>1, <4>2, <4>3, <4>4, FindableKept DEF Calm
    <3>8. Armed'
      <4>1. \A d \in Envs, n \in Machines : procs'[d][n] > 0 => procs[d][n] > 0
        BY <2>2, EnvironmentsAssumption DEF WorkersKept
      <4> QED
        BY <1>1, <2>2, <3>1, <4>1, AtHand, ArmedKept DEF Calm
    <3> QED
      BY <3>2, <3>4, <3>5, <3>6, <3>7, <3>8 DEF Calm
  <2> QED
    BY <2>5, <2>6, <2>7, <2>8 DEF EnvInv
<1> QED
  BY <1>2, <1>3 DEF Sync

-----------------------------------------------------------------------------
(* The invariant holds.                                                    *)

LEMMA InitType == EnvInit => TypeInv
<1> SUFFICES ASSUME EnvInit PROVE TypeInv
  OBVIOUS
<1>1. /\ SubInit /\ HostInit /\ task \in Setups /\ Pools = Envs /\ Deployments = Envs
      /\ task \in [Clients -> Tasks] /\ NoMachine \notin Machines
      /\ catalog \in [Envs -> [declared : {FALSE}, flow : BOOLEAN]]
      /\ deployed = [e \in Envs |-> Absent]
      /\ records = [e \in Envs |-> NoRecord]
      /\ job = [c \in Clients |->
            [at |-> "begin", m |-> NoMachine, rec |-> NoRecord, todo |-> {},
             snap |-> records, completed |-> FALSE, env |-> task[c].env]]
  BY EnvironmentsAssumption DEF EnvInit
<1>2. PoolTypeOK
  BY <1>1 DEF SubInit, PoolInit, PoolTypeOK
<1>3. SubTypeOK /\ Addressed
  <2>1. sub = [c \in Clients |-> NoSub] /\ refusals = 0 /\ 0 \in 0..MaxRefusals
    BY <1>1, SubmissionAssumption DEF SubInit
  <2>2. sub \in [Clients -> Subs] /\ Addressed
    BY <2>1, NoSubOK DEF Addressed
  <2>3. /\ deployed \in [Deployments -> Pools \cup {NoPool, Absent}]
        /\ catalog \in [Deployments -> [declared : BOOLEAN, flow : BOOLEAN]]
    BY <1>1
  <2> QED
    BY <1>2, <2>1, <2>2, <2>3 DEF SubTypeOK
<1>4. HostTypeOK
  <2>1. PICK installed \in Installed :
            machine = [m \in Machines |->
                [state |-> IF Kind[m] = "ssh" THEN "on" ELSE "absent",
                 secrets |-> FALSE, prefect |-> m \in installed, session |-> FALSE,
                 identity |-> 0]]
    BY <1>1 DEF HostInit
  <2>2. machine \in [Machines -> MachineTypes]
    BY <2>1 DEF MachineTypes, MachineStates
  <2>3. \A m \in Machines, p \in Pools : procs[p][m] = 0
    BY <1>1, HostsAssumption DEF SubInit, PoolInit
  <2>4. /\ armed \in [Machines -> BOOLEAN]
        /\ dirs \in [Machines -> [Issues -> Contents]] /\ tgz \in [Machines -> Contents]
    BY <1>1 DEF HostInit, Contents
  <2> QED
    BY <2>2, <2>3, <2>4 DEF HostTypeOK, MachineTypes
<1>5. NoRecord \in Recorded /\ ~NoRecord.driven /\ NoRecord.m = NoMachine
  BY DEF NoRecord, Recorded
<1>6. RecordsOK
  BY <1>1, <1>5 DEF RecordsOK, RecOK
<1>7. JobsOK
  <2>1. ASSUME NEW c \in Clients PROVE job[c] \in Jobs /\ JobOK(c, job[c])
    <3>1. task[c].env \in Envs
      BY <1>1 DEF Tasks
    <3>2. /\ job[c].at = "begin" /\ job[c].m = NoMachine /\ job[c].rec = NoRecord
          /\ job[c].snap = records /\ job[c].env = task[c].env
      BY <1>1
    <3>3. job[c] \in Jobs
      BY <1>1, <1>5, <1>6, <3>1 DEF Jobs, JobPCs, RecordsOK
    <3>4. JobOK(c, job[c])
      BY <1>5, <1>6, <3>2 DEF JobOK, Running, RecordsOK, RecOK
    <3> QED
      BY <3>3, <3>4
  <2>2. job \in [Clients -> Jobs]
    BY <1>1, <2>1
  <2> QED
    BY <1>1, <2>1, <2>2 DEF JobsOK
<1>8. RestOK
  <2>1. driver \in BOOLEAN /\ mine \in 1..2 /\ faults \in 0..MaxFaults
    BY EnvironmentsAssumption DEF EnvInit
  <2>2. local \in [Issues -> Contents]
    BY DEF EnvInit, Contents
  <2> QED
    BY <2>1, <2>2 DEF RestOK
<1> QED
  BY <1>3, <1>4, <1>6, <1>7, <1>8 DEF TypeInv

LEMMA InitInv == EnvInit => EnvInv
<1> SUFFICES ASSUME EnvInit PROVE EnvInv
  OBVIOUS
<1>1. TypeInv /\ NoMachine \notin Machines
  BY InitType, EnvironmentsAssumption
<1>2. /\ \A e \in Envs : records[e] = NoRecord
      /\ \A c \in Clients : /\ job[c].at = "begin" /\ job[c].m = NoMachine
                            /\ job[c].rec = NoRecord /\ job[c].todo = {}
                            /\ \A e \in Envs : job[c].snap[e] = NoRecord
      /\ driver
  BY DEF EnvInit
<1>3. \A e \in Envs, m \in Machines : ~Knows(e, m)
  BY <1>1, <1>2 DEF Knows, NoRecord
<1>4. RefInv /\ Building
  <2>1. \A c \in Clients : task[c].env \in Envs /\ job[c].m \notin Machines
    BY <1>1, <1>2 DEF TypeInv, JobsOK, Tasks
  <2>2. Unwritten
    BY <1>3, <2>1 DEF Unwritten
  <2>3. Made /\ MadeOnce /\ Unborn
    BY <1>3, <2>1 DEF Made, MadeOnce, Unborn, Provided
  <2>4. Building
    BY <2>1 DEF Building, Provided
  <2> QED
    BY <2>2, <2>3, <2>4 DEF RefInv
<1>5. Calm
  <2>1. RecordsCalm /\ \A c \in Clients : Sure(c, job[c]) /\ TornDown(c) /\ Supplied(c)
    BY <1>2 DEF RecordsCalm, Sure, TornDown, Supplied, NoRecord
  <2>2. Findable
    BY DEF EnvInit, HostInit, Findable, There, Provided
  <2>3. Armed
    <3>1. \A e \in Envs, m \in Machines : procs[e][m] = 0
      BY HostsAssumption, EnvironmentsAssumption DEF EnvInit, SubInit, PoolInit
    <3>2. \A e \in Envs : Homes(e) \subseteq Machines
      BY <1>1, HomesAreMachines DEF TypeInv, JobsOK
    <3> QED
      BY <3>1, <3>2 DEF Armed
  <2> QED
    BY <1>2, <2>1, <2>2, <2>3 DEF Calm
<1> QED
  BY <1>1, <1>4, <1>5 DEF EnvInv

LEMMA StepInv ==
    ASSUME EnvInv, NEW c \in Clients, Step(c)
    PROVE  EnvInv'
<1>1. CASE EnvUp(c)
  <2>1. CASE Provision(c)
    BY <2>1, ProvisionInv, UnprovisionedInv
  <2> QED
    BY <1>1, <2>1, EnsureRigRemoteInv, PushIdentityInv, PushCredentialsInv, LaunchWorkerInv,
       WriteRecordInv DEF EnvUp
<1>2. CASE RunWithEnv(c)
  BY <1>2, ReadForRunInv, RefreshIdentityInv, DeliverInv, SubmittingInv, PollInv, MirrorInv,
     RewriteInv DEF RunWithEnv
<1>3. CASE TearDown(c) \/ Delete(c)
  BY <1>3, TearDownInv, DeleteInv
<1>4. CASE ReadForDown(c) \/ Snapshot(c) \/ ReapNext(c)
  BY <1>4, ReadForDownInv, SnapshotInv, ReapNextInv
<1>5. CASE Start(c) \/ PushCredentials(c) \/ LaunchWorker(c)
  BY <1>5, StartInv, PushCredentialsInv, LaunchWorkerInv
<1>6. CASE Stop(c) \/ Sync(c)
  BY <1>6, StopInv, SyncInv
<1> QED
  BY <1>1, <1>2, <1>3, <1>4, <1>5, <1>6 DEF Step, RunEphemeralEnv, EnvDown, EnvReap, EnvStart

LEMMA NextInv ==
    ASSUME EnvInv, [EnvNext]_envVars
    PROVE  EnvInv'
<1>1. CASE \E c \in Clients : Step(c) \/ Claimed(c) \/ FlowEnds(c) \/ Killed(c)
  BY <1>1, StepInv, ClaimedInv, FlowEndsInv, KilledInv
<1>2. CASE PackRemoved \/ IdentityEdited \/ Server
  BY <1>2, PackRemovedInv, IdentityEditedInv, ServerInv
<1>3. CASE UNCHANGED envVars
  <2>1. /\ PrefectSame /\ HostsSame /\ RestSame /\ NoFault
        /\ UNCHANGED <<task, job, records, machine, faults, driver>>
    BY <1>3 DEF envVars, subVars, hostVars, PrefectSame, HostsSame, RestSame, NoFault
  <2>2. HostsOK' /\ Steady
    BY <2>1, Around, HostsStay
  <2>3. SubTypeOK' /\ Addressed' /\ RestOK'
    BY <2>1, <2>2, Around, PrefectType, RestType DEF HostsOK
  <2> QED
    BY <2>1, <2>2, <2>3, SteadyStill
<1> QED
  BY <1>1, <1>2, <1>3 DEF EnvNext

\* The inductive invariant of the env commands: whose each machine is, what each command
\* knows at its place in env.py or env_dispatch.py, and, while no call has failed, which
\* records, secrets and workers there are.
THEOREM EnvInvariant == EnvSpec => []EnvInv
<1>1. EnvInit => EnvInv
  BY InitInv
<1>2. EnvInv /\ [EnvNext]_envVars => EnvInv'
  BY NextInv
<1> QED
  BY <1>1, <1>2, PTL DEF EnvSpec

-----------------------------------------------------------------------------
(* What follows.                                                           *)

\* The types of environments, of their machines, workers and submissions: env.py's
\* commands, whatever fails, keep to the machines that their names stand for.
THEOREM EnvTyping == EnvSpec => []EnvTypeOK
<1>1. EnvInv => EnvTypeOK
  BY TypeInvType DEF EnvInv
<1> QED
  BY <1>1, EnvInvariant, PTL

\* A machine that `po env up` or an ephemeral run made is named by a record, or in the
\* hands of a process that still works with it.
THEOREM MadeIsFound == EnvSpec => []MachineFindable
<1>1. EnvInv => MachineFindable
  <2> SUFFICES ASSUME EnvInv, NEW m \in Machines, ~(faults > 0), ~StartRaises(m),
                      Kind[m] # "ssh", ~Excused(m), There(m)
               PROVE  \/ \E e \in Envs : records[e].m = m
                      \/ \E c \in Clients : Busy(c) /\ job[c].m = m
    BY DEF MachineFindable, Excused, There
  <2>1. faults = 0
    BY Around DEF RestOK
  <2>2. Findable
    BY <2>1 DEF EnvInv, Calm
  <2>3. ASSUME NEW c \in Clients, Maker(c), job[c].at \in Early, job[c].m = m PROVE Busy(c)
    BY <2>3, AtHand DEF JobOK, Busy, Early
  <2> QED
    BY <2>2, <2>3 DEF Findable, Provided
<1> QED
  BY <1>1, EnvInvariant, PTL

\* A worker that `po env up`, `po env start` or an ephemeral dispatch with a secret of its
\* own left on a machine runs with the secrets that were pushed there before.
THEOREM WorkersArmed == EnvSpec => []SecretsReachWorker
<1>1. EnvInv => SecretsReachWorker
  <2> SUFFICES ASSUME EnvInv, NEW e \in Envs, NEW m \in Homes(e), ~(faults > 0),
                      ~Rivals(e, Makes), ~Rivals(e, {"start"}),
                      \A c \in Clients : task[c].env = e => Pushes(c),
                      \A d \in Envs \ {e} : m \notin Homes(d), procs[e][m] > 0
               PROVE  armed[m]
    BY DEF SecretsReachWorker
  <2>1. faults = 0
    BY Around DEF RestOK
  <2>2. Alone(e, m)
    BY DEF Alone
  <2> QED
    BY <2>1, <2>2 DEF EnvInv, Calm, Armed
<1> QED
  BY <1>1, EnvInvariant, PTL

================================================================================
