----------------------------- MODULE Environments -----------------------------
(***************************************************************************)
(* The commands on environments, `po env ...` and `po run --env` (env.py   *)
(* and env_dispatch.py): each is a process that goes through its steps,    *)
(* keeps what it read at the start and may be killed anywhere.             *)
(***************************************************************************)
EXTENDS Hosts, Submission

CONSTANTS
    Envs,        \* names of environments, of their deployments and of their pools
    Setups,      \* assignments of a task to each process: what is run together
    MaxFaults    \* bound: calls to a machine that fail, processes that are killed

NoMachine == "no machine"

Commands == {"up", "ephemeral", "run", "down", "stop", "start", "sync", "reap"}
Tasks == [cmd : Commands, env : Envs, home : Machines, issue : Issues, rebuild : BOOLEAN,
          always : BOOLEAN, keyed : BOOLEAN]

ASSUME EnvironmentsAssumption ==
    /\ Pools = Envs /\ Deployments = Envs
    /\ NoMachine \notin Machines
    /\ \A setup \in Setups : setup \in [Clients -> Tasks]
    /\ MaxFaults \in Nat

VARIABLES
    task,      \* of a process: its command and its arguments
    job,       \* where it stands, its handle, the record it holds, what it has left to reap
    records,   \* envs/<name>.toml
    driver,    \* is the driver's pack installed?
    mine,      \* the local ~/.claude subset that identity bundles are made of: its version
    local,     \* local run directories of the issues: whose artifacts are in there
    faults

envVars == <<subVars, hostVars, task, job, records, driver, mine, local, faults>>

\* A file that was torn while it was written reads as one without a driver.
NoRecord == [there |-> FALSE, driven |-> FALSE, m |-> NoMachine, hash |-> 0]
Recorded == [there : BOOLEAN, driven : BOOLEAN, m : Machines \cup {NoMachine}, hash : Nat]

JobPCs == {"begin", "remote", "identity", "creds", "worker", "write", "refresh", "identity2",
           "deliver", "dispatch", "mirror", "rewrite", "teardown", "delete", "reap",
           "exited", "dead"}
Jobs == [at : JobPCs, m : Machines \cup {NoMachine}, rec : Recorded, todo : SUBSET Envs,
         snap : [Envs -> Recorded], completed : BOOLEAN, env : Envs]

Makes == {"up", "ephemeral"}

\* The machines that provisioning under a name may come to.
Homes(e) == {task[c].home : c \in {x \in Clients : task[x].env = e /\ task[x].cmd \in Makes}}

EnvTypeOK ==
    /\ SubTypeOK /\ HostTypeOK
    /\ task \in [Clients -> Tasks]
    /\ job \in [Clients -> Jobs]
    /\ records \in [Envs -> Recorded]
    /\ driver \in BOOLEAN
    /\ mine \in 1..2
    /\ local \in [Issues -> Contents]
    /\ faults \in 0..MaxFaults
    /\ \A e \in Envs : records[e].driven => records[e].there /\ records[e].m \in Homes(e)

EnvInit ==
    /\ SubInit /\ HostInit
    /\ catalog \in [Envs -> [declared : {FALSE}, flow : BOOLEAN]]
    /\ deployed = [e \in Envs |-> Absent]
    /\ task \in Setups
    /\ job = [c \in Clients |->
          [at |-> "begin", m |-> NoMachine, rec |-> NoRecord, todo |-> {},
           snap |-> [e \in Envs |-> NoRecord], completed |-> FALSE, env |-> task[c].env]]
    /\ records = [e \in Envs |-> NoRecord]
    /\ driver = TRUE
    /\ mine = 1
    /\ local = [i \in Issues |-> NoIssue]
    /\ faults = 0

-----------------------------------------------------------------------------

Fault == faults < MaxFaults /\ faults' = faults + 1
NoFault == UNCHANGED faults
At(c, cmds, pc) == task[c].cmd \in cmds /\ job[c].at = pc
Go(c, pc) == job' = [job EXCEPT ![c].at = pc]
Exit(c) == Go(c, "exited")

HostsSame == UNCHANGED <<poolVars, hostVars>>
PrefectSame == UNCHANGED <<catalog, deployed, sub, refusals>>
RestSame == UNCHANGED <<task, driver, mine, local>>
Quiet == PrefectSame /\ RestSame

\* A record that names a driver that is registered.
Usable(rec) == driver /\ rec.driven

-----------------------------------------------------------------------------
(* env_up, and the first half of run_ephemeral_env.                        *)

\* The machine is there from here on, whatever becomes of the command.
Provision(c) ==
    /\ At(c, Makes, "begin")
    /\ \/ /\ driver
          /\ LET m == task[c].home IN
               /\ machine[m].state = IF Kind[m] = "ssh" THEN "on" ELSE "absent"
               /\ machine' = Provisioned(m)
               /\ job' = [job EXCEPT ![c].at = "remote", ![c].m = m]
       \/ ~driver /\ Exit(c) /\ UNCHANGED machine
    /\ UNCHANGED <<poolVars, armed, dirs, tgz, records, faults>> /\ Quiet

\* A droplet gets a bare repository; the others are not asked.
EnsureRigRemote(c) ==
    /\ At(c, Makes, "remote")
    /\ \/ Go(c, "identity") /\ NoFault
       \/ Kind[job[c].m] = "vm" /\ Exit(c) /\ Fault
    /\ HostsSame /\ UNCHANGED records /\ Quiet

\* The hash is kept whether or not the bundle arrived.
PushIdentity(c) ==
    /\ At(c, Makes, "identity")
    /\ job' = [job EXCEPT ![c].at = "creds", ![c].rec.hash = mine]
    /\ \/ machine' = WithIdentity(job[c].m, mine) /\ NoFault
       \/ UNCHANGED machine /\ Fault
    /\ UNCHANGED <<poolVars, armed, dirs, tgz, records>> /\ Quiet

\* The driver injects the stored secrets of the host when it is asked to push any. `up`
\* and `start` always ask; an ephemeral environment only if po has something of its own
\* to forward, ANTHROPIC_API_KEY or the credentials that --with-auth reads.
Pushes(c) == task[c].cmd = "ephemeral" => task[c].keyed

\* A failure is a warning.
PushCredentials(c) ==
    /\ At(c, Makes \cup {"start"}, "creds")
    /\ Go(c, "worker")
    /\ \/ /\ machine' = IF Pushes(c) /\ Reachable(job[c].m)
                        THEN WithSecrets(job[c].m) ELSE machine
          /\ NoFault
       \/ Pushes(c) /\ UNCHANGED machine /\ Fault
    /\ UNCHANGED <<poolVars, armed, dirs, tgz, records>> /\ Quiet

\* What start_worker raises ends `up` and leaves the machine; `start` only warns.
LaunchWorker(c) ==
    /\ At(c, Makes \cup {"start"}, "worker")
    /\ LET m == job[c].m
           onward == IF task[c].cmd \in Makes THEN "write" ELSE "exited"
       IN  \/ /\ Reachable(m) /\ StartWorker(m, task[c].env)
              /\ Go(c, onward) /\ NoFault
           \/ /\ ~Reachable(m) \/ StartRaises(m)
              /\ Exit(c) /\ NoFault /\ HostsSame
           \/ Exit(c) /\ Fault /\ HostsSame
    /\ UNCHANGED records /\ Quiet

\* write_env truncates and writes; an ephemeral environment then runs its formula.
WriteRecord(c) ==
    /\ At(c, Makes, "write")
    /\ \E rec \in {[there |-> TRUE, driven |-> TRUE, m |-> job[c].m, hash |-> job[c].rec.hash]} :
         records' = [records EXCEPT ![task[c].env] = rec]
    /\ Go(c, IF task[c].cmd = "up" THEN "exited" ELSE "refresh")
    /\ NoFault /\ HostsSame /\ Quiet

-----------------------------------------------------------------------------
(* run_with_env.                                                           *)

Runs == {"run", "ephemeral"}

\* What comes after a run that raised or ended: an ephemeral environment goes when it
\* completed, or always if so told; another run just exits.
AfterRun(c, completed) ==
    IF task[c].cmd = "run" THEN "exited"
    ELSE IF completed \/ task[c].always THEN "teardown" ELSE "exited"

\* The record is read once.
ReadForRun(c) ==
    /\ At(c, {"run"}, "begin") \/ At(c, {"ephemeral"}, "refresh")
    /\ LET rec == records[task[c].env] IN
       IF Usable(rec)
       THEN job' = [job EXCEPT ![c].at = "identity2", ![c].rec = rec, ![c].m = rec.m]
       ELSE Go(c, AfterRun(c, FALSE))
    /\ HostsSame /\ UNCHANGED <<records, faults>> /\ Quiet

\* --rebuild provisions again without saying which backend, and an own host is the only
\* one that is found by its name. Then the identity bundle, iff its hash is another one.
RefreshIdentity(c) ==
    /\ At(c, Runs, "identity2")
    /\ LET rec == job[c].rec
           found == Kind[rec.m] \in {"ssh", "plain"}
       IN  \/ /\ task[c].rebuild /\ ~found
              /\ Go(c, AfterRun(c, FALSE)) /\ NoFault /\ UNCHANGED machine
           \/ /\ task[c].rebuild => found
              /\ rec.hash = mine \/ ~Reachable(rec.m)
              /\ Go(c, "deliver") /\ NoFault /\ UNCHANGED machine
           \/ /\ task[c].rebuild => found
              /\ rec.hash # mine /\ Reachable(rec.m)
              /\ machine' = WithIdentity(rec.m, mine)
              /\ job' = [job EXCEPT ![c].at = "deliver", ![c].rec.hash = mine]
              /\ NoFault
           \/ /\ task[c].rebuild => found
              /\ rec.hash # mine /\ Go(c, "deliver") /\ Fault /\ UNCHANGED machine
    /\ UNCHANGED <<poolVars, armed, dirs, tgz, records>> /\ Quiet

\* The rig goes by git or by tar; a failure is a warning. Then the run is submitted.
Deliver(c) ==
    /\ At(c, Runs, "deliver")
    /\ Go(c, "dispatch")
    /\ \/ /\ Reachable(job[c].m)
          /\ PushRig(job[c].m, local) /\ NoFault
       \/ ~Reachable(job[c].m) /\ NoFault /\ HostsSame
       \/ Fault /\ HostsSame
    /\ Ask(c, task[c].env, task[c].env)
    /\ UNCHANGED <<catalog, deployed, refusals, records>> /\ RestSame

Submitting(c) ==
    /\ At(c, Runs, "dispatch")
    /\ \/ FindForEnv(c) \/ Create(c) \/ Probe(c) \/ Ensure(c) \/ Spawn(c)
       \/ /\ Submit(c)
    /\ UNCHANGED <<job, records, hostVars, faults>> /\ RestSame

\* Polls go on, whatever they meet, until the run is over.
Poll(c) ==
    /\ At(c, Runs, "dispatch")
    /\ \/ /\ sub[c].run \in {"completed", "failed"}
          /\ job' = [job EXCEPT ![c].at = "mirror", ![c].completed = sub[c].run = "completed"]
       \/ /\ sub[c].at \in {"missing", "error"}
          /\ Go(c, AfterRun(c, FALSE))
    /\ HostsSame /\ UNCHANGED <<records, faults>> /\ Quiet

\* The artifacts come back, or a warning.
Mirror(c) ==
    /\ At(c, Runs, "mirror")
    /\ Go(c, "rewrite")
    /\ LET m == job[c].m
           i == task[c].issue
       IN  \/ /\ Reachable(m) /\ FsDownload(m, i)
              /\ local' = IF Arrives(m, i) = NoIssue THEN local
                          ELSE [local EXCEPT ![i] = Arrives(m, i)]
              /\ NoFault
           \/ ~Reachable(m) /\ HostsSame /\ UNCHANGED local /\ NoFault
           \/ HostsSame /\ UNCHANGED local /\ Fault
    /\ PrefectSame /\ UNCHANGED <<task, driver, mine, records>>

\* The record that was read at the start is written back, also over one that is gone.
Rewrite(c) ==
    /\ At(c, Runs, "rewrite")
    /\ records' = [records EXCEPT ![task[c].env] = job[c].rec]
    /\ Go(c, AfterRun(c, job[c].completed))
    /\ UNCHANGED faults /\ HostsSame /\ Quiet

-----------------------------------------------------------------------------
(* The run on its worker.                                                  *)

Claimed(c) ==
    /\ sub[c].run = "scheduled" /\ sub[c].in \in Pools
    /\ \E x \in Places :
         /\ procs[sub[c].in][x] > 0
         /\ sub' = [sub EXCEPT ![c].run = "running", ![c].place = x]
    /\ UNCHANGED <<catalog, deployed, refusals, job, records, faults>> /\ HostsSame /\ RestSame

\* The flow writes its run directory where it runs, or ends before it has one.
FlowEnds(c) ==
    /\ sub[c].run = "running"
    /\ \/ /\ sub' = [sub EXCEPT ![c].run = "failed"]
          /\ UNCHANGED <<dirs, local>>
       \/ LET i == task[c].issue IN
          /\ \E end \in {"completed", "failed"} : sub' = [sub EXCEPT ![c].run = end]
          /\ \/ sub[c].place = Here /\ local' = [local EXCEPT ![i] = i] /\ UNCHANGED dirs
             \/ sub[c].place # Here /\ dirs' = [dirs EXCEPT ![sub[c].place][i] = i]
                /\ UNCHANGED local
    /\ UNCHANGED <<catalog, deployed, refusals, job, records, faults, poolVars, machine, armed, tgz,
                   task, driver, mine>>

-----------------------------------------------------------------------------
(* env_down, env_stop, env_start, env_sync_packs, env_reap, and the end of *)
(* an ephemeral environment.                                               *)

Reads(c, cmd) == At(c, {cmd}, "begin")

\* Mutant: the record goes, and the machine is forgotten.
AfterRead_Delete == "delete"

AfterRead == "teardown"

\* A command on an environment without a record exits.
ReadForDown(c) ==
    /\ Reads(c, "down")
    /\ LET rec == records[task[c].env] IN
       IF rec.there
       THEN job' = [job EXCEPT ![c].at = AfterRead, ![c].rec = rec, ![c].m = rec.m]
       ELSE Exit(c)
    /\ HostsSame /\ UNCHANGED <<records, faults>> /\ Quiet

\* Without a driver there is no teardown, and an error in it is a warning.
TearDown(c) ==
    /\ job[c].at = "teardown"
    /\ Go(c, "delete")
    /\ LET m == job[c].m IN
       \/ /\ m # NoMachine /\ (task[c].cmd = "ephemeral" \/ Usable(job[c].rec))
          /\ \/ Reachable(m) \/ machine[m].state = "suspended"
          /\ Teardown(m) /\ NoFault
       \/ /\ \/ m = NoMachine
             \/ task[c].cmd # "ephemeral" /\ ~Usable(job[c].rec)
             \/ m # NoMachine /\ machine[m].state = "destroyed"
          /\ HostsSame /\ NoFault
       \/ HostsSame /\ Fault
    /\ UNCHANGED records /\ Quiet

Delete(c) ==
    /\ job[c].at = "delete"
    /\ records' = [records EXCEPT ![job[c].env] = NoRecord]
    /\ Go(c, IF task[c].cmd = "reap" THEN "reap" ELSE "exited")
    /\ UNCHANGED faults /\ HostsSame /\ Quiet

\* The envs that are idle at this moment; the list is not looked at again.
Snapshot(c) ==
    /\ Reads(c, "reap")
    /\ \E idle \in SUBSET {e \in Envs : records[e].there} :
         job' = [job EXCEPT ![c].at = "reap", ![c].todo = idle, ![c].snap = records]
    /\ HostsSame /\ UNCHANGED <<records, faults>> /\ Quiet

ReapNext(c) ==
    /\ At(c, {"reap"}, "reap")
    /\ \/ job[c].todo = {} /\ Exit(c)
       \/ \E e \in job[c].todo :
            job' = [job EXCEPT ![c].at = AfterRead, ![c].env = e, ![c].todo = @ \ {e},
                               ![c].rec = job[c].snap[e], ![c].m = job[c].snap[e].m]
    /\ HostsSame /\ UNCHANGED <<records, faults>> /\ Quiet

Stop(c) ==
    /\ Reads(c, "stop")
    /\ Exit(c)
    /\ LET rec == records[task[c].env] IN
       IF Usable(rec) /\ CanSuspend(rec.m) /\ Reachable(rec.m)
       THEN Suspend(rec.m) ELSE HostsSame
    /\ UNCHANGED <<records, faults>> /\ Quiet

\* Mutant: only the worker is started again.
AfterResume_Worker == "worker"

AfterResume == "creds"

Start(c) ==
    /\ Reads(c, "start")
    /\ LET rec == records[task[c].env] IN
       IF Usable(rec) /\ CanSuspend(rec.m) /\ machine[rec.m].state # "destroyed"
       THEN /\ Resume(rec.m)
            /\ job' = [job EXCEPT ![c].at = AfterResume, ![c].m = rec.m]
       ELSE Exit(c) /\ HostsSame
    /\ UNCHANGED <<records, faults>> /\ Quiet

Sync(c) ==
    /\ Reads(c, "sync")
    /\ Exit(c)
    /\ LET rec == records[task[c].env] IN
       \/ Usable(rec) /\ Reachable(rec.m) /\ SyncPacks(rec.m) /\ NoFault
       \/ ~(Usable(rec) /\ Reachable(rec.m)) /\ HostsSame /\ NoFault
       \/ Usable(rec) /\ HostsSame /\ Fault
    /\ UNCHANGED records /\ Quiet

-----------------------------------------------------------------------------
(* What happens around the commands.                                       *)

\* A command is killed; in the middle of a write, what is there of the file has no driver.
Killed(c) ==
    /\ job[c].at \notin {"begin", "exited", "dead"} /\ Fault
    /\ Go(c, "dead")
    /\ \/ UNCHANGED records
       \/ /\ job[c].at \in {"write", "rewrite"}
          /\ records' = [records EXCEPT ![task[c].env] = [NoRecord EXCEPT !.there = TRUE]]
    /\ HostsSame /\ Quiet

PackRemoved ==
    /\ driver /\ Fault
    /\ driver' = FALSE
    /\ HostsSame /\ PrefectSame /\ UNCHANGED <<task, mine, local, job, records>>

IdentityEdited ==
    /\ mine = 1 /\ mine' = 2
    /\ HostsSame /\ PrefectSame /\ UNCHANGED <<task, driver, local, job, records, faults>>

Server ==
    /\ PoolNext
    /\ UNCHANGED <<catalog, deployed, sub, refusals, job, records, faults, hostVars>> /\ RestSame

\* One operator per command: the steps its process goes through.
EnvUp(c) ==
    \/ Provision(c) \/ EnsureRigRemote(c) \/ PushIdentity(c) \/ PushCredentials(c)
    \/ LaunchWorker(c) \/ WriteRecord(c)

RunWithEnv(c) ==
    \/ ReadForRun(c) \/ RefreshIdentity(c) \/ Deliver(c) \/ Submitting(c) \/ Poll(c)
    \/ Mirror(c) \/ Rewrite(c)

RunEphemeralEnv(c) == EnvUp(c) \/ RunWithEnv(c) \/ TearDown(c) \/ Delete(c)

EnvDown(c) == ReadForDown(c) \/ TearDown(c) \/ Delete(c)

EnvReap(c) == Snapshot(c) \/ ReapNext(c) \/ TearDown(c) \/ Delete(c)

EnvStart(c) == Start(c) \/ PushCredentials(c) \/ LaunchWorker(c)

Step(c) ==
    \/ task[c].cmd = "up" /\ EnvUp(c)
    \/ task[c].cmd = "run" /\ RunWithEnv(c)
    \/ task[c].cmd = "ephemeral" /\ RunEphemeralEnv(c)
    \/ task[c].cmd = "down" /\ EnvDown(c)
    \/ task[c].cmd = "reap" /\ EnvReap(c)
    \/ task[c].cmd = "start" /\ EnvStart(c)
    \/ Stop(c) \/ Sync(c)

EnvNext ==
    \/ \E c \in Clients : Step(c) \/ Claimed(c) \/ FlowEnds(c) \/ Killed(c)
    \/ PackRemoved \/ IdentityEdited \/ Server

EnvSpec == EnvInit /\ [][EnvNext]_envVars

\* A command's process runs, live workers poll, flows end.
EnvFairSpec ==
    /\ EnvSpec
    /\ \A c \in Clients : /\ WF_envVars(Step(c) /\ job[c].at # "begin")
                          /\ WF_envVars(Claimed(c)) /\ WF_envVars(FlowEnds(c))

-----------------------------------------------------------------------------
(* Properties.                                                             *)

Busy(c) == job[c].at \notin {"begin", "exited", "dead"}

\* Two processes of these commands work on one environment.
Rivals(e, cmds) ==
    \E c, d \in Clients :
        /\ c # d /\ task[c].env = e /\ task[d].env = e
        /\ task[c].cmd \in cmds /\ task[d].cmd \in cmds

\* A machine that an `up` or a run made is in someone's hands: a record names it, or a
\* process still works with it. Excused are calls that failed, a worker that could not
\* be started, and a name that was put up twice: those leave machines that only the
\* provider knows.
MachineFindable ==
    \A m \in Machines :
        \/ faults > 0 \/ StartRaises(m) \/ Kind[m] = "ssh"
        \/ \E e \in Envs : m \in Homes(e) /\ Rivals(e, Makes)
        \/ machine[m].state \notin {"on", "suspended"}
        \/ \E e \in Envs : records[e].m = m
        \/ \E c \in Clients : Busy(c) /\ job[c].m = m

\* The worker of a machine runs with the secrets of the host. Excused are an ephemeral
\* environment for which po had no secret of its own, whose worker starts with none at
\* all; calls that failed; and a machine of two environments or an environment that two
\* processes put up or start, where other commands may take the secrets away between
\* the push and the start.
SecretsReachWorker ==
    \A e \in Envs : \A m \in Homes(e) :
        \/ \E c \in Clients : task[c].env = e /\ ~Pushes(c)
        \/ faults > 0 \/ Rivals(e, Makes) \/ Rivals(e, {"start"})
        \/ \E d \in Envs \ {e} : m \in Homes(d)
        \/ procs[e][m] > 0 => armed[m]

\* A dispatch comes to an end as long as a worker serves the environment.
DispatchEnds ==
    \A c \in Clients :
        (job[c].at = "dispatch") ~> (job[c].at # "dispatch" \/ Alive(task[c].env) = {})

=============================================================================
