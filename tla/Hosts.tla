--------------------------------- MODULE Hosts ---------------------------------
(***************************************************************************)
(* The machines behind environments, and what RClaudeEnvDriver does to     *)
(* them: an own host over ssh, a droplet, a Daytona sandbox; and a plain   *)
(* driver that does what the EnvDriver protocol says and no more.          *)
(***************************************************************************)
EXTENDS WorkerPool

CONSTANTS
    Kind,      \* of each machine: "ssh", "vm", "daytona" or "plain"
    Issues,
    Installed, \* what may be: where the po tool is, or can be, installed
    Foreign    \* the ssh hosts where a tmux server of someone else's runs

Machines == DOMAIN Kind
NoIssue == "no issue"

ASSUME HostsAssumption ==
    /\ Machines = Places \ {Here}
    /\ \A m \in Machines : Kind[m] \in {"ssh", "vm", "daytona", "plain"}
    /\ Foreign \subseteq {m \in Machines : Kind[m] = "ssh"}
    /\ Installed \subseteq SUBSET Machines
    /\ NoIssue \notin Issues

VARIABLES
    machine,  \* state of a machine; are the stored secrets in its RAM, is the po tool with
              \* prefect there, is there a po-worker session, which identity bundle
    armed,    \* was the worker of a machine started with the secrets?
    dirs,     \* run directories of issues in its rig: whose artifacts are in there
    tgz       \* whose artifacts are in the sandbox's /tmp/po-dl.tgz

hostVars == <<machine, armed, dirs, tgz>>

Contents == Issues \cup {NoIssue}
MachineStates == {"absent", "on", "suspended", "destroyed"}

HostTypeOK ==
    /\ machine \in [Machines -> [state : MachineStates, secrets : BOOLEAN, prefect : BOOLEAN,
                                 session : BOOLEAN, identity : Nat]]
    /\ armed \in [Machines -> BOOLEAN]
    /\ dirs \in [Machines -> [Issues -> Contents]]
    /\ tgz \in [Machines -> Contents]
    /\ \A m \in Machines : machine[m].state # "on" => \A p \in Pools : procs[p][m] = 0

\* An own host is there from the start. start_worker installs po from PyPI where it is
\* missing, if it can.
HostInit ==
    /\ \E installed \in Installed :
         machine = [m \in Machines |->
             [state |-> IF Kind[m] = "ssh" THEN "on" ELSE "absent",
              secrets |-> FALSE, prefect |-> m \in installed, session |-> FALSE, identity |-> 0]]
    /\ armed = [m \in Machines |-> FALSE]
    /\ dirs = [m \in Machines |-> [i \in Issues |-> NoIssue]]
    /\ tgz = [m \in Machines |-> NoIssue]

-----------------------------------------------------------------------------

Reachable(m) == machine[m].state = "on"

\* provision: a registered host is looked up, anything else is created.
Provisioned(m) == [machine EXCEPT ![m].state = "on"]

\* push_identity, push_credentials.
WithIdentity(m, version) == [machine EXCEPT ![m].identity = version]
WithSecrets(m) == [machine EXCEPT ![m].secrets = TRUE]

\* No worker of a machine, in any pool.
Workerless(m) == [p \in Pools |-> [procs[p] EXCEPT ![m] = 0]]

\* start_worker raises where it looks for prefect and does not find it. The droplet's
\* script starts a session that dies at once, and does not look.
StartRaises(m) == ~machine[m].prefect /\ Kind[m] \in {"ssh", "daytona"}

\* A session that is there, of whichever pool, is left alone; a new one has the
\* environment of the tmux server, which is the script's only if the script starts it.
StartInTmux(m, p) ==
    /\ machine' = [machine EXCEPT ![m].session = @ \/ machine[m].prefect]
    /\ IF machine[m].session \/ ~machine[m].prefect \/ m \in Foreign
       THEN UNCHANGED <<procs, armed>>
       ELSE /\ procs' = [procs EXCEPT ![p][m] = 1]
            /\ armed' = [armed EXCEPT ![m] = machine[m].secrets]

\* In a sandbox stale workers are killed first; a plain driver's worker is idempotent.
StartDirectly(m, p) ==
    /\ procs' = [Workerless(m) EXCEPT ![p][m] = 1]
    /\ armed' = [armed EXCEPT ![m] = machine[m].secrets]
    /\ UNCHANGED machine

StartWorker(m, p) ==
    /\ ~StartRaises(m)
    /\ IF Kind[m] \in {"ssh", "vm"} THEN StartInTmux(m, p) ELSE StartDirectly(m, p)
    /\ UNCHANGED <<known, dirs, tgz>>

\* teardown: an own host loses the worker session and the secrets, all else its life.
Teardown(m) ==
    /\ machine' = [machine EXCEPT ![m].secrets = FALSE, ![m].session = FALSE,
                                  ![m].state = IF Kind[m] = "ssh" THEN @ ELSE "destroyed"]
    /\ procs' = Workerless(m)
    /\ UNCHANGED <<known, armed, dirs, tgz>>

CanSuspend(m) == Kind[m] = "daytona"

\* suspend keeps the disk; what is in RAM and what runs is gone.
Suspend(m) ==
    /\ machine' = [machine EXCEPT ![m].state = "suspended", ![m].secrets = FALSE]
    /\ procs' = Workerless(m)
    /\ UNCHANGED <<known, armed, dirs, tgz>>

Resume(m) ==
    /\ machine' = [machine EXCEPT ![m].state = "on"]
    /\ UNCHANGED <<poolVars, armed, dirs, tgz>>

\* sync_packs: rebuilds the po tool of the user who logs in, on a droplet root's, while
\* its worker is coder's.
SyncPacks(m) ==
    /\ machine' = [machine EXCEPT ![m].prefect = @ \/ Kind[m] # "vm"]
    /\ UNCHANGED <<poolVars, armed, dirs, tgz>>

\* push_rig: a sandbox's copy of the rig is replaced, run directories included.
PushRig(m, rig) ==
    /\ dirs' = IF Kind[m] = "daytona" THEN [dirs EXCEPT ![m] = rig] ELSE dirs
    /\ UNCHANGED <<poolVars, machine, armed, tgz>>

\* fs_download: whose artifacts arrive. A sandbox tars the directory if it is there and
\* sends the archive it has, an own host's go into a cache, and a droplet's rig is not
\* where they are looked for.
Packed(m, i) == IF dirs[m][i] # NoIssue THEN dirs[m][i] ELSE tgz[m]

FsDownload(m, i) ==
    /\ tgz' = IF Kind[m] = "daytona" THEN [tgz EXCEPT ![m] = Packed(m, i)] ELSE tgz
    /\ UNCHANGED <<poolVars, machine, armed, dirs>>

Arrives(m, i) == IF Kind[m] = "daytona" THEN Packed(m, i) ELSE NoIssue

=============================================================================
