------------------------------- MODULE PromptRun -------------------------------
(***************************************************************************)
(* The `prompt` formula (prompt_formula.py) with the bead it creates       *)
(* (mint_seed_bead, _bd_create): one agent, one turn, one reply on disk.   *)
(* Several runs share a rig; a run may be killed between any two steps.    *)
(***************************************************************************)
EXTENDS Integers, FiniteSets

CONSTANTS
    Runs,
    Labels,      \* slugs of prompts, or --label
    Asks,        \* what the runs are asked: a set of functions from Runs to Asked
    Rigs,        \* backend, binaries on PATH, whether bd insists on its own prefix
    MaxSecond,   \* bound: seconds that pass
    MaxWrites,   \* bound: writes into one run directory
    MaxFaults    \* bound: calls that fail and runs that are killed

Nobody == "nobody"
NoLabel == "-"

Asked == [label : Labels, fresh : BOOLEAN, bead : BOOLEAN, close : BOOLEAN, dry : BOOLEAN]

ASSUME PromptAssumption ==
    /\ Asks \subseteq [Runs -> Asked]
    /\ IsFiniteSet(Runs) /\ Nobody \notin Runs /\ NoLabel \notin Labels
    /\ MaxSecond \in Nat /\ MaxWrites \in Nat /\ MaxFaults \in Nat
    /\ \A r \in Rigs : r.backend \in {"dolt", "br"} /\ r.bd \in BOOLEAN /\ r.br \in BOOLEAN
                       /\ r.prefixed \in BOOLEAN

VARIABLES
    rig, asked,
    second,   \* of the clock that names minted beads
    bead,     \* of a handle: its bead
    dir,      \* of a handle: its run directory, the last time written, its files
    run,      \* of a run: where it stands and under which handle; does it take that for a
              \* bead's name, and was it no more than a word that bd printed (history)
    flow,     \* its state in Prefect, and whether it bears the tag issue_id:<handle>
    mishaps

promptVars == <<rig, asked, second, bead, dir, run, flow, mishaps>>

\* What a run writes, and what its agent may still write when the run is over.
Files == {"prompt.md", "reply.md", "session_id.txt", "notes.md"}

\* A handle names the bead, or stands for it: ids the tracker gives, ids made from the
\* clock, prompt-<label> for a run without a bead, and a word that names none.
Handles ==
    [kind : {"given"}, label : {NoLabel}, n : 1..Cardinality(Runs)]
    \cup [kind : {"minted"}, label : Labels, n : 0..MaxSecond]
    \cup [kind : {"slug"}, label : Labels, n : {0}]
    \cup [kind : {"word"}, label : {NoLabel}, n : {0}]
NoHandle == [kind |-> "none", label |-> NoLabel, n |-> 0]
Slug(label) == [kind |-> "slug", label |-> label, n |-> 0]
Word == [kind |-> "word", label |-> NoLabel, n |-> 0]
Minted(label) == [kind |-> "minted", label |-> label, n |-> second]

NoBead == [status |-> "none", by |-> Nobody, closer |-> Nobody, dir |-> FALSE]
Beads == [status : {"none", "open", "in_progress", "closed"}, by : Runs \cup {Nobody},
          closer : Runs \cup {Nobody}, dir : BOOLEAN]
\* Times of the files; 0: not there.
NoDir == [there |-> FALSE, moved |-> FALSE, now |-> 0, files |-> [f \in Files |-> 0]]
Dirs == [there : BOOLEAN, moved : BOOLEAN, now : 0..MaxWrites, files : [Files -> 0..MaxWrites]]

PCs == {"new", "prepare", "stamp", "tag", "claim", "ask", "turn", "reply", "session", "close",
        "done", "failed", "killed"}
Over == {"done", "failed", "killed"}
Terminal == {"Completed", "Failed", "Crashed", "Cancelled", "Cancelling"}
States == {"Running"} \cup Terminal

PromptInit ==
    /\ rig \in Rigs /\ asked \in Asks
    /\ second = 0
    /\ bead = [h \in Handles |-> NoBead]
    /\ dir = [h \in Handles |-> NoDir]
    /\ run = [p \in Runs |-> [pc |-> "new", handle |-> NoHandle, bead |-> FALSE,
                          text |-> FALSE]]
    /\ flow = [p \in Runs |-> [state |-> "Running", tagged |-> FALSE]]
    /\ mishaps = 0

-----------------------------------------------------------------------------

At(p, pc) == run[p].pc = pc
Go(p, pc) == run' = [run EXCEPT ![p].pc = pc]
Handle(p) == run[p].handle
Same == UNCHANGED <<rig, asked, second>>

Mishap == mishaps < MaxFaults /\ mishaps' = mishaps + 1
Fine == UNCHANGED mishaps

\* An exception that leaves the flow function fails the flow run.
Raise(p) ==
    /\ run' = [run EXCEPT ![p].pc = "failed"]
    /\ flow' = [flow EXCEPT ![p].state = "Failed"]

Put(h, f) ==
    /\ dir[h].now < MaxWrites
    /\ dir' = [dir EXCEPT ![h].now = @ + 1, ![h].files[f] = dir[h].now + 1]

\* A file is written and the run goes on; without its directory it raises.
Write(p, f, next) ==
    \/ dir[Handle(p)].there /\ Put(Handle(p), f) /\ Go(p, next) /\ UNCHANGED flow
    \/ ~dir[Handle(p)].there /\ Raise(p) /\ UNCHANGED dir

-----------------------------------------------------------------------------
(* The bead.                                                               *)

\* An id that the tracker gives is no other bead's.
Given == {h \in Handles : h.kind = "given" /\ bead[h] = NoBead}

\* create_bead, not a dry run, and `bd` on PATH, whatever the backend of the rig.
Wanted(p) == asked[p].bead /\ ~asked[p].dry /\ rig.bd

Named(p, h, has, text) ==
    /\ run' = [run EXCEPT ![p] = [pc |-> "prepare", handle |-> h, bead |-> has, text |-> text]]
    /\ UNCHANGED flow

\* "already exists" counts as success.
Made(h) == bead' = [bead EXCEPT ![h] = IF @ = NoBead THEN [@ EXCEPT !.status = "open"] ELSE @]

\* Mutant: the id that was asked for is reported, not the one the tracker gave.
Reported_Asked(p, made) == Minted(asked[p].label)

\* The id in the tracker's answer.
Reported(p, made) == made

\* The name under which mint_seed_bead has a bead made: <prefix>-<second>; the tracker's
\* own id on br and where bd insists on its prefix.
Mintable(p) == IF rig.backend = "br" \/ rig.prefixed THEN Given ELSE {Minted(asked[p].label)}

\* mint_seed_bead raises where the call fails, times out or answers without an id, and
\* the bead may be there nevertheless.
Mint(p) ==
    /\ At(p, "new") /\ Wanted(p) /\ asked[p].fresh
    /\ \/ /\ (rig.backend = "dolt" \/ rig.br) /\ Fine
          /\ \E made \in Mintable(p) : Made(made) /\ Named(p, Reported(p, made), TRUE, FALSE)
       \/ rig.backend = "br" /\ ~rig.br /\ Raise(p) /\ UNCHANGED bead /\ Fine
       \/ /\ (rig.backend = "dolt" \/ rig.br) /\ Mishap
          /\ Raise(p)
          /\ (UNCHANGED bead \/ \E made \in Mintable(p) : Made(made))
    /\ UNCHANGED dir /\ Same

\* _bd_create asks for `bd`: in a br rig that fails. The object with the new id is the
\* answer it expects. A failure or another JSON value leaves the slug, though a bead may
\* have been made; where the answer is no JSON, its first hyphenated word is the id: of
\* the new bead, of any other, or of none.
BdCreate(p) ==
    /\ At(p, "new") /\ Wanted(p) /\ ~asked[p].fresh
    /\ \/ /\ rig.backend = "dolt" /\ Fine
          /\ \E h \in Given : Made(h) /\ Named(p, h, TRUE, FALSE)
       \/ /\ rig.backend = "br" /\ Fine
          /\ Named(p, Slug(asked[p].label), FALSE, FALSE) /\ UNCHANGED bead
       \/ /\ rig.backend = "dolt" /\ Mishap
          /\ Named(p, Slug(asked[p].label), FALSE, FALSE)
          /\ (UNCHANGED bead \/ \E h \in Given : Made(h))
       \/ /\ rig.backend = "dolt" /\ Mishap
          /\ \E h \in Given : \E word \in {Word, h} \cup {g \in Handles : bead[g] # NoBead} :
                Made(h) /\ Named(p, word, TRUE, word # h)
    /\ UNCHANGED dir /\ Same

Beadless(p) ==
    /\ At(p, "new") /\ ~Wanted(p)
    /\ Named(p, Slug(asked[p].label), FALSE, FALSE)
    /\ UNCHANGED <<bead, dir>> /\ Fine /\ Same

-----------------------------------------------------------------------------
(* prompt_run.                                                             *)

\* The backend that PO_BACKEND names needs a tmux that is not there.
NoBackend(p) == Raise(p) /\ Mishap

\* The directory, the prompt, the session.
Prepare(p) ==
    /\ At(p, "prepare")
    /\ \/ Go(p, "stamp") /\ UNCHANGED flow /\ Fine
       \/ NoBackend(p)
    /\ dir[Handle(p)].now < MaxWrites
    /\ LET h == Handle(p) IN
       dir' = [dir EXCEPT ![h].there = TRUE, ![h].now = @ + 1, ![h].files["prompt.md"] = dir[h].now + 1]
    /\ UNCHANGED bead /\ Same

\* Can a call of `bd` about the run's bead do anything? Only where there is that bead.
Updatable(p) == run[p].bead /\ rig.backend = "dolt" /\ bead[Handle(p)] # NoBead

\* Calls about the bead are not checked: one that fails is passed over.
Update(p, next, change) ==
    /\ Go(p, next)
    /\ \/ /\ Fine
          /\ bead' = IF Updatable(p) THEN [bead EXCEPT ![Handle(p)] = change] ELSE bead
       \/ run[p].bead /\ Mishap /\ UNCHANGED bead
    /\ UNCHANGED <<dir, flow>> /\ Same

\* po.rig_path and po.run_dir, by which the other commands find the directory.
Stamp(p) == At(p, "stamp") /\ Update(p, "tag", [bead[Handle(p)] EXCEPT !.dir = TRUE])

Tag(p) ==
    /\ At(p, "tag") /\ Go(p, "claim")
    /\ \/ flow' = [flow EXCEPT ![p].tagged = TRUE] /\ Fine
       \/ UNCHANGED flow /\ Mishap
    /\ UNCHANGED <<bead, dir>> /\ Same

\* A closed bead is taken up again.
Claim(p) ==
    /\ At(p, "claim")
    /\ Update(p, "ask", [bead[Handle(p)] EXCEPT !.status = "in_progress", !.by = p])

\* The prompt is written again, now with the paragraph about the bead.
Ask(p) ==
    /\ At(p, "ask") /\ Write(p, "prompt.md", "turn")
    /\ UNCHANGED bead /\ Fine /\ Same

\* AgentSession.prompt.
Turn(p) ==
    /\ At(p, "turn")
    /\ \/ Go(p, "reply") /\ UNCHANGED flow /\ Fine
       \/ Raise(p) /\ Mishap
    /\ UNCHANGED <<bead, dir>> /\ Same

\* Mutant: an empty reply leaves no file.
Reply_NonEmpty(p) ==
    /\ At(p, "reply")
    /\ \/ Write(p, "reply.md", "session")
       \/ Go(p, "session") /\ UNCHANGED <<dir, flow>>
    /\ UNCHANGED bead /\ Fine /\ Same

Reply(p) ==
    /\ At(p, "reply") /\ Write(p, "reply.md", "session")
    /\ UNCHANGED bead /\ Fine /\ Same

\* A session that reports no id leaves no file.
Session(p) ==
    /\ At(p, "session")
    /\ \/ Write(p, "session_id.txt", "close")
       \/ Go(p, "close") /\ UNCHANGED <<dir, flow>>
    /\ UNCHANGED bead /\ Fine /\ Same

Return(p) ==
    /\ run' = [run EXCEPT ![p].pc = "done"]
    /\ flow' = [flow EXCEPT ![p].state = IF @ = "Running" THEN "Completed" ELSE @]

\* The artifact that is created first may raise.
Close(p) ==
    /\ At(p, "close")
    /\ \/ /\ Return(p) /\ Fine
          /\ bead' = IF Updatable(p) /\ asked[p].close
                     THEN [bead EXCEPT ![Handle(p)].status = "closed", ![Handle(p)].closer = p]
                     ELSE bead
       \/ run[p].bead /\ asked[p].close /\ Return(p) /\ Mishap /\ UNCHANGED bead
       \/ Raise(p) /\ Mishap /\ UNCHANGED bead
    /\ UNCHANGED dir /\ Same

RunStep(p) ==
    \/ Mint(p) \/ BdCreate(p) \/ Beadless(p) \/ Prepare(p) \/ Stamp(p) \/ Tag(p) \/ Claim(p)
    \/ Ask(p) \/ Turn(p) \/ Reply(p) \/ Session(p) \/ Close(p)

-----------------------------------------------------------------------------
(* What happens around it.                                                 *)

\* The process of a run dies; Prefect may learn of it.
Killed(p) ==
    /\ run[p].pc \notin Over /\ Mishap /\ Go(p, "killed")
    /\ flow' \in {flow, [flow EXCEPT ![p].state = "Crashed"]}
    /\ UNCHANGED <<bead, dir>> /\ Same

\* The run is cancelled in Prefect, which then stops its process.
Cancelled(p) ==
    /\ run[p].pc \notin Over \cup {"new"}
    /\ \/ flow[p].state = "Running" /\ Mishap
          /\ flow' = [flow EXCEPT ![p].state = "Cancelling"] /\ UNCHANGED run
       \/ flow[p].state = "Cancelling" /\ Fine
          /\ flow' = [flow EXCEPT ![p].state = "Cancelled"] /\ Go(p, "killed")
    /\ UNCHANGED <<bead, dir>> /\ Same

\* A file the agent writes on its own, the flow's end or not.
AgentWrites(p) ==
    /\ run[p].pc \in {"turn"} \cup Over /\ run[p].handle # NoHandle
    /\ dir[Handle(p)].there /\ Put(Handle(p), "notes.md")
    /\ UNCHANGED <<bead, run, flow>> /\ Fine /\ Same

\* A run directory is moved away (`po retry`) or removed.
Removed(h) ==
    /\ dir[h].there /\ Mishap
    /\ dir' = [dir EXCEPT ![h] = [NoDir EXCEPT !.now = dir[h].now, !.moved = TRUE]]
    /\ UNCHANGED <<bead, run, flow>> /\ Same

Tick ==
    /\ second < MaxSecond /\ second' = second + 1
    /\ UNCHANGED <<rig, asked, bead, dir, run, flow, mishaps>>

PromptNext ==
    \/ \E p \in Runs : RunStep(p) \/ Killed(p) \/ Cancelled(p) \/ AgentWrites(p)
    \/ \E h \in Handles : Removed(h)
    \/ Tick

PromptSpec == PromptInit /\ [][PromptNext]_promptVars

-----------------------------------------------------------------------------
(* Properties.                                                             *)

PromptTypeOK ==
    /\ rig \in Rigs /\ asked \in Asks /\ second \in 0..MaxSecond
    /\ bead \in [Handles -> Beads] /\ dir \in [Handles -> Dirs]
    /\ run \in [Runs -> [pc : PCs, handle : Handles \cup {NoHandle}, bead : BOOLEAN,
                       text : BOOLEAN]]
    /\ flow \in [Runs -> [state : States, tagged : BOOLEAN]]
    /\ mishaps \in 0..MaxFaults

\* A run that was told the id of its bead has that bead (beads_meta.py:518), and with it a
\* directory and a reply of its own. Two cases are set apart: two fresh runs that mint in
\* one second share all three, and a run that took a word of bd's output for the id may
\* have no bead or another run's.
OwnBead ==
    \A p \in Runs : run[p].bead /\ ~run[p].text =>
        /\ bead[Handle(p)] # NoBead
        /\ \A q \in Runs \ {p} : Handle(q) = Handle(p) =>
              run[q].text \/ (Handle(p).kind = "minted" /\ asked[p].fresh /\ asked[q].fresh)

\* A bead that a run closed has its reply on disk, wherever other runs stand, are killed or
\* fail (prompt_formula.py:312-334), unless its directory was taken away.
ClosedIsAnswered ==
    \A h \in Handles : bead[h].status = "closed" /\ ~dir[h].moved =>
        dir[h].files["reply.md"] > 0
=============================================================================
