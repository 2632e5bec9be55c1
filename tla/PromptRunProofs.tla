---------------------------- MODULE PromptRunProofs ----------------------------
(***************************************************************************)
(* For any runs, labels, rigs and bounds: the state of PromptRun is well   *)
(* typed, beads are the runs' own, and a closed bead has its reply.        *)
(***************************************************************************)
EXTENDS PromptRun, TLAPS

\* The handles that a run may get are handles; none of them is no handle.
LEMMA HandlesOK ==
    ASSUME PromptTypeOK, NEW p \in Runs
    PROVE  /\ asked[p] \in Asked /\ asked[p].label \in Labels
           /\ Slug(asked[p].label) \in Handles /\ Slug(asked[p].label).kind = "slug"
           /\ Minted(asked[p].label) \in Handles /\ Minted(asked[p].label).kind = "minted"
           /\ Given \subseteq Handles /\ Word \in Handles
           /\ Mintable(p) \subseteq {h \in Handles : h.kind \in {"given", "minted"}
                                                  /\ (h.kind = "given" => bead[h] = NoBead)}
           /\ NoHandle \notin Handles /\ NoHandle.kind = "none"
<1>1. asked[p] \in Asked /\ asked[p].label \in Labels
  BY PromptAssumption DEF PromptTypeOK, Asked
<1>2. NoHandle \notin Handles /\ NoHandle.kind = "none"
  BY DEF NoHandle, Handles
<1>3. Slug(asked[p].label) \in Handles /\ Slug(asked[p].label).kind = "slug"
  BY <1>1 DEF Slug, Handles
<1>4. Minted(asked[p].label) \in Handles /\ Minted(asked[p].label).kind = "minted"
  BY <1>1 DEF Minted, Handles, PromptTypeOK
<1>5. Word \in Handles
  BY DEF Word, Handles
<1>6. \A h \in Mintable(p) : /\ h \in Handles /\ h.kind \in {"given", "minted"}
                             /\ h.kind = "given" => bead[h] = NoBead
  BY <1>4 DEF Mintable, Given
<1> QED
  BY <1>1, <1>2, <1>3, <1>4, <1>5, <1>6 DEF Given

\* A run that is under way has a handle.
Named1 == \A p \in Runs : run[p].pc \notin {"new", "failed", "killed"} => run[p].handle \in Handles

PInv == PromptTypeOK /\ Named1

LEMMA InitPInv == PromptInit => PInv
<1> SUFFICES ASSUME PromptInit PROVE PInv
  OBVIOUS
<1> USE PromptAssumption DEF PromptInit
<1>1. bead \in [Handles -> Beads]
  BY DEF NoBead, Beads
<1>2. dir \in [Handles -> Dirs]
  BY DEF NoDir, Dirs
<1>3. run \in [Runs -> [pc : PCs, handle : Handles \cup {NoHandle}, bead : BOOLEAN,
                       text : BOOLEAN]]
  BY DEF PCs
<1>4. flow \in [Runs -> [state : States, tagged : BOOLEAN]]
  BY DEF States
<1>5. second \in 0..MaxSecond /\ mishaps \in 0..MaxFaults
  OBVIOUS
<1> QED
  BY <1>1, <1>2, <1>3, <1>4, <1>5 DEF PInv, PromptTypeOK, Named1

-----------------------------------------------------------------------------
(* The parts that actions are made of keep the types.                      *)

RunType == [pc : PCs, handle : Handles \cup {NoHandle}, bead : BOOLEAN, text : BOOLEAN]
RunOK == run \in [Runs -> RunType] /\ Named1
FlowOK == flow \in [Runs -> [state : States, tagged : BOOLEAN]]
BeadOK == bead \in [Handles -> Beads]
DirOK == dir \in [Handles -> Dirs]

LEMMA Parts == PInv <=> /\ RunOK /\ FlowOK /\ BeadOK /\ DirOK
                        /\ rig \in Rigs /\ asked \in Asks /\ second \in 0..MaxSecond
                        /\ mishaps \in 0..MaxFaults
BY DEF PInv, PromptTypeOK, RunOK, RunType, FlowOK, BeadOK, DirOK

LEMMA PartsNext ==
    ASSUME PInv, Same, RunOK', FlowOK', BeadOK', DirOK', (mishaps \in 0..MaxFaults)'
    PROVE  PInv'
BY DEF PInv, PromptTypeOK, Same, RunOK, RunType, FlowOK, BeadOK, DirOK

LEMMA GoOK ==
    ASSUME PInv, NEW p \in Runs, NEW to \in PCs, Go(p, to),
           run[p].pc \notin {"new", "failed", "killed"} \/ to \in {"failed", "killed"}
    PROVE  RunOK'
BY DEF Go, PInv, PromptTypeOK, RunOK, RunType, Named1

LEMMA RaiseOK ==
    ASSUME PInv, NEW p \in Runs, Raise(p)
    PROVE  RunOK' /\ FlowOK'
BY DEF Raise, PInv, PromptTypeOK, RunOK, RunType, Named1, FlowOK, PCs, States, Terminal

LEMMA NamedOK ==
    ASSUME PInv, NEW p \in Runs, NEW h \in Handles, NEW b \in BOOLEAN, NEW t \in BOOLEAN,
           Named(p, h, b, t)
    PROVE  RunOK' /\ FlowOK'
BY DEF Named, PInv, PromptTypeOK, RunOK, RunType, Named1, FlowOK, PCs

LEMMA MadeOK ==
    ASSUME PInv, NEW h \in Handles, Made(h)
    PROVE  BeadOK'
BY DEF Made, PInv, PromptTypeOK, BeadOK, Beads, NoBead

LEMMA PutOK ==
    ASSUME PInv, NEW h \in Handles, NEW f \in Files, Put(h, f)
    PROVE  DirOK'
<1>1. dir[h].now + 1 \in 0..MaxWrites
  BY PromptAssumption DEF Put, PInv, PromptTypeOK, Dirs
<1>2. [dir[h] EXCEPT !.now = dir[h].now + 1, !.files[f] = dir[h].now + 1] \in Dirs
  BY <1>1 DEF PInv, PromptTypeOK, Dirs
<1> QED
  BY <1>2 DEF Put, PInv, PromptTypeOK, DirOK

LEMMA WriteOK ==
    ASSUME PInv, NEW p \in Runs, NEW f \in Files, NEW to \in PCs, Write(p, f, to),
           run[p].pc \notin {"new", "failed", "killed"}
    PROVE  RunOK' /\ FlowOK' /\ DirOK'
<1>1. Handle(p) \in Handles
  BY DEF Handle, PInv, Named1
<1>2. CASE dir[Handle(p)].there /\ Put(Handle(p), f) /\ Go(p, to) /\ UNCHANGED flow
  BY <1>1, <1>2, PutOK, GoOK, Parts DEF FlowOK
<1>3. CASE ~dir[Handle(p)].there /\ Raise(p) /\ UNCHANGED dir
  BY <1>3, RaiseOK, Parts DEF DirOK
<1> QED
  BY <1>2, <1>3 DEF Write

LEMMA MishapOK ==
    ASSUME PInv, Mishap \/ Fine
    PROVE  (mishaps \in 0..MaxFaults)'
BY PromptAssumption DEF Mishap, Fine, PInv, PromptTypeOK

LEMMA UpdateOK ==
    ASSUME PInv, NEW p \in Runs, NEW to \in PCs, NEW change \in Beads, Update(p, to, change),
           run[p].pc \notin {"new", "failed", "killed"}
    PROVE  PInv'
<1>1. BeadOK'
  BY DEF Update, PInv, PromptTypeOK, BeadOK
<1>2. RunOK'
  BY GoOK DEF Update
<1>3. (mishaps \in 0..MaxFaults)'
  BY MishapOK DEF Update
<1>4. FlowOK' /\ DirOK'
  BY Parts DEF Update, FlowOK, DirOK
<1> QED
  BY <1>1, <1>2, <1>3, <1>4, PartsNext DEF Update

-----------------------------------------------------------------------------
(* How a run comes by its handle.                                          *)

\* Minting gives a run a bead that is there, or the run fails.
LEMMA Minting ==
    ASSUME PInv, NEW p \in Runs, Mint(p)
    PROVE  \/ \E h \in Handles : /\ Made(h) /\ Named(p, h, TRUE, FALSE)
                                 /\ h.kind \in {"given", "minted"}
                                 /\ h.kind = "given" => bead[h] = NoBead
           \/ Raise(p) /\ UNCHANGED bead
           \/ Raise(p) /\ \E h \in Handles : Made(h)
<1>1. Mintable(p) \subseteq {h \in Handles : h.kind \in {"given", "minted"}
                                           /\ (h.kind = "given" => bead[h] = NoBead)}
  BY HandlesOK DEF PInv
<1>2. CASE \E made \in Mintable(p) : Made(made) /\ Named(p, Reported(p, made), TRUE, FALSE)
  BY <1>1, <1>2 DEF Reported
<1>3. CASE Raise(p) /\ UNCHANGED bead
  BY <1>3
<1>4. CASE Raise(p) /\ \E made \in Mintable(p) : Made(made)
  BY <1>1, <1>4
<1> QED
  BY <1>2, <1>3, <1>4 DEF Mint

\* The other way of creating gives a new bead, a word, or the slug.
LEMMA Creating ==
    ASSUME PInv, NEW p \in Runs, BdCreate(p)
    PROVE  \/ \E h \in Handles : /\ Made(h) /\ Named(p, h, TRUE, FALSE)
                                 /\ h.kind = "given" /\ bead[h] = NoBead
           \/ \E h, word \in Handles : Made(h) /\ Named(p, word, TRUE, TRUE)
           \/ Named(p, Slug(asked[p].label), FALSE, FALSE) /\ UNCHANGED bead
           \/ /\ Named(p, Slug(asked[p].label), FALSE, FALSE)
              /\ \E h \in Handles : Made(h)
<1>1. Given \subseteq Handles /\ Word \in Handles
  BY HandlesOK DEF PInv
<1>2. CASE \E h \in Given : Made(h) /\ Named(p, h, TRUE, FALSE)
  BY <1>2 DEF Given
<1>3. CASE Named(p, Slug(asked[p].label), FALSE, FALSE) /\ UNCHANGED bead
  BY <1>3
<1>4. CASE Named(p, Slug(asked[p].label), FALSE, FALSE) /\ \E h \in Given : Made(h)
  BY <1>1, <1>4
<1>5. CASE \E h \in Given : \E word \in {Word, h} \cup {g \in Handles : bead[g] # NoBead} :
                Made(h) /\ Named(p, word, TRUE, word # h)
  <2>1. PICK h \in Given, word \in Handles : Made(h) /\ Named(p, word, TRUE, word # h)
    BY <1>1, <1>5
  <2>2. CASE word = h
    <3>1. Named(p, h, TRUE, FALSE)
      BY <2>1, <2>2
    <3> QED
      BY <2>1, <3>1 DEF Given
  <2>3. CASE word # h
    <3>1. Named(p, word, TRUE, TRUE)
      BY <2>1, <2>3
    <3> QED
      BY <1>1, <2>1, <3>1
  <2> QED
    BY <2>2, <2>3
<1> QED
  BY <1>2, <1>3, <1>4, <1>5 DEF BdCreate

-----------------------------------------------------------------------------
(* Every step keeps the types.                                             *)

LEMMA RunStepOK ==
    ASSUME PInv, NEW p \in Runs, RunStep(p)
    PROVE  PInv'
<1>0. /\ RunOK /\ FlowOK /\ BeadOK /\ DirOK
      /\ run[p].pc \notin {"new", "failed", "killed"} => Handle(p) \in Handles
  BY Parts DEF RunOK, Named1, Handle
<1>1. CASE Mint(p)
  <2>1. (mishaps \in 0..MaxFaults)' /\ DirOK' /\ Same
    BY <1>0, <1>1, MishapOK DEF Mint, DirOK
  <2>2. CASE \E h \in Handles : Made(h) /\ Named(p, h, TRUE, FALSE)
    <3>1. PICK h \in Handles : Made(h) /\ Named(p, h, TRUE, FALSE)
      BY <2>2
    <3> QED
      BY <2>1, <3>1, MadeOK, NamedOK, PartsNext
  <2>3. CASE Raise(p) /\ UNCHANGED bead
    BY <1>0, <2>1, <2>3, RaiseOK, PartsNext DEF BeadOK
  <2>4. CASE Raise(p) /\ \E h \in Handles : Made(h)
    BY <2>1, <2>4, MadeOK, RaiseOK, PartsNext
  <2> QED
    BY <1>1, <2>2, <2>3, <2>4, Minting
<1>2. CASE BdCreate(p)
  <2>1. (mishaps \in 0..MaxFaults)' /\ DirOK' /\ Same
    BY <1>0, <1>2, MishapOK DEF BdCreate, DirOK
  <2>2. CASE \E h \in Handles : Made(h) /\ Named(p, h, TRUE, FALSE)
    <3>1. PICK h \in Handles : Made(h) /\ Named(p, h, TRUE, FALSE)
      BY <2>2
    <3> QED
      BY <2>1, <3>1, MadeOK, NamedOK, PartsNext
  <2>3. CASE \E h, word \in Handles : Made(h) /\ Named(p, word, TRUE, TRUE)
    <3>1. PICK h \in Handles, word \in Handles : Made(h) /\ Named(p, word, TRUE, TRUE)
      BY <2>3
    <3> QED
      BY <2>1, <3>1, MadeOK, NamedOK, PartsNext
  <2>4. CASE Named(p, Slug(asked[p].label), FALSE, FALSE)
    <3>1. RunOK' /\ FlowOK'
      BY <2>4, HandlesOK, NamedOK DEF PInv
    <3>2. CASE UNCHANGED bead
      BY <1>0, <2>1, <3>1, <3>2, PartsNext DEF BeadOK
    <3>3. CASE \E h \in Handles : Made(h)
      BY <2>1, <3>1, <3>3, MadeOK, PartsNext
    <3> QED
      BY <1>2, <2>2, <2>3, <3>2, <3>3, Creating
  <2> QED
    BY <1>2, <2>2, <2>3, <2>4, Creating
<1>3. CASE Beadless(p)
  <2>1. (mishaps \in 0..MaxFaults)'
    BY <1>3, MishapOK DEF Beadless
  <2> QED
    BY <1>0, <1>3, <2>1, HandlesOK, NamedOK, PartsNext DEF Beadless, BeadOK, DirOK, PInv
<1>4. CASE Prepare(p)
  <2>1. (mishaps \in 0..MaxFaults)' /\ BeadOK'
    BY <1>0, <1>4, MishapOK DEF Prepare, NoBackend, BeadOK
  <2>2. RunOK' /\ FlowOK'
    BY <1>0, <1>4, GoOK, RaiseOK DEF Prepare, NoBackend, At, PCs, FlowOK
  <2>3. /\ Handle(p) \in Handles /\ dir[Handle(p)].now + 1 \in 0..MaxWrites
        /\ dir[Handle(p)] \in Dirs
    BY <1>0, <1>4, PromptAssumption DEF Prepare, At, DirOK, Dirs
  <2>4. [dir[Handle(p)] EXCEPT !.there = TRUE, !.now = dir[Handle(p)].now + 1,
                               !.files["prompt.md"] = dir[Handle(p)].now + 1] \in Dirs
    BY <2>3 DEF Dirs
  <2>5. DirOK'
    BY <1>0, <1>4, <2>3, <2>4 DEF Prepare, DirOK
  <2> QED
    BY <1>4, <2>1, <2>2, <2>5, PartsNext DEF Prepare
<1>5. CASE Stamp(p)
  <2>1. [bead[Handle(p)] EXCEPT !.dir = TRUE] \in Beads
    BY <1>0, <1>5 DEF Stamp, At, BeadOK, Beads
  <2> QED
    BY <1>5, <2>1, UpdateOK DEF Stamp, At, PCs
<1>6. CASE Tag(p)
  <2>1. (mishaps \in 0..MaxFaults)' /\ BeadOK' /\ DirOK'
    BY <1>0, <1>6, MishapOK DEF Tag, BeadOK, DirOK
  <2>2. RunOK'
    BY <1>6, GoOK DEF Tag, At, PCs
  <2>3. FlowOK'
    BY <1>0, <1>6 DEF Tag, FlowOK
  <2> QED
    BY <1>6, <2>1, <2>2, <2>3, PartsNext DEF Tag
<1>7. CASE Claim(p)
  <2>1. [bead[Handle(p)] EXCEPT !.status = "in_progress", !.by = p] \in Beads
    BY <1>0, <1>7 DEF Claim, At, BeadOK, Beads
  <2> QED
    BY <1>7, <2>1, UpdateOK DEF Claim, At, PCs
<1>8. CASE Ask(p)
  <2>1. RunOK' /\ FlowOK' /\ DirOK'
    BY <1>8, WriteOK DEF Ask, At, PCs, Files
  <2> QED
    BY <1>0, <1>8, <2>1, MishapOK, PartsNext DEF Ask, BeadOK
<1>9. CASE Turn(p)
  <2>1. (mishaps \in 0..MaxFaults)' /\ BeadOK' /\ DirOK'
    BY <1>0, <1>9, MishapOK DEF Turn, BeadOK, DirOK
  <2>2. RunOK' /\ FlowOK'
    BY <1>0, <1>9, GoOK, RaiseOK DEF Turn, At, PCs, FlowOK
  <2> QED
    BY <1>9, <2>1, <2>2, PartsNext DEF Turn
<1>10. CASE Reply(p)
  <2>1. RunOK' /\ FlowOK' /\ DirOK'
    BY <1>10, WriteOK DEF Reply, At, PCs, Files
  <2> QED
    BY <1>0, <1>10, <2>1, MishapOK, PartsNext DEF Reply, BeadOK
<1>11. CASE Session(p)
  <2>1. RunOK' /\ FlowOK' /\ DirOK'
    <3>1. CASE Write(p, "session_id.txt", "close")
      BY <1>11, <3>1, WriteOK DEF Session, At, PCs, Files
    <3>2. CASE Go(p, "close") /\ UNCHANGED <<dir, flow>>
      BY <1>0, <1>11, <3>2, GoOK DEF Session, At, PCs, FlowOK, DirOK
    <3> QED
      BY <1>11, <3>1, <3>2 DEF Session
  <2> QED
    BY <1>0, <1>11, <2>1, MishapOK, PartsNext DEF Session, BeadOK
<1>12. CASE Close(p)
  <2>1. (mishaps \in 0..MaxFaults)' /\ DirOK'
    BY <1>0, <1>12, MishapOK DEF Close, DirOK
  <2>2. CASE Raise(p) /\ UNCHANGED bead
    BY <1>0, <1>12, <2>1, <2>2, RaiseOK, PartsNext DEF Close, BeadOK
  <2> SUFFICES ASSUME Return(p) PROVE PInv'
    BY <1>12, <2>2 DEF Close
  <2>3. RunOK' /\ FlowOK'
    BY <1>0, <1>12 DEF Return, Close, At, RunOK, RunType, Named1, PCs, FlowOK, States, Terminal
  <2>4. BeadOK'
    BY <1>0, <1>12 DEF Close, At, BeadOK, Beads
  <2> QED
    BY <1>12, <2>1, <2>3, <2>4, PartsNext DEF Close
<1> QED
  BY <1>1, <1>2, <1>3, <1>4, <1>5, <1>6, <1>7, <1>8, <1>9, <1>10, <1>11, <1>12 DEF RunStep

LEMMA StepOK ==
    ASSUME PInv, [PromptNext]_promptVars
    PROVE  PInv'
<1>0. RunOK /\ FlowOK /\ BeadOK /\ DirOK
  BY Parts
<1>1. ASSUME NEW p \in Runs, RunStep(p) PROVE PInv'
  BY <1>1, RunStepOK
<1>2. ASSUME NEW p \in Runs, Killed(p) PROVE PInv'
  <2>1. RunOK'
    BY <1>2, GoOK DEF Killed, PCs
  <2>2. FlowOK'
    BY <1>0, <1>2 DEF Killed, FlowOK, States, Terminal
  <2> QED
    BY <1>0, <1>2, <2>1, <2>2, MishapOK, PartsNext DEF Killed, BeadOK, DirOK
<1>3. ASSUME NEW p \in Runs, Cancelled(p) PROVE PInv'
  <2>1. RunOK'
    BY <1>0, <1>3, GoOK DEF Cancelled, PCs, RunOK, RunType, Named1
  <2>2. FlowOK'
    BY <1>0, <1>3 DEF Cancelled, FlowOK, States, Terminal
  <2>3. (mishaps \in 0..MaxFaults)'
    BY <1>3, MishapOK DEF Cancelled
  <2> QED
    BY <1>0, <1>3, <2>1, <2>2, <2>3, PartsNext DEF Cancelled, BeadOK, DirOK
<1>4. ASSUME NEW p \in Runs, AgentWrites(p) PROVE PInv'
  <2>1. Handle(p) \in Handles
    BY <1>0, <1>4 DEF AgentWrites, Handle, RunOK, RunType
  <2>2. DirOK'
    BY <1>4, <2>1, PutOK DEF AgentWrites, Files
  <2> QED
    BY <1>0, <1>4, <2>2, MishapOK, PartsNext DEF AgentWrites, BeadOK, FlowOK, RunOK, Named1
<1>5. ASSUME NEW h \in Handles, Removed(h) PROVE PInv'
  <2>1. [NoDir EXCEPT !.now = dir[h].now, !.moved = TRUE] \in Dirs
    <3>1. dir[h].now \in 0..MaxWrites
      BY <1>0 DEF DirOK, Dirs
    <3>2. NoDir \in Dirs
      BY PromptAssumption DEF NoDir, Dirs
    <3> QED
      BY <3>1, <3>2 DEF Dirs
  <2>2. DirOK'
    BY <1>0, <1>5, <2>1 DEF Removed, DirOK
  <2> QED
    BY <1>0, <1>5, <2>2, MishapOK, PartsNext DEF Removed, BeadOK, FlowOK, RunOK, Named1
<1>6. CASE Tick
  BY <1>6, PromptAssumption DEF Tick, PInv, PromptTypeOK, Named1
<1>7. CASE UNCHANGED promptVars
  BY <1>7 DEF promptVars, PInv, PromptTypeOK, Named1
<1> QED
  BY <1>1, <1>2, <1>3, <1>4, <1>5, <1>6, <1>7 DEF PromptNext

\* Every reachable state is well typed.
THEOREM Typing == PromptSpec => []PromptTypeOK
<1>1. PInv => PromptTypeOK
  BY DEF PInv
<1> QED
  BY <1>1, InitPInv, StepOK, PTL DEF PromptSpec
-----------------------------------------------------------------------------
(* A closed bead has its reply.                                            *)

Answering == {"session", "close"}
HasReply(h) == ~dir[h].moved => dir[h].files["reply.md"] > 0

\* A run past its reply has it on disk, or the directory was taken away; a bead is closed by
\* such a run only.
AnswerInv ==
    /\ \A p \in Runs : run[p].pc \in Answering => HasReply(Handle(p))
    /\ ClosedIsAnswered

\* What a step does to the directories: a reply that is there stays, or its directory is
\* marked as taken away for good.
Grows == \A h \in Handles : HasReply(h) => HasReply(h)'

\* A run gets past its reply by writing it; no other step leads there.
Earned == \A q \in Runs : run'[q].pc \in Answering =>
              \/ run[q].pc \in Answering /\ run'[q].handle = run[q].handle
              \/ HasReply(Handle(q))'

ClosedByAnswer == \A h \in Handles : bead'[h].status = "closed" =>
                      bead[h].status = "closed" \/ HasReply(h)

LEMMA AnswerKept ==
    ASSUME PInv, AnswerInv, Grows, Earned, ClosedByAnswer
    PROVE  AnswerInv'
<1>1. \A h \in Handles : bead'[h].status = "closed" => HasReply(h)'
  BY DEF AnswerInv, Grows, ClosedByAnswer, ClosedIsAnswered, HasReply
<1>2. ASSUME NEW q \in Runs, run'[q].pc \in Answering PROVE HasReply(Handle(q))'
  <2>1. CASE run[q].pc \in Answering /\ run'[q].handle = run[q].handle
    <3>1. Handle(q) \in Handles /\ HasReply(Handle(q))
      BY <2>1 DEF PInv, Named1, Handle, Answering, AnswerInv
    <3> QED
      BY <2>1, <3>1 DEF Grows, HasReply, Handle
  <2> QED
    BY <1>2, <2>1 DEF Earned
<1> QED
  BY <1>1, <1>2 DEF AnswerInv, ClosedIsAnswered, HasReply

LEMMA PutGrows ==
    ASSUME PInv, NEW h \in Handles, NEW f \in Files, Put(h, f)
    PROVE  Grows /\ (f = "reply.md" => HasReply(h)')
<1> DEFINE d == dir[h]
           e == [d EXCEPT !.now = d.now + 1, !.files[f] = d.now + 1]
<1>1. d \in Dirs /\ d.now + 1 > 0
  BY PromptAssumption DEF PInv, PromptTypeOK, Dirs
<1>2. /\ e.moved = d.moved
      /\ e.files["reply.md"] = IF f = "reply.md" THEN d.now + 1 ELSE d.files["reply.md"]
  BY <1>1 DEF Dirs, Files
<1>3. dir' = [dir EXCEPT ![h] = e]
  BY DEF Put, PInv, PromptTypeOK
<1>4. dir'[h] = e /\ \A g \in Handles \ {h} : dir'[g] = dir[g]
  BY <1>3 DEF PInv, PromptTypeOK
<1> HIDE DEF d, e
<1> QED
  BY <1>1, <1>2, <1>4 DEF Grows, HasReply, d

LEMMA GoEarned ==
    ASSUME PInv, NEW p \in Runs, NEW to \in PCs, Go(p, to),
           to \in Answering => run[p].pc \in Answering
    PROVE  Earned
BY DEF Go, PInv, PromptTypeOK, Earned

LEMMA RaiseEarned ==
    ASSUME PInv, NEW p \in Runs, Raise(p)
    PROVE  Earned
BY DEF Raise, PInv, PromptTypeOK, Earned, Answering

LEMMA NamedEarned ==
    ASSUME PInv, NEW p \in Runs, NEW h, NEW b, NEW t, Named(p, h, b, t)
    PROVE  Earned
BY DEF Named, PInv, PromptTypeOK, Earned, Answering

LEMMA MadeClosed ==
    ASSUME PInv, NEW h \in Handles, Made(h)
    PROVE  ClosedByAnswer
BY DEF Made, PInv, PromptTypeOK, ClosedByAnswer, Beads, NoBead

LEMMA SameDir == PInv /\ UNCHANGED dir => Grows
BY DEF Grows, HasReply

LEMMA SameBead == PInv /\ UNCHANGED bead => ClosedByAnswer
BY DEF ClosedByAnswer

LEMMA WriteGrows ==
    ASSUME PInv, NEW p \in Runs, NEW f \in Files, NEW to \in PCs, Write(p, f, to),
           run[p].pc \notin {"new", "failed", "killed"},
           to \in Answering => run[p].pc \in Answering \/ f = "reply.md"
    PROVE  Grows /\ Earned
<1>1. Handle(p) \in Handles
  BY DEF Handle, PInv, Named1
<1>2. CASE Put(Handle(p), f) /\ Go(p, to)
  <2>1. PICK h \in Handles : h = Handle(p)
    BY <1>1
  <2>2. Grows /\ (f = "reply.md" => HasReply(h)')
    BY <1>2, <2>1, PutGrows
  <2>3. run'[p] = [run[p] EXCEPT !.pc = to] /\ \A q \in Runs \ {p} : run'[q] = run[q]
    BY <1>2 DEF Go, PInv, PromptTypeOK
  <2>4. run'[p].handle = h /\ run[p].handle = h /\ run'[p].pc = to
    BY <2>1, <2>3 DEF Handle, PInv, PromptTypeOK
  <2>5. Handle(p)' = h
    BY <2>4 DEF Handle
  <2>6. f = "reply.md" => HasReply(Handle(p))'
    BY <2>2, <2>5 DEF HasReply
  <2> QED
    BY <2>2, <2>3, <2>4, <2>6 DEF Earned
<1>3. CASE Raise(p) /\ UNCHANGED dir
  BY <1>3, RaiseEarned, SameDir
<1> QED
  BY <1>2, <1>3 DEF Write

LEMMA UpdateKeeps ==
    ASSUME PInv, AnswerInv, NEW p \in Runs, NEW to \in PCs, NEW change \in Beads,
           Update(p, to, change), to \notin Answering,
           change.status = "closed" => bead[Handle(p)].status = "closed"
    PROVE  AnswerInv'
<1>1. ClosedByAnswer
  BY DEF Update, PInv, PromptTypeOK, ClosedByAnswer
<1>2. Earned /\ Grows
  BY GoEarned, SameDir DEF Update
<1> QED
  BY <1>1, <1>2, AnswerKept

LEMMA RunStepAnswer ==
    ASSUME PInv, AnswerInv, NEW p \in Runs, RunStep(p)
    PROVE  AnswerInv'
<1>0. run[p].pc \notin {"new", "failed", "killed"} => Handle(p) \in Handles
  BY DEF PInv, Named1, Handle
<1>1. CASE Mint(p)
  <2>1. Earned
    BY <1>1, Minting, NamedEarned, RaiseEarned
  <2>2. ClosedByAnswer
    BY <1>1, Minting, MadeClosed, SameBead
  <2> QED
    BY <1>1, <2>1, <2>2, SameDir, AnswerKept DEF Mint
<1>2. CASE BdCreate(p)
  <2>1. Earned
    BY <1>2, Creating, NamedEarned
  <2>2. ClosedByAnswer
    BY <1>2, Creating, MadeClosed, SameBead
  <2> QED
    BY <1>2, <2>1, <2>2, SameDir, AnswerKept DEF BdCreate
<1>3. CASE Beadless(p)
  BY <1>3, NamedEarned, SameDir, SameBead, AnswerKept DEF Beadless
<1>4. CASE Prepare(p)
  <2>1. Earned
    BY <1>4, GoEarned, RaiseEarned DEF Prepare, NoBackend, PCs, Answering
  <2>2. PICK h \in Handles : h = Handle(p)
    BY <1>0, <1>4 DEF Prepare, At
  <2> DEFINE d == dir[h]
             e == [d EXCEPT !.there = TRUE, !.now = d.now + 1, !.files["prompt.md"] = d.now + 1]
  <2>3. e.moved = d.moved /\ e.files["reply.md"] = d.files["reply.md"]
    BY DEF PInv, PromptTypeOK, Dirs, Files
  <2>4. dir' = [dir EXCEPT ![h] = e]
    BY <1>4, <2>2 DEF Prepare, PInv, PromptTypeOK
  <2>5. dir'[h] = e /\ \A g \in Handles \ {h} : dir'[g] = dir[g]
    BY <2>4 DEF PInv, PromptTypeOK
  <2> HIDE DEF d, e
  <2>6. Grows
    BY <2>3, <2>5 DEF Grows, HasReply, d
  <2> QED
    BY <1>4, <2>1, <2>6, SameBead, AnswerKept DEF Prepare
<1>5. CASE Stamp(p)
  <2> DEFINE b == [bead[Handle(p)] EXCEPT !.dir = TRUE]
  <2>1. b \in Beads /\ b.status = bead[Handle(p)].status
    BY <1>0, <1>5 DEF Stamp, At, PInv, PromptTypeOK, Beads
  <2> QED
    BY <1>5, <2>1, UpdateKeeps DEF Stamp, PCs, Answering
<1>6. CASE Tag(p)
  BY <1>6, GoEarned, SameDir, SameBead, AnswerKept DEF Tag, PCs, Answering
<1>7. CASE Claim(p)
  <2> DEFINE b == [bead[Handle(p)] EXCEPT !.status = "in_progress", !.by = p]
  <2>1. b \in Beads /\ b.status # "closed"
    BY <1>0, <1>7 DEF Claim, At, PInv, PromptTypeOK, Beads
  <2> QED
    BY <1>7, <2>1, UpdateKeeps DEF Claim, PCs, Answering
<1>8. CASE Ask(p)
  BY <1>8, WriteGrows, SameBead, AnswerKept DEF Ask, At, PCs, Files, Answering
<1>9. CASE Turn(p)
  <2>1. Earned
    BY <1>9, GoEarned, RaiseEarned DEF Turn, PCs, Answering
  <2> QED
    BY <1>9, <2>1, SameDir, SameBead, AnswerKept DEF Turn
<1>10. CASE Reply(p)
  BY <1>10, WriteGrows, SameBead, AnswerKept DEF Reply, At, PCs, Files
<1>11. CASE Session(p)
  <2>1. CASE Write(p, "session_id.txt", "close")
    <3>1. Grows /\ Earned
      BY <1>11, <2>1, WriteGrows DEF Session, At, PCs, Files, Answering
    <3> QED
      BY <1>11, <3>1, SameBead, AnswerKept DEF Session
  <2>2. CASE Go(p, "close") /\ UNCHANGED dir
    <3>1. Earned
      BY <1>11, <2>2, GoEarned DEF Session, At, PCs, Answering
    <3> QED
      BY <1>11, <2>2, <3>1, SameDir, SameBead, AnswerKept DEF Session
  <2> QED
    BY <1>11, <2>1, <2>2 DEF Session
<1>12. CASE Close(p)
  <2>1. Handle(p) \in Handles /\ HasReply(Handle(p))
    BY <1>0, <1>12 DEF Close, At, AnswerInv, Answering
  <2>2. Earned
    <3>1. Return(p) => Earned
      BY DEF Return, PInv, PromptTypeOK, Earned, Answering
    <3> QED
      BY <1>12, <3>1, RaiseEarned DEF Close
  <2>3. \A h \in Handles : bead'[h].status = "closed" => bead[h].status = "closed" \/ h = Handle(p)
    BY <1>12 DEF Close, PInv, PromptTypeOK
  <2> QED
    BY <1>12, <2>1, <2>2, <2>3, SameDir, AnswerKept DEF Close, ClosedByAnswer
<1> QED
  BY <1>1, <1>2, <1>3, <1>4, <1>5, <1>6, <1>7, <1>8, <1>9, <1>10, <1>11, <1>12 DEF RunStep

LEMMA StepAnswer ==
    ASSUME PInv, AnswerInv, [PromptNext]_promptVars
    PROVE  AnswerInv'
<1>1. ASSUME NEW p \in Runs, RunStep(p) PROVE AnswerInv'
  BY <1>1, RunStepAnswer
<1>2. ASSUME NEW p \in Runs, Killed(p) PROVE AnswerInv'
  BY <1>2, GoEarned, SameDir, SameBead, AnswerKept DEF Killed, PCs, Answering
<1>3. ASSUME NEW p \in Runs, Cancelled(p) PROVE AnswerInv'
  <2>1. Earned
    BY <1>3, GoEarned DEF Cancelled, PCs, Answering, Earned
  <2> QED
    BY <1>3, <2>1, SameDir, SameBead, AnswerKept DEF Cancelled
<1>4. ASSUME NEW p \in Runs, AgentWrites(p) PROVE AnswerInv'
  <2>1. Handle(p) \in Handles
    BY <1>4 DEF AgentWrites, Handle, PInv, PromptTypeOK
  <2>2. Grows
    BY <1>4, <2>1, PutGrows DEF AgentWrites, Files
  <2> QED
    BY <1>4, <2>2, SameBead, AnswerKept DEF AgentWrites, Earned
<1>5. ASSUME NEW h \in Handles, Removed(h) PROVE AnswerInv'
  <2>1. dir'[h].moved /\ \A g \in Handles \ {h} : dir'[g] = dir[g]
    BY <1>5 DEF Removed, NoDir, PInv, PromptTypeOK
  <2>2. Grows
    BY <2>1 DEF Grows, HasReply
  <2> QED
    BY <1>5, <2>2, SameBead, AnswerKept DEF Removed, Earned
<1>6. CASE Tick
  BY <1>6, SameDir, SameBead, AnswerKept DEF Tick, Earned
<1>7. CASE UNCHANGED promptVars
  BY <1>7, SameDir, SameBead, AnswerKept DEF promptVars, Earned
<1> QED
  BY <1>1, <1>2, <1>3, <1>4, <1>5, <1>6, <1>7 DEF PromptNext

\* A bead that a run closed has its reply on disk, unless the directory was taken away,
\* whatever the other runs, their agents, the tracker and Prefect do.
THEOREM Answered == PromptSpec => []ClosedIsAnswered
<1>1. PromptInit => AnswerInv
  BY DEF PromptInit, AnswerInv, ClosedIsAnswered, Answering, NoBead
<1>2. PInv /\ AnswerInv /\ [PromptNext]_promptVars => PInv' /\ AnswerInv'
  BY StepOK, StepAnswer
<1>3. AnswerInv => ClosedIsAnswered
  BY DEF AnswerInv
<1> QED
  BY <1>1, <1>2, <1>3, InitPInv, PTL DEF PromptSpec

-----------------------------------------------------------------------------
(* A bead is the run's own.                                                *)

\* The kind of a handle tells how the run came by it, unless that is a word; a given id
\* has one run then.
Owning(p) ==
    /\ run[p].bead /\ ~run[p].text => /\ Handle(p).kind \in {"given", "minted"}
                                     /\ Handle(p) \in Handles /\ bead[Handle(p)] # NoBead
    /\ ~run[p].bead => Handle(p).kind \in {"none", "slug"} /\ ~run[p].text
    /\ Handle(p).kind = "minted" /\ ~run[p].text => asked[p].fresh
OwnInv ==
    \A p \in Runs :
        /\ Owning(p)
        /\ Handle(p).kind = "given" /\ ~run[p].text =>
              \A q \in Runs \ {p} : Handle(q) = Handle(p) => run[q].text

\* A bead does not go away.
Stays == \A h \in Handles : bead[h] # NoBead => bead'[h] # NoBead
SameNames == \A q \in Runs : /\ run'[q].handle = run[q].handle /\ run'[q].bead = run[q].bead
                              /\ run'[q].text = run[q].text

LEMMA OwnKept ==
    ASSUME PInv, OwnInv, Stays, SameNames, UNCHANGED asked
    PROVE  OwnInv'
BY DEF OwnInv, Owning, Stays, SameNames, Handle

LEMMA NamedRun ==
    ASSUME PInv, NEW p \in Runs, NEW h, NEW b, NEW t, Named(p, h, b, t)
    PROVE  /\ run'[p].handle = h /\ run'[p].bead = b /\ run'[p].text = t
           /\ \A q \in Runs \ {p} : run'[q] = run[q]
BY DEF Named, PInv, PromptTypeOK

LEMMA NamedOwn ==
    ASSUME PInv, OwnInv, Stays, UNCHANGED asked, NEW p \in Runs, NEW h \in Handles,
           NEW b \in BOOLEAN, NEW t \in BOOLEAN, Named(p, h, b, t),
           b /\ ~t => h.kind \in {"given", "minted"} /\ bead'[h] # NoBead,
           ~b => h.kind = "slug" /\ ~t,
           h.kind = "minted" /\ ~t => asked[p].fresh,
           h.kind = "given" /\ ~t => bead[h] = NoBead
    PROVE  OwnInv'
<1>1. /\ run'[p].handle = h /\ run'[p].bead = b /\ run'[p].text = t
      /\ \A q \in Runs \ {p} : run'[q] = run[q]
  BY NamedRun
<1>2. \A q \in Runs : /\ run[q].bead \in BOOLEAN /\ run[q].text \in BOOLEAN
                      /\ run[q].handle.kind = "given" /\ ~run[q].text => bead[run[q].handle] # NoBead
  BY DEF PInv, PromptTypeOK, OwnInv, Owning, Handle
<1>3. h.kind = "given" /\ ~t => \A q \in Runs \ {p} : run[q].handle = h => run[q].text
  BY <1>2
<1>4. ASSUME NEW q \in Runs
      PROVE  /\ run'[q].bead /\ ~run'[q].text => /\ run'[q].handle.kind \in {"given", "minted"}
                                                /\ run'[q].handle \in Handles
                                                /\ bead'[run'[q].handle] # NoBead
             /\ ~run'[q].bead => run'[q].handle.kind \in {"none", "slug"} /\ ~run'[q].text
             /\ run'[q].handle.kind = "minted" /\ ~run'[q].text => asked'[q].fresh
  BY <1>1 DEF OwnInv, Owning, Stays, Handle
<1>5. ASSUME NEW q \in Runs, run'[q].handle.kind = "given", ~run'[q].text,
             NEW r \in Runs \ {q}, run'[r].handle = run'[q].handle
      PROVE  run'[r].text
  <2>1. CASE q = p
    BY <1>1, <1>3, <1>5, <2>1
  <2>2. CASE q # p /\ r = p
    BY <1>1, <1>2, <1>5, <2>2
  <2>3. CASE q # p /\ r # p
    BY <1>1, <1>5, <2>3 DEF OwnInv, Handle
  <2> QED
    BY <2>1, <2>2, <2>3
<1> QED
  BY <1>4, <1>5 DEF OwnInv, Owning, Handle

LEMMA MadeStays ==
    ASSUME PInv, NEW h \in Handles, Made(h)
    PROVE  Stays /\ bead'[h] # NoBead
BY DEF Made, PInv, PromptTypeOK, Stays, Beads, NoBead

LEMMA GoNames ==
    ASSUME PInv, NEW p \in Runs, NEW to, Go(p, to)
    PROVE  SameNames
BY DEF Go, PInv, PromptTypeOK, SameNames

LEMMA RaiseNames ==
    ASSUME PInv, NEW p \in Runs, Raise(p)
    PROVE  SameNames
BY DEF Raise, PInv, PromptTypeOK, SameNames

LEMMA BeadStays == UNCHANGED bead => Stays
BY DEF Stays

LEMMA WriteNames ==
    ASSUME PInv, NEW p \in Runs, NEW f, NEW to, Write(p, f, to)
    PROVE  SameNames
BY GoNames, RaiseNames DEF Write

LEMMA UpdateOwn ==
    ASSUME PInv, OwnInv, NEW p \in Runs, NEW to, NEW change, Update(p, to, change), change # NoBead
    PROVE  OwnInv'
<1>1. Stays
  BY DEF Update, PInv, PromptTypeOK, Stays
<1> QED
  BY <1>1, GoNames, OwnKept DEF Update, Same

LEMMA RunStepOwn ==
    ASSUME PInv, OwnInv, NEW p \in Runs, RunStep(p)
    PROVE  OwnInv'
<1>0. run[p].pc \notin {"new", "failed", "killed"} => Handle(p) \in Handles
  BY DEF PInv, Named1, Handle
<1>1. CASE Mint(p)
  <2>0. asked[p].fresh /\ UNCHANGED asked
    BY <1>1 DEF Mint, Same
  <2>1. CASE \E h \in Handles : /\ Made(h) /\ Named(p, h, TRUE, FALSE)
                                /\ h.kind \in {"given", "minted"}
                                /\ h.kind = "given" => bead[h] = NoBead
    BY <2>0, <2>1, MadeStays, NamedOwn
  <2>2. CASE Raise(p) /\ (UNCHANGED bead \/ \E h \in Handles : Made(h))
    BY <2>0, <2>2, RaiseNames, MadeStays, BeadStays, OwnKept
  <2> QED
    BY <1>1, <2>1, <2>2, Minting
<1>2. CASE BdCreate(p)
  <2>0. UNCHANGED asked
    BY <1>2 DEF BdCreate, Same
  <2>1. CASE \E h \in Handles : /\ Made(h) /\ Named(p, h, TRUE, FALSE)
                                /\ h.kind = "given" /\ bead[h] = NoBead
    BY <2>0, <2>1, MadeStays, NamedOwn
  <2>2. CASE \E h, word \in Handles : Made(h) /\ Named(p, word, TRUE, TRUE)
    BY <2>0, <2>2, MadeStays, NamedOwn
  <2>3. CASE /\ Named(p, Slug(asked[p].label), FALSE, FALSE)
             /\ (UNCHANGED bead \/ \E h \in Handles : Made(h))
    <3>1. Stays
      BY <2>3, MadeStays, BeadStays
    <3> QED
      BY <2>0, <2>3, <3>1, HandlesOK, NamedOwn DEF PInv
  <2> QED
    BY <1>2, <2>1, <2>2, <2>3, Creating
<1>3. CASE Beadless(p)
  BY <1>3, HandlesOK, NamedOwn, BeadStays DEF Beadless, Same, PInv
<1>4. CASE Prepare(p)
  BY <1>4, GoNames, RaiseNames, BeadStays, OwnKept DEF Prepare, NoBackend, Same
<1>5. CASE Stamp(p)
  <2>1. [bead[Handle(p)] EXCEPT !.dir = TRUE] # NoBead
    BY <1>0, <1>5 DEF Stamp, At, PInv, PromptTypeOK, Beads, NoBead
  <2> QED
    BY <1>5, <2>1, UpdateOwn DEF Stamp
<1>6. CASE Tag(p)
  BY <1>6, GoNames, BeadStays, OwnKept DEF Tag, Same
<1>7. CASE Claim(p)
  <2>1. [bead[Handle(p)] EXCEPT !.status = "in_progress", !.by = p] # NoBead
    BY <1>0, <1>7 DEF Claim, At, PInv, PromptTypeOK, Beads, NoBead
  <2> QED
    BY <1>7, <2>1, UpdateOwn DEF Claim
<1>8. CASE Ask(p)
  BY <1>8, WriteNames, BeadStays, OwnKept DEF Ask, Same
<1>9. CASE Turn(p)
  BY <1>9, GoNames, RaiseNames, BeadStays, OwnKept DEF Turn, Same
<1>10. CASE Reply(p)
  BY <1>10, WriteNames, BeadStays, OwnKept DEF Reply, Same
<1>11. CASE Session(p)
  BY <1>11, WriteNames, GoNames, BeadStays, OwnKept DEF Session, Same
<1>12. CASE Close(p)
  <2>1. SameNames
    <3>1. Return(p) => SameNames
      BY DEF Return, PInv, PromptTypeOK, SameNames
    <3> QED
      BY <1>12, <3>1, RaiseNames DEF Close
  <2>2. Stays
    <3> DEFINE b == [bead[Handle(p)] EXCEPT !.status = "closed", !.closer = p]
    <3>1. Handle(p) \in Handles /\ b # NoBead
      BY <1>0, <1>12 DEF Close, At, PInv, PromptTypeOK, Beads, NoBead
    <3>2. bead' \in {bead, [bead EXCEPT ![Handle(p)] = b]}
      BY <1>12, <3>1 DEF Close, PInv, PromptTypeOK
    <3> QED
      BY <3>1, <3>2 DEF Stays, PInv, PromptTypeOK
  <2> QED
    BY <1>12, <2>1, <2>2, OwnKept DEF Close, Same
<1> QED
  BY <1>1, <1>2, <1>3, <1>4, <1>5, <1>6, <1>7, <1>8, <1>9, <1>10, <1>11, <1>12 DEF RunStep

LEMMA StepOwn ==
    ASSUME PInv, OwnInv, [PromptNext]_promptVars
    PROVE  OwnInv'
<1>1. ASSUME NEW p \in Runs, RunStep(p) PROVE OwnInv'
  BY <1>1, RunStepOwn
<1>2. ASSUME NEW p \in Runs, Killed(p) PROVE OwnInv'
  BY <1>2, GoNames, BeadStays, OwnKept DEF Killed, Same
<1>3. ASSUME NEW p \in Runs, Cancelled(p) PROVE OwnInv'
  <2>1. SameNames
    BY <1>3, GoNames DEF Cancelled, SameNames
  <2> QED
    BY <1>3, <2>1, BeadStays, OwnKept DEF Cancelled, Same
<1>4. ASSUME NEW p \in Runs, AgentWrites(p) PROVE OwnInv'
  BY <1>4, BeadStays, OwnKept DEF AgentWrites, Same, SameNames
<1>5. ASSUME NEW h \in Handles, Removed(h) PROVE OwnInv'
  BY <1>5, BeadStays, OwnKept DEF Removed, Same, SameNames
<1>6. CASE Tick
  BY <1>6, BeadStays, OwnKept DEF Tick, SameNames
<1>7. CASE UNCHANGED promptVars
  BY <1>7, BeadStays, OwnKept DEF promptVars, SameNames
<1> QED
  BY <1>1, <1>2, <1>3, <1>4, <1>5, <1>6, <1>7 DEF PromptNext

\* A run that was told the id of its bead has it, and shares it with no run but one that
\* took a word of bd's output for an id or, where both are fresh, minted the same name.
THEOREM OwnBeads == PromptSpec => []OwnBead
<1>1. PromptInit => OwnInv
  BY DEF PromptInit, OwnInv, Owning, Handle, NoHandle
<1>2. PInv /\ OwnInv /\ [PromptNext]_promptVars => PInv' /\ OwnInv'
  BY StepOK, StepOwn
<1>3. OwnInv => OwnBead
  BY DEF OwnInv, Owning, OwnBead
<1> QED
  BY <1>1, <1>2, <1>3, InitPInv, PTL DEF PromptSpec
=============================================================================
