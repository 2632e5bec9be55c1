-------------------------- MODULE RunControlProofs --------------------------
(***************************************************************************)
(* Theorems about RunControl for every set of issues, commands and         *)
(* reconcilers and for every setting of the fault constants.               *)
(***************************************************************************)
EXTENDS RunControl, FiniteSetTheorems, SequenceTheorems, TLAPS

-----------------------------------------------------------------------------
(* The sequence of flow runs: how each kind of write preserves its type.   *)

\* An element of the sequence is a run record.
LEMMA RunType ==
    ASSUME runs \in Seq(Run), NEW r \in DOMAIN runs
    PROVE  /\ runs[r] \in Run
           /\ runs[r].issue \in Issues
           /\ runs[r].resumes \in Nat
           /\ runs[r].state \in RunStates
<1>1. runs[r] \in Run
  OBVIOUS
<1> QED
  BY <1>1 DEF Run

\* Overwriting the state of a run keeps the sequence and its length.
LEMMA SetStateType ==
    ASSUME runs \in Seq(Run), NEW r \in DOMAIN runs, NEW s \in RunStates
    PROVE  /\ SetState(r, s) \in Seq(Run)
           /\ DOMAIN SetState(r, s) = DOMAIN runs
           /\ \A t \in DOMAIN runs :
                 /\ SetState(r, s)[t].issue = runs[t].issue
                 /\ SetState(r, s)[t].resumes = runs[t].resumes
                 /\ SetState(r, s)[t].state = IF t = r THEN s ELSE runs[t].state
<1>1. DOMAIN runs = 1 .. Len(runs) /\ Len(runs) \in Nat
  OBVIOUS
<1>2. [runs[r] EXCEPT !.state = s] \in Run
  BY RunType DEF Run
<1>3. SetState(r, s) \in [1 .. Len(runs) -> Run]
  BY <1>1, <1>2 DEF SetState
<1>4. SetState(r, s) \in Seq(Run)
  BY <1>1, <1>3
<1>5. ASSUME NEW t \in DOMAIN runs
      PROVE  /\ SetState(r, s)[t].issue = runs[t].issue
             /\ SetState(r, s)[t].resumes = runs[t].resumes
             /\ SetState(r, s)[t].state = IF t = r THEN s ELSE runs[t].state
  <2>1. runs[t] \in Run
    BY RunType
  <2> QED
    BY <2>1 DEF SetState, Run
<1> QED
  BY <1>4, <1>5 DEF SetState

\* A submission appends one run and may count a resume of its source.
LEMMA SubmittedType ==
    ASSUME runs \in Seq(Run), NEW i \in Issues, NEW source \in Nat
    PROVE  /\ Submitted(i, source) \in Seq(Run)
           /\ DOMAIN Submitted(i, source) = DOMAIN runs \cup {Len(runs) + 1}
           /\ Submitted(i, source)[Len(runs) + 1] = FreshRun(i, "Scheduled")
           /\ \A r \in DOMAIN runs :
                 /\ Submitted(i, source)[r].issue = runs[r].issue
                 /\ Submitted(i, source)[r].state = runs[r].state
                 /\ Submitted(i, source)[r].resumes =
                      IF r = source THEN runs[r].resumes + 1 ELSE runs[r].resumes
<1> DEFINE counted == [r \in DOMAIN runs |->
                         IF r = source THEN [runs[r] EXCEPT !.resumes = @ + 1] ELSE runs[r]]
<1>1. counted \in Seq(Run) /\ Len(counted) = Len(runs)
  <2>1. \A r \in DOMAIN runs : counted[r] \in Run
    <3> TAKE t \in DOMAIN runs
    <3>1. runs[t] \in Run
      BY RunType
    <3>2. [runs[t] EXCEPT !.resumes = @ + 1] \in Run
      BY <3>1 DEF Run
    <3> QED
      BY <3>1, <3>2
  <2>2. DOMAIN runs = 1 .. Len(runs) /\ Len(runs) \in Nat
    OBVIOUS
  <2>3. counted \in [1 .. Len(runs) -> Run]
    BY <2>1, <2>2
  <2> QED
    BY <2>2, <2>3
<1>2. FreshRun(i, "Scheduled") \in Run
  BY DEF FreshRun, Run, RunStates
<1>3. Submitted(i, source) = Append(counted, FreshRun(i, "Scheduled"))
  BY DEF Submitted
<1>5. ASSUME NEW r \in DOMAIN runs
      PROVE  /\ counted[r].issue = runs[r].issue
             /\ counted[r].state = runs[r].state
             /\ counted[r].resumes = IF r = source THEN runs[r].resumes + 1 ELSE runs[r].resumes
  <2>1. runs[r] \in Run
    BY RunType
  <2> QED
    BY <2>1 DEF Run
<1> HIDE DEF counted
<1>4. /\ Append(counted, FreshRun(i, "Scheduled")) \in Seq(Run)
      /\ DOMAIN Append(counted, FreshRun(i, "Scheduled")) = DOMAIN runs \cup {Len(runs) + 1}
      /\ Append(counted, FreshRun(i, "Scheduled"))[Len(runs) + 1] = FreshRun(i, "Scheduled")
      /\ \A r \in DOMAIN runs : Append(counted, FreshRun(i, "Scheduled"))[r] = counted[r]
  BY <1>1, <1>2
<1> QED
  BY <1>3, <1>4, <1>5

-----------------------------------------------------------------------------
(* Type correctness.                                                       *)

LEMMA InitType == Init => TypeOK
<1> SUFFICES ASSUME Init PROVE TypeOK
  OBVIOUS
<1>1. runs \in Seq(Run)
  <2>1. Cardinality(Issues) \in Nat
    BY StoreAssumption, FS_CardinalityType
  <2>2. PICK order \in [1 .. Cardinality(Issues) -> Issues] :
          runs = [k \in DOMAIN order |-> FreshRun(order[k], "Scheduled")]
    BY DEF Init, StoreInit
  <2>3. \A k \in DOMAIN order : FreshRun(order[k], "Scheduled") \in Run
    BY <2>2 DEF FreshRun, Run, RunStates
  <2>4. runs \in [1 .. Cardinality(Issues) -> Run]
    BY <2>2, <2>3
  <2> QED
    BY <2>1, <2>4
<1>2. StoreTypeOK
  BY <1>1 DEF Init, StoreInit, StoreTypeOK
<1>3. NoCall \in Call
  BY StoreAssumption DEF NoCall, Call
<1>4. LaunchTypeOK
  BY <1>3 DEF Init, LaunchInit, LaunchTypeOK, PCs
<1> QED
  BY <1>2, <1>4 DEF Init, TypeOK

\* What a step does to the run sequence, whoever takes it.
RunsGrow == runs' \in Seq(Run) /\ DOMAIN runs \subseteq DOMAIN runs'

LEMMA EnvironmentType == TypeOK /\ Environment => TypeOK' /\ RunsGrow
<1> SUFFICES ASSUME TypeOK, Environment PROVE TypeOK' /\ RunsGrow
  OBVIOUS
<1> USE DEF TypeOK, StoreTypeOK, RunsGrow
<1>1. LaunchTypeOK /\ UNCHANGED <<launchVars, controlVars>>
  BY DEF Environment
<1>2. StoreTypeOK' /\ RunsGrow
  <2>1. ASSUME NEW r \in DOMAIN runs, WorkerClaims(r) PROVE StoreTypeOK' /\ RunsGrow
    BY <2>1, SetStateType DEF WorkerClaims, RunStates
  <2>2. ASSUME NEW r \in DOMAIN runs, StartTurn(r) PROVE StoreTypeOK' /\ RunsGrow
    <3>1. runs[r].issue \in Issues
      BY RunType
    <3> QED
      BY <2>2, <3>1 DEF StartTurn
  <2>3. ASSUME NEW r \in DOMAIN runs, EndTurn(r) PROVE StoreTypeOK' /\ RunsGrow
    BY <2>3 DEF EndTurn
  <2>4. ASSUME NEW r \in DOMAIN runs, FlowCompletes(r) PROVE StoreTypeOK' /\ RunsGrow
    BY <2>4, SetStateType DEF FlowCompletes, RunStates
  <2>5. ASSUME NEW r \in DOMAIN runs, FlowRaises(r) PROVE StoreTypeOK' /\ RunsGrow
    BY <2>5, SetStateType DEF FlowRaises, RunStates
  <2>6. ASSUME NEW r \in DOMAIN runs, ControllerDies(r) PROVE StoreTypeOK' /\ RunsGrow
    BY <2>6 DEF ControllerDies
  <2>7. ASSUME NEW i \in Issues, ArtifactsAge(i) PROVE StoreTypeOK' /\ RunsGrow
    BY <2>7 DEF ArtifactsAge
  <2>8. ASSUME NEW r \in DOMAIN runs, RunAges(r) PROVE StoreTypeOK' /\ RunsGrow
    BY <2>8 DEF RunAges
  <2> QED
    BY <2>1, <2>2, <2>3, <2>4, <2>5, <2>6, <2>7, <2>8
       DEF Environment, Worker, Controller, Clock, Kill
<1>3. LaunchTypeOK'
  BY <1>1, <1>2 DEF LaunchTypeOK, launchVars, lockVars, cancelVars
<1> QED
  BY <1>1, <1>2, <1>3 DEF controlVars

\* The steps of resume_issue, whoever the caller is.
LEMMA ResumeStepsType ==
    ASSUME TypeOK, NEW c \in Callers, ResumeSteps(c), UNCHANGED controlVars
    PROVE  TypeOK' /\ RunsGrow
<1> USE DEF TypeOK, LaunchTypeOK, RunsGrow, PCs, Goto, Raised, Returned,
            lockVars, cancelVars, launchVars, controlVars, storeVars
<1>0. call[c] \in Call /\ call[c].issue \in Issues
  BY DEF Call
<1>1. CASE Check(c)
  BY <1>1 DEF Check, StoreTypeOK
<1>2. CASE InspectLock(c)
  BY <1>2 DEF InspectLock, StoreTypeOK
<1>3. CASE UnlinkLock(c)
  BY <1>3 DEF UnlinkLock, StoreTypeOK
<1>4. CASE TakeLock(c)
  BY <1>0, <1>4 DEF TakeLock, StoreTypeOK
<1>5. CASE SubmitRaises(c)
  BY <1>5 DEF SubmitRaises, StoreTypeOK, Release
<1> QED
  BY <1>1, <1>2, <1>3, <1>4, <1>5 DEF ResumeSteps

\* The durable submission appends a run and returns.
LEMMA SubmitType ==
    ASSUME TypeOK, NEW c \in Callers, NEW source \in Nat, Submit(c, source)
    PROVE  StoreTypeOK' /\ LaunchTypeOK' /\ RunsGrow
<1> USE DEF TypeOK, LaunchTypeOK, RunsGrow
<1>1. call[c] \in Call /\ call[c].issue \in Issues
  BY DEF Call
<1>2. runs' \in Seq(Run) /\ DOMAIN runs \subseteq DOMAIN runs'
  BY <1>1, SubmittedType DEF Submit, StoreTypeOK
<1>3. StoreTypeOK'
  BY <1>2 DEF StoreTypeOK, Submit
<1>4. LaunchTypeOK'
  <2>1. pc' \in [Callers -> PCs] /\ held' \in [Callers -> {"no", "linked", "unlinked"}]
    BY DEF Submit, Goto, Returned, Release, PCs
  <2> QED
    BY <1>2, <2>1 DEF Submit, cancelVars
<1> QED
  BY <1>2, <1>3, <1>4

\* What only a command does.
LEMMA CliType ==
    ASSUME TypeOK, NEW c \in Clis, Cli(c)
    PROVE  TypeOK' /\ RunsGrow
<1> USE DEF TypeOK, LaunchTypeOK, RunsGrow, PCs, Goto, Raised, Returned, Release,
            lockVars, cancelVars, controlVars, storeVars
<1>0. c \in Callers /\ call[c] \in Call /\ call[c].issue \in Issues
  BY DEF Call, Callers
<1>u. UNCHANGED controlVars
  BY DEF Cli
<1>1. ASSUME NEW cmd \in Commands, NEW i \in Issues, NEW force \in Forces,
             NEW fg \in Foregrounds, Start(c, cmd, i, force, fg)
      PROVE  TypeOK' /\ RunsGrow
  <2>1. [cmd |-> cmd, issue |-> i, force |-> force, foreground |-> fg] \in Call
    BY LaunchAssumption DEF Call
  <2> QED
    BY <1>0, <1>1, <1>u, <2>1 DEF Start, StoreTypeOK
<1>2. CASE ResumeSteps(c)
  BY <1>0, <1>2, <1>u, ResumeStepsType
<1>3. CASE KillSessions(c)
  BY <1>0, <1>3, <1>u DEF KillSessions, StoreTypeOK
<1>4. CASE ArchiveRunDir(c)
  BY <1>0, <1>4, <1>u DEF ArchiveRunDir, StoreTypeOK
<1>5. CASE RestoreMetadata(c)
  BY <1>0, <1>5, <1>u DEF RestoreMetadata, StoreTypeOK
<1>6. CASE Submit(c, 0)
  <2>1. StoreTypeOK' /\ LaunchTypeOK' /\ RunsGrow
    BY <1>0, <1>6, SubmitType
  <2> QED
    BY <1>u, <2>1
<1>7. CASE RunInProcess(c)
  <2>1. FreshRun(call[c].issue, "Running") \in Run
    BY <1>0 DEF FreshRun, Run, RunStates
  <2>2. /\ runs' \in Seq(Run)
        /\ DOMAIN runs' = DOMAIN runs \cup {Len(runs) + 1}
    BY <1>7, <2>1 DEF RunInProcess, StoreTypeOK
  <2> QED
    BY <1>0, <1>7, <1>u, <2>2 DEF RunInProcess, StoreTypeOK
<1>8. CASE FlowReturns(c)
  BY <1>0, <1>8, <1>u DEF FlowReturns, StoreTypeOK
<1>9. CASE CancelQuery(c)
  BY <1>0, <1>9, <1>u DEF CancelQuery, StoreTypeOK, RunsOf, RunningOf
<1>10. ASSUME NEW r \in victims[c], CancelRun(c, r)
       PROVE  TypeOK' /\ RunsGrow
  <2>1. r \in DOMAIN runs
    BY <1>0
  <2>2. runs' \in Seq(Run) /\ DOMAIN runs' = DOMAIN runs
    BY <1>10, <2>1, SetStateType DEF CancelRun, StoreTypeOK, RunStates
  <2> QED
    BY <1>0, <1>10, <1>u, <2>2 DEF CancelRun, StoreTypeOK
<1>11. CASE CancelKillsSessions(c)
  BY <1>0, <1>11, <1>u DEF CancelKillsSessions, StoreTypeOK
<1>12. CASE CliDies(c)
  BY <1>0, <1>12, <1>u DEF CliDies, StoreTypeOK
<1> QED
  BY <1>1, <1>2, <1>3, <1>4, <1>5, <1>6, <1>7, <1>8, <1>9, <1>10, <1>11, <1>12 DEF Cli

\* What only a reconciler does.
LEMMA ReconcilerType ==
    ASSUME TypeOK, NEW a \in Reconcilers, Reconciler(a)
    PROVE  TypeOK' /\ RunsGrow
<1> USE DEF TypeOK, LaunchTypeOK, RunsGrow, PCs, Goto,
            lockVars, cancelVars, launchVars, storeVars
<1>0. a \in Callers /\ marker[a] \in DOMAIN runs \cup {Taken, Unbound}
  BY DEF Callers
<1>1. CASE FindAbandoned(a)
  BY <1>0, <1>1 DEF FindAbandoned, Abandoned, StoreTypeOK
<1>2. CASE FindZombies(a)
  BY <1>0, <1>2 DEF FindZombies, OldZombies, StoreTypeOK
<1>3. ASSUME NEW r \in toFail[a], ForceFailed(a, r)
      PROVE  TypeOK' /\ RunsGrow
  <2>1. r \in DOMAIN runs
    OBVIOUS
  <2>2. runs' \in Seq(Run) /\ DOMAIN runs' = DOMAIN runs
    BY <1>3, <2>1, SetStateType DEF ForceFailed, StoreTypeOK, RunStates
  <2> QED
    BY <1>0, <1>3, <2>2 DEF ForceFailed, StoreTypeOK
<1>4. ASSUME NEW r \in queue[a], ClaimRaises(a, r)
      PROVE  TypeOK' /\ RunsGrow
  BY <1>0, <1>4 DEF ClaimRaises, controlVars, StoreTypeOK
<1>5. ASSUME NEW r \in queue[a], ClaimTaken(a, r)
      PROVE  TypeOK' /\ RunsGrow
  BY <1>0, <1>5 DEF ClaimTaken, StoreTypeOK
<1>6. ASSUME NEW r \in queue[a], Claim(a, r)
      PROVE  TypeOK' /\ RunsGrow
  <2>1. r \in DOMAIN runs
    OBVIOUS
  <2>2. [cmd |-> "reconcile", issue |-> runs[r].issue,
         force |-> TRUE, foreground |-> FALSE] \in Call
    BY <2>1, RunType DEF Call, StoreTypeOK
  <2>3. pc' \in [Callers -> PCs]
    BY <1>0, <1>6 DEF Claim
  <2>4. call' \in [Callers -> Call]
    BY <1>0, <1>6, <2>2 DEF Claim
  <2> QED
    BY <1>0, <1>6, <2>1, <2>3, <2>4 DEF Claim, StoreTypeOK
<1>7. ASSUME NEW r \in queue[a], ReconcilerSubmits(a, r)
      PROVE  TypeOK' /\ RunsGrow
  <2>2. r \in Nat
    BY <1>0 DEF StoreTypeOK
  <2>1. StoreTypeOK' /\ LaunchTypeOK' /\ RunsGrow
    BY <1>0, <1>7, <2>2, SubmitType DEF ReconcilerSubmits
  <2> QED
    BY <1>7, <2>1 DEF ReconcilerSubmits
<1>8. ASSUME NEW r \in queue[a], HandleException(a, r)
      PROVE  TypeOK' /\ RunsGrow
  BY <1>0, <1>8 DEF HandleException, StoreTypeOK
<1>9. CASE ResumeSteps(a) /\ UNCHANGED controlVars
  BY <1>0, <1>9, ResumeStepsType
<1>10. ASSUME EndPass(a)
       PROVE  TypeOK' /\ RunsGrow
  BY <1>0, <1>10 DEF EndPass, StoreTypeOK, Release
<1> QED
  BY <1>1, <1>2, <1>3, <1>4, <1>5, <1>6, <1>7, <1>8, <1>9, <1>10
     DEF Reconciler, PassReturns, HandlerRaises, ReconcilerDies

LEMMA LockClockType == TypeOK /\ LockClock => TypeOK' /\ RunsGrow
BY DEF LockClock, LockAges, TypeOK, StoreTypeOK, LaunchTypeOK, RunsGrow,
       launchVars, controlVars, cancelVars, storeVars

\* A stuttering step.
LEMMA StutterType == TypeOK /\ UNCHANGED vars => TypeOK' /\ RunsGrow
BY DEF TypeOK, StoreTypeOK, LaunchTypeOK, RunsGrow, vars, launchVars, lockVars,
       cancelVars, controlVars, storeVars

LEMMA NextType == TypeOK /\ [Next]_vars => TypeOK' /\ RunsGrow
BY EnvironmentType, CliType, ReconcilerType, LockClockType, StutterType DEF Next

\* Every reachable state is well typed; in particular the stamp of a run_dir
\* never outlives the run_dir, and a lock file has an age only while it exists.
THEOREM Typing == Spec => []TypeOK
<1>1. Init => TypeOK
  BY InitType
<1>2. TypeOK /\ [Next]_vars => TypeOK'
  BY NextType
<1> QED
  BY <1>1, <1>2, PTL DEF Spec

-----------------------------------------------------------------------------
(* Resumed runs are over.                                                  *)

\* No step changes the issue of a run or revives a terminal record.
Kept ==
    \A r \in DOMAIN runs :
        /\ r \in DOMAIN runs'
        /\ runs'[r].issue = runs[r].issue
        /\ runs[r].state \in Terminal => runs'[r].state \in Terminal

\* The step counts no durable resume.
Uncounted ==
    \A r \in DOMAIN runs' :
        runs'[r].resumes = IF r \in DOMAIN runs THEN runs[r].resumes ELSE 0

\* Overwriting the state of a run that is not terminal, or with a terminal one.
LEMMA SetStateKeeps ==
    ASSUME runs \in Seq(Run), NEW r \in DOMAIN runs, NEW s \in RunStates,
           runs' = SetState(r, s), runs[r].state \notin Terminal \/ s \in Terminal
    PROVE  Kept /\ Uncounted
<1>1. /\ DOMAIN runs' = DOMAIN runs
      /\ \A t \in DOMAIN runs :
            /\ runs'[t].issue = runs[t].issue
            /\ runs'[t].resumes = runs[t].resumes
            /\ runs'[t].state = IF t = r THEN s ELSE runs[t].state
  BY SetStateType
<1>2. Kept
  BY <1>1 DEF Kept
<1>3. Uncounted
  BY <1>1 DEF Uncounted
<1> QED
  BY <1>2, <1>3

LEMMA AppendKeeps ==
    ASSUME runs \in Seq(Run), NEW i \in Issues, NEW s \in RunStates,
           runs' = Append(runs, FreshRun(i, s))
    PROVE  Kept /\ Uncounted
<1>1. FreshRun(i, s) \in Run
  BY DEF FreshRun, Run
<1>2. /\ DOMAIN runs' = DOMAIN runs \cup {Len(runs) + 1}
      /\ runs'[Len(runs) + 1] = FreshRun(i, s)
      /\ \A t \in DOMAIN runs : runs'[t] = runs[t]
  BY <1>1
<1> QED
  BY <1>2 DEF Kept, Uncounted, FreshRun

\* A submission counts one resume of its source and of nothing else.
LEMMA SubmitKeeps ==
    ASSUME TypeOK, NEW c \in Callers, NEW source \in Nat, Submit(c, source)
    PROVE  /\ Kept
           /\ \A r \in DOMAIN runs' :
                 runs'[r].resumes = IF r \in DOMAIN runs
                                    THEN IF r = source THEN runs[r].resumes + 1
                                                       ELSE runs[r].resumes
                                    ELSE 0
<1>1. runs \in Seq(Run) /\ call[c].issue \in Issues
  BY DEF TypeOK, StoreTypeOK, LaunchTypeOK, Call
<1>2. /\ DOMAIN runs' = DOMAIN runs \cup {Len(runs) + 1}
      /\ runs'[Len(runs) + 1] = FreshRun(call[c].issue, "Scheduled")
      /\ \A r \in DOMAIN runs :
            /\ runs'[r].issue = runs[r].issue
            /\ runs'[r].state = runs[r].state
            /\ runs'[r].resumes = IF r = source THEN runs[r].resumes + 1 ELSE runs[r].resumes
  <2>1. runs' = Submitted(call[c].issue, source)
    BY DEF Submit
  <2> QED
    BY <1>1, <2>1, SubmittedType
<1>3. Len(runs) + 1 \notin DOMAIN runs /\ runs'[Len(runs) + 1].resumes = 0
  BY <1>1, <1>2 DEF FreshRun
<1> QED
  BY <1>2, <1>3 DEF Kept

\* Outside a reconciler's submission, no step revives a record or counts a resume.
LEMMA EnvironmentKeeps == TypeOK /\ Environment => Kept /\ Uncounted
<1> SUFFICES ASSUME TypeOK, Environment PROVE Kept /\ Uncounted
  OBVIOUS
<1>0. runs \in Seq(Run)
  BY DEF TypeOK, StoreTypeOK
<1>1. ASSUME runs' = runs PROVE Kept /\ Uncounted
  BY <1>1 DEF Kept, Uncounted
<1>2. ASSUME NEW r \in DOMAIN runs, NEW s \in RunStates,
             runs' = SetState(r, s), runs[r].state \in {"Scheduled", "Running"}
      PROVE  Kept /\ Uncounted
  BY <1>0, <1>2, SetStateKeeps DEF Terminal
<1>3. CASE Worker
  BY <1>2, <1>3 DEF Worker, WorkerClaims, RunStates
<1>4. CASE Controller
  <2>1. ASSUME NEW r \in DOMAIN runs, FlowCompletes(r) \/ FlowRaises(r)
        PROVE  Kept /\ Uncounted
    BY <1>1, <1>2, <2>1 DEF FlowCompletes, FlowRaises, RunStates
  <2>2. ASSUME NEW r \in DOMAIN runs, StartTurn(r) \/ EndTurn(r)
        PROVE  Kept /\ Uncounted
    BY <1>1, <2>2 DEF StartTurn, EndTurn
  <2> QED
    BY <1>4, <2>1, <2>2 DEF Controller
<1>5. CASE Clock \/ Kill
  BY <1>1, <1>5 DEF Clock, Kill, ArtifactsAge, RunAges, ControllerDies
<1> QED
  BY <1>3, <1>4, <1>5 DEF Environment

LEMMA CliKeeps ==
    ASSUME TypeOK, NEW c \in Clis, Cli(c)
    PROVE  Kept /\ Uncounted
<1>0. runs \in Seq(Run) /\ c \in Callers /\ call[c].issue \in Issues
  BY DEF TypeOK, StoreTypeOK, LaunchTypeOK, Callers, Call
<1>1. CASE Submit(c, 0)
  <2>1. 0 \notin DOMAIN runs
    BY <1>0
  <2> QED
    BY <1>0, <1>1, <2>1, SubmitKeeps DEF Uncounted
<1>2. CASE RunInProcess(c)
  BY <1>0, <1>2, AppendKeeps DEF RunInProcess, RunStates
<1>3. ASSUME NEW r \in victims[c], CancelRun(c, r)
      PROVE  Kept /\ Uncounted
  <2>1. r \in DOMAIN runs
    BY <1>0 DEF TypeOK, LaunchTypeOK
  <2> QED
    BY <1>0, <1>3, <2>1, SetStateKeeps DEF CancelRun, RunStates, Terminal
<1>4. ASSUME runs' = runs PROVE Kept /\ Uncounted
  BY <1>4 DEF Kept, Uncounted
<1>5. CASE \/ \E cmd \in Commands, i \in Issues, force \in Forces, fg \in Foregrounds :
                 Start(c, cmd, i, force, fg)
           \/ ResumeSteps(c)
  BY <1>4, <1>5 DEF Start, ResumeSteps, Check, InspectLock, UnlinkLock, TakeLock,
     SubmitRaises, storeVars
<1>6. CASE \/ KillSessions(c) \/ ArchiveRunDir(c) \/ RestoreMetadata(c) \/ FlowReturns(c)
           \/ CancelQuery(c) \/ CancelKillsSessions(c) \/ CliDies(c)
  BY <1>4, <1>6 DEF KillSessions, ArchiveRunDir, RestoreMetadata, FlowReturns,
     CancelQuery, CancelKillsSessions, CliDies, storeVars
<1> QED
  BY <1>1, <1>2, <1>3, <1>5, <1>6 DEF Cli

LEMMA ReconcilerKeeps ==
    ASSUME TypeOK, NEW a \in Reconcilers, Reconciler(a)
    PROVE  /\ Kept
           /\ Uncounted \/ \E r \in queue[a] : ReconcilerSubmits(a, r)
<1>0. runs \in Seq(Run) /\ a \in Callers
  BY DEF TypeOK, StoreTypeOK, Callers
<1>1. ASSUME NEW r \in toFail[a], ForceFailed(a, r)
      PROVE  Kept /\ Uncounted
  <2>1. r \in DOMAIN runs
    BY DEF TypeOK
  <2> QED
    BY <1>0, <1>1, <2>1, SetStateKeeps DEF ForceFailed, RunStates, Terminal
<1>2. ASSUME NEW r \in queue[a], ReconcilerSubmits(a, r)
      PROVE  Kept
  <2>1. r \in Nat
    BY <1>0 DEF TypeOK
  <2> QED
    BY <1>0, <1>2, <2>1, SubmitKeeps DEF ReconcilerSubmits
<1>3. CASE runs' = runs
  BY <1>3 DEF Kept, Uncounted
<1> QED
  BY <1>1, <1>2, <1>3 DEF Reconciler, FindAbandoned, FindZombies, ClaimRaises, ClaimTaken,
     Claim, HandleException, ResumeSteps, Check, InspectLock, UnlinkLock, TakeLock,
     SubmitRaises, PassReturns, HandlerRaises, ReconcilerDies, EndPass, storeVars

\* A pass fails what it discovered before it resumes anything.
PassOK(a) ==
    /\ \A r \in queue[a] : \/ pc[a] = "zombies"
                           \/ r \in toFail[a]
                           \/ runs[r].state \in Terminal
    /\ pc[a] \notin {"idle", "zombies", "loop"} => toFail[a] = {}

OverInv == ResumedRunsAreOver /\ \A a \in Reconcilers : PassOK(a)

\* A step that leaves a reconciler alone keeps its part of the invariant.
LEMMA PassUndisturbed ==
    ASSUME TypeOK, Kept, NEW a \in Reconcilers, PassOK(a),
           pc'[a] = pc[a], queue'[a] = queue[a], toFail'[a] = toFail[a]
    PROVE  PassOK(a)'
BY DEF PassOK, Kept, TypeOK

\* A step of one caller moves no other caller.
LEMMA OthersWait ==
    ASSUME TypeOK, NEW c \in Callers, NEW d \in Callers, c # d,
           (c \in Clis /\ Cli(c)) \/ (c \in Reconcilers /\ Reconciler(c))
    PROVE  pc'[d] = pc[d] /\ call'[d] = call[d]
<1> USE DEF TypeOK, LaunchTypeOK, Goto, launchVars
<1>1. CASE ResumeSteps(c)
  BY <1>1 DEF ResumeSteps, Check, InspectLock, UnlinkLock, TakeLock, SubmitRaises
<1>2. CASE \E source : Submit(c, source)
  BY <1>2 DEF Submit
<1>3. CASE Cli(c) /\ ~ResumeSteps(c) /\ ~Submit(c, 0)
  BY <1>3 DEF Cli, Start, KillSessions, ArchiveRunDir, RestoreMetadata, RunInProcess,
     FlowReturns, CancelQuery, CancelRun, CancelKillsSessions, CliDies
<1>4. CASE Reconciler(c) /\ ~ResumeSteps(c) /\ ~(\E source : Submit(c, source))
  BY <1>4 DEF Reconciler, ReconcilerSubmits, FindAbandoned, FindZombies, ForceFailed,
     ClaimRaises, ClaimTaken, Claim, HandleException, PassReturns, HandlerRaises,
     ReconcilerDies, EndPass
<1> QED
  BY <1>1, <1>2, <1>3, <1>4

\* A reconciler's own step keeps its part of the invariant.
LEMMA PassStep ==
    ASSUME TypeOK, Kept, NEW a \in Reconcilers, PassOK(a), Reconciler(a)
    PROVE  PassOK(a)'
<1> USE DEF TypeOK, LaunchTypeOK, PassOK, Goto, launchVars
<1>0. a \in Callers /\ a \notin Clis
  BY StoreAssumption DEF Callers
<1>1. CASE FindAbandoned(a)
  BY <1>0, <1>1 DEF FindAbandoned
<1>2. CASE FindZombies(a)
  BY <1>0, <1>2 DEF FindZombies
<1>3. ASSUME NEW r \in toFail[a], ForceFailed(a, r)
      PROVE  PassOK(a)'
  <2>1. runs'[r].state \in Terminal
    BY <1>3, SetStateType DEF ForceFailed, StoreTypeOK, RunStates, Terminal
  <2>2. toFail'[a] = toFail[a] \ {r} /\ queue'[a] = queue[a] /\ pc'[a] = pc[a]
    BY <1>3 DEF ForceFailed
  <2> QED
    BY <1>3, <2>1, <2>2 DEF Kept, ForceFailed
<1>4. ASSUME NEW r \in queue[a],
             ClaimRaises(a, r) \/ ClaimTaken(a, r) \/ Claim(a, r) \/ HandleException(a, r)
      PROVE  PassOK(a)'
  BY <1>0, <1>4 DEF ClaimRaises, ClaimTaken, Claim, HandleException, NextToResume,
     controlVars, Kept
<1>5. ASSUME NEW r \in queue[a], ReconcilerSubmits(a, r)
      PROVE  PassOK(a)'
  BY <1>0, <1>5 DEF ReconcilerSubmits, Submit, Returned, Kept
<1>6. CASE ResumeSteps(a) /\ UNCHANGED controlVars
  BY <1>0, <1>6 DEF ResumeSteps, Check, InspectLock, UnlinkLock, TakeLock, SubmitRaises,
     Raised, controlVars, Kept
<1>7. ASSUME EndPass(a) PROVE PassOK(a)'
  BY <1>0, <1>7 DEF EndPass
<1> QED
  BY <1>1, <1>2, <1>3, <1>4, <1>5, <1>6, <1>7
     DEF Reconciler, PassReturns, HandlerRaises, ReconcilerDies

\* queue and toFail of a reconciler are its own.
LEMMA OwnLists ==
    ASSUME TypeOK, NEW b \in Reconcilers, Reconciler(b), NEW a \in Reconcilers, a # b
    PROVE  queue'[a] = queue[a] /\ toFail'[a] = toFail[a] /\ marker'[a] = marker[a]
BY DEF TypeOK, Reconciler, FindAbandoned, FindZombies, ForceFailed, ClaimRaises, ClaimTaken,
   Claim, ReconcilerSubmits, HandleException, PassReturns, HandlerRaises, ReconcilerDies,
   EndPass, controlVars

LEMMA OverStep == TypeOK /\ OverInv /\ [Next]_vars => OverInv'
<1> SUFFICES ASSUME TypeOK, OverInv, [Next]_vars PROVE OverInv'
  OBVIOUS
<1>0. ASSUME Kept, Uncounted PROVE ResumedRunsAreOver'
  BY <1>0 DEF Kept, Uncounted, OverInv, ResumedRunsAreOver
<1>1. ASSUME Kept, UNCHANGED <<pc, controlVars>>
      PROVE  \A a \in Reconcilers : PassOK(a)'
  BY <1>1, PassUndisturbed DEF OverInv, controlVars
<1>2. CASE Environment
  BY <1>0, <1>1, <1>2, EnvironmentKeeps DEF Environment, launchVars, OverInv
<1>3. CASE LockClock \/ UNCHANGED vars
  <2>1. UNCHANGED <<runs, pc, controlVars>>
    BY <1>3 DEF LockClock, LockAges, vars, launchVars, storeVars
  <2>2. Kept /\ Uncounted
    BY <2>1 DEF Kept, Uncounted
  <2> QED
    BY <1>0, <1>1, <2>1, <2>2 DEF OverInv
<1>4. ASSUME NEW c \in Clis, Cli(c) PROVE OverInv'
  <2>1. Kept /\ Uncounted
    BY <1>4, CliKeeps
  <2>2. ASSUME NEW a \in Reconcilers PROVE PassOK(a)'
    <3>1. c \in Callers /\ a \in Callers /\ c # a
      BY StoreAssumption DEF Callers
    <3>2. pc'[a] = pc[a]
      BY <1>4, <3>1, OthersWait
    <3> QED
      BY <1>4, <2>1, <3>2, PassUndisturbed DEF OverInv, Cli, controlVars
  <2> QED
    BY <1>0, <2>1, <2>2 DEF OverInv
<1>5. ASSUME NEW b \in Reconcilers, Reconciler(b) PROVE OverInv'
  <2>1. Kept
    BY <1>5, ReconcilerKeeps
  <2>2. ASSUME NEW a \in Reconcilers PROVE PassOK(a)'
    <3>1. CASE a = b
      BY <1>5, <2>1, <3>1, PassStep DEF OverInv
    <3>2. CASE a # b
      <4>1. pc'[a] = pc[a]
        BY <1>5, <3>2, OthersWait DEF Callers
      <4> QED
        BY <1>5, <2>1, <3>2, <4>1, OwnLists, PassUndisturbed DEF OverInv
    <3> QED
      BY <3>1, <3>2
  <2>3. ASSUME NEW r \in queue[b], ReconcilerSubmits(b, r) PROVE ResumedRunsAreOver'
    <3>1. /\ pc[b] = "submit" /\ b \in Callers /\ Submit(b, r)
          /\ r \in DOMAIN runs /\ r \in Nat
      BY <2>3 DEF ReconcilerSubmits, Submit, TypeOK, StoreTypeOK, Callers
    <3>2. runs[r].state \in Terminal
      BY <3>1 DEF OverInv, PassOK
    <3> QED
      BY <2>1, <3>1, <3>2, SubmitKeeps DEF Kept, OverInv, ResumedRunsAreOver
  <2> QED
    BY <1>0, <1>5, <2>1, <2>2, <2>3, ReconcilerKeeps DEF OverInv
<1> QED
  BY <1>2, <1>3, <1>4, <1>5 DEF Next

\* However passes, commands, workers and crashes interleave, and whatever call
\* fails: a run from which a durable resume was submitted is terminal.
THEOREM ResumedOver == Spec => []ResumedRunsAreOver
<1>1. Init => OverInv
  BY DEF Init, StoreInit, LaunchInit, OverInv, ResumedRunsAreOver, PassOK, FreshRun
<1>2. OverInv => ResumedRunsAreOver
  BY DEF OverInv
<1>3. TypeOK /\ OverInv /\ [Next]_vars => OverInv'
  BY OverStep
<1> QED
  BY <1>1, <1>2, <1>3, Typing, PTL DEF Spec

-----------------------------------------------------------------------------
(* The launch lock, among commands: without reconcilers every process in   *)
(* the section shows its issue in its command line.                        *)

Section == {"kill", "archive", "restore", "submit", "flow"}

\* A caller's part: it owns the inode the path names exactly while it is in the
\* section, and it never decides to remove a lock file, having found itself.
OwnsLock(c) ==
    /\ held[c] \in {"no", "linked"}
    /\ held[c] = "linked" <=> pc[c] \in Section
    /\ pc[c] \in {"check", "clear", "lock"} => call[c].cmd \in {"resume", "retry"}
    /\ pc[c] # "unlink"

LockInv == LockMutex /\ \A c \in Callers : OwnsLock(c)

\* A step that leaves pc, call and held of every caller alone.
LEMMA LockUndisturbed == LockInv /\ UNCHANGED <<pc, call, held>> => LockInv'
BY DEF LockInv, LockMutex, OwnsLock

\* A command that acquires nothing: the others keep their locks.
LEMMA ReleaseOrKeep ==
    ASSUME TypeOK, LockInv, NEW c \in Callers, OwnsLock(c)',
           held'[c] = "linked" => held[c] = "linked",
           held'[c] = "linked" => call'[c].issue = call[c].issue,
           \A d \in Callers : d # c => /\ pc'[d] = pc[d] /\ held'[d] = held[d]
                                       /\ call'[d] = call[d]
    PROVE  LockInv'
<1> USE DEF LockInv, OwnsLock
<1>1. \A d \in Callers : OwnsLock(d)'
  OBVIOUS
<1>2. LockMutex'
  BY <1>1 DEF LockMutex
<1> QED
  BY <1>1, <1>2

LEMMA LockCliStep ==
    ASSUME TypeOK, LockInv, NEW c \in Clis, Cli(c)
    PROVE  LockInv'
<1> USE DEF TypeOK, LaunchTypeOK, Goto, Release, Returned, Raised, lockVars
<1>0. c \in Callers /\ OwnsLock(c)
  BY DEF Callers, LockInv
<1>o. \A d \in Callers : d # c => pc'[d] = pc[d] /\ call'[d] = call[d]
  BY <1>0, OthersWait
<1>1. ASSUME NEW cmd \in Commands, NEW i \in Issues, NEW force \in Forces,
             NEW fg \in Foregrounds, Start(c, cmd, i, force, fg)
      PROVE  LockInv'
  <2>1. OwnsLock(c)'
    BY <1>0, <1>1, LaunchAssumption DEF Start, OwnsLock, Section
  <2> QED
    BY <1>0, <1>o, <1>1, <2>1, ReleaseOrKeep DEF Start, OwnsLock, Section
<1>2. CASE Check(c)
  <2>1. OwnsLock(c)'
    BY <1>0, <1>2 DEF Check, OwnsLock, Section
  <2> QED
    BY <1>0, <1>o, <1>2, <2>1, ReleaseOrKeep DEF Check
<1>3. CASE InspectLock(c)
  <2>1. AnyPoProcess(call[c].issue)
    BY <1>0, <1>3 DEF InspectLock, AnyPoProcess, Active, OwnsLock
  <2>2. OwnsLock(c)'
    BY <1>0, <1>3, <2>1 DEF InspectLock, OwnsLock, Section
  <2> QED
    BY <1>0, <1>o, <1>3, <2>2, ReleaseOrKeep DEF InspectLock
<1>4. CASE UnlinkLock(c)
  BY <1>0, <1>4 DEF UnlinkLock, OwnsLock
<1>5. CASE TakeLock(c)
  <2>1. OwnsLock(c)'
    BY <1>0, <1>5 DEF TakeLock, OwnsLock, Section
  <2>2. \A d \in Callers : d # c => held'[d] = held[d]
    BY <1>5 DEF TakeLock
  <2>3. CASE \E d \in Callers : held[d] = "linked" /\ call[d].issue = call[c].issue
    BY <1>0, <1>o, <1>5, <2>1, <2>2, <2>3, ReleaseOrKeep DEF TakeLock
  <2>4. CASE ~\E d \in Callers : held[d] = "linked" /\ call[d].issue = call[c].issue
    <3>1. \A d \in Callers : OwnsLock(d)'
      BY <1>o, <2>1, <2>2 DEF LockInv, OwnsLock
    <3>2. call' = call
      BY <1>5 DEF TakeLock
    <3>3. LockMutex'
      BY <2>2, <2>4, <3>1, <3>2 DEF LockMutex, LockInv, OwnsLock
    <3> QED
      BY <3>1, <3>3 DEF LockInv
  <2> QED
    BY <2>3, <2>4
<1>6. CASE KillSessions(c) \/ ArchiveRunDir(c) \/ RestoreMetadata(c)
  <2>1. OwnsLock(c)'
    BY <1>0, <1>6 DEF KillSessions, ArchiveRunDir, RestoreMetadata, OwnsLock, Section
  <2> QED
    BY <1>0, <1>o, <1>6, <2>1, ReleaseOrKeep DEF KillSessions, ArchiveRunDir, RestoreMetadata
<1>7. CASE Submit(c, 0) \/ SubmitRaises(c) \/ FlowReturns(c)
  <2>1. OwnsLock(c)'
    BY <1>0, <1>7 DEF Submit, SubmitRaises, FlowReturns, OwnsLock, Section
  <2>2. \A d \in Callers : d # c => held'[d] = held[d]
    BY <1>7 DEF Submit, SubmitRaises, FlowReturns
  <2>3. held'[c] = "no"
    BY <1>0, <1>7 DEF Submit, SubmitRaises, FlowReturns
  <2> QED
    BY <1>0, <1>o, <2>1, <2>2, <2>3, ReleaseOrKeep
<1>8. CASE RunInProcess(c)
  <2>1. OwnsLock(c)'
    BY <1>0, <1>8 DEF RunInProcess, OwnsLock, Section
  <2> QED
    BY <1>0, <1>o, <1>8, <2>1, ReleaseOrKeep DEF RunInProcess
<1>9. CASE \/ CancelQuery(c) \/ CancelKillsSessions(c)
           \/ \E r \in victims[c] : CancelRun(c, r)
  <2>1. OwnsLock(c)'
    BY <1>0, <1>9 DEF CancelQuery, CancelKillsSessions, CancelRun, OwnsLock, Section
  <2> QED
    BY <1>0, <1>o, <1>9, <2>1, ReleaseOrKeep DEF CancelQuery, CancelKillsSessions, CancelRun
<1>10. CASE CliDies(c)
  <2>1. OwnsLock(c)' /\ held'[c] = "no"
    BY <1>0, <1>10 DEF CliDies, OwnsLock, Section
  <2> QED
    BY <1>0, <1>o, <1>10, <2>1, ReleaseOrKeep DEF CliDies
<1> QED
  BY <1>1, <1>2, <1>3, <1>4, <1>5, <1>6, <1>7, <1>8, <1>9, <1>10 DEF Cli, ResumeSteps

LEMMA LockStep ==
    ASSUME Reconcilers = {}, TypeOK, LockInv, [Next]_vars
    PROVE  LockInv'
<1>1. CASE Environment \/ LockClock \/ UNCHANGED vars
  <2>1. UNCHANGED <<pc, call, held>>
    BY <1>1 DEF Environment, LockClock, LockAges, vars, launchVars, lockVars
  <2> QED
    BY <2>1, LockUndisturbed
<1> QED
  BY <1>1, LockCliStep DEF Next

LEMMA LockInit == Init => LockInv
BY DEF Init, LaunchInit, LockInv, LockMutex, OwnsLock, Section

\* Any number of `po resume`, `po retry` and `po cancel` processes, killed at
\* any point, with lock files of any age: at most one of them per issue is
\* between the lock and the end of its launch.
THEOREM LaunchMutex ==
    ASSUME Reconcilers = {}
    PROVE  Spec => []LockMutex
<1>1. Init => LockInv
  BY LockInit
<1>2. TypeOK /\ LockInv /\ [Next]_vars => LockInv'
  BY LockStep
<1>3. LockInv => LockMutex
  BY DEF LockInv
<1> QED
  BY <1>1, <1>2, <1>3, Typing, PTL DEF Spec

\* Under the same assumption a retry never renames the run_dir away from under
\* a flow that another command is executing in its own process.
THEOREM ForegroundKept ==
    ASSUME Reconcilers = {}
    PROVE  Spec => ForegroundUndisturbed
<1> DEFINE A == \A i \in dirs \ dirs' : \A c \in Callers : pc[c] = "flow" => call[c].issue # i
<1>1. Init => LockInv
  BY LockInit
<1>2. TypeOK /\ LockInv /\ [Next]_vars => LockInv'
  BY LockStep
<1>3. TypeOK /\ LockInv /\ [Next]_vars => [A]_vars
  <2> SUFFICES ASSUME TypeOK, LockInv, Next,
                      NEW i \in dirs \ dirs', NEW c \in Callers,
                      pc[c] = "flow", call[c].issue = i
               PROVE  FALSE
    BY DEF vars
  <2>1. PICK d \in Clis : ArchiveRunDir(d)
    <3>1. ~Environment
      BY DEF Environment, Worker, Controller, Clock, Kill, WorkerClaims, StartTurn, EndTurn,
         FlowCompletes, FlowRaises, ControllerDies, ArtifactsAge, RunAges
    <3>2. ~LockClock
      BY DEF LockClock, LockAges, storeVars
    <3>3. ASSUME NEW d \in Clis, Cli(d) PROVE ArchiveRunDir(d)
      BY <3>3 DEF Cli, Start, ResumeSteps, Check, InspectLock, UnlinkLock, TakeLock,
         SubmitRaises, KillSessions, RestoreMetadata, Submit, RunInProcess, FlowReturns,
         CancelQuery, CancelRun, CancelKillsSessions, CliDies, storeVars
    <3> QED
      BY <3>1, <3>2, <3>3 DEF Next
  <2>2. pc[d] = "archive" /\ call[d].issue = i /\ d \in Callers
    BY <2>1 DEF ArchiveRunDir, Callers
  <2>3. held[c] = "linked" /\ held[d] = "linked"
    BY <2>2 DEF LockInv, OwnsLock, Section
  <2> QED
    BY <2>2, <2>3 DEF LockInv, LockMutex
<1> QED
  BY <1>1, <1>2, <1>3, Typing, PTL DEF Spec, ForegroundUndisturbed

-----------------------------------------------------------------------------
(* Exactly once, while no lookup raises and no retry removes a run_dir:    *)
(* then the loop variable `marker` always names the claim of the current   *)
(* iteration when it is read.                                              *)

Claimed == {"check", "clear", "unlink", "lock", "submit", "except"}

\* A reconciler between a claim and the end of its iteration.
ClaimOK(a) ==
    /\ pc[a] \in {"idle", "zombies", "loop"} \cup Claimed
    /\ \A r \in queue[a] : runs[r].issue \in dirs
    /\ pc[a] \in Claimed =>
          /\ marker[a] \in queue[a] /\ IsLatest(marker[a], queue[a])
          /\ marker[a] \in markers
          /\ runs[marker[a]].resumes = 0
          /\ call[a].cmd = "reconcile"

OnceInv ==
    /\ \A r \in DOMAIN runs : runs[r].resumes =< 1
    /\ \A r \in DOMAIN runs : runs[r].resumes > 0 => r \in markers
    /\ \A a \in Reconcilers : ClaimOK(a)
    /\ \A a, b \in Reconcilers :
          a # b /\ pc[a] \in Claimed /\ pc[b] \in Claimed => marker[a] # marker[b]
    /\ \A c \in Clis : call[c].cmd # "retry" /\ pc[c] \notin {"kill", "archive", "restore"}

\* A step that counts no resume, keeps run_dirs and markers, and leaves the
\* reconcilers and the commands of the Clis alone.
LEMMA OnceUndisturbed ==
    ASSUME TypeOK, OnceInv, Kept, Uncounted, dirs \subseteq dirs', markers' = markers,
           \A a \in Reconcilers : /\ pc'[a] = pc[a] /\ call'[a] = call[a]
                                  /\ queue'[a] = queue[a] /\ marker'[a] = marker[a],
           \A c \in Clis : /\ call'[c].cmd # "retry"
                           /\ pc'[c] \notin {"kill", "archive", "restore"}
    PROVE  OnceInv'
<1>1. \A r \in DOMAIN runs' : /\ runs'[r].resumes =< 1
                              /\ runs'[r].resumes > 0 => r \in markers'
  BY DEF Uncounted, OnceInv
<1>2. ASSUME NEW a \in Reconcilers PROVE ClaimOK(a)'
  <2>1. ClaimOK(a) /\ queue[a] \subseteq DOMAIN runs
    BY DEF OnceInv, TypeOK
  <2>2. \A r \in queue'[a] : runs'[r].issue \in dirs'
    BY <2>1 DEF ClaimOK, Kept
  <2>3. marker[a] \in queue[a] => runs'[marker[a]].resumes = runs[marker[a]].resumes
    BY <2>1 DEF Kept, Uncounted
  <2> QED
    BY <2>1, <2>2, <2>3 DEF ClaimOK, IsLatest
<1> QED
  BY <1>1, <1>2 DEF OnceInv

\* A reconciler's step that counts no resume and keeps run_dirs: the others are
\* undisturbed as long as it withdraws no marker of theirs.
LEMMA OnceByReconciler ==
    ASSUME TypeOK, OnceInv, Kept, Uncounted, NEW a \in Reconcilers, Reconciler(a),
           dirs' = dirs, ClaimOK(a)',
           \A r \in markers \ markers' : /\ runs[r].resumes = 0
                                         /\ pc[a] \in Claimed /\ r = marker[a],
           pc'[a] \in Claimed /\ pc[a] \notin Claimed => marker'[a] \notin markers,
           pc'[a] \in Claimed /\ pc[a] \in Claimed => marker'[a] = marker[a]
    PROVE  OnceInv'
<1>0. a \in Callers /\ \A c \in Clis : c # a /\ c \in Callers
  BY StoreAssumption DEF Callers
<1>1. \A r \in DOMAIN runs' : /\ runs'[r].resumes =< 1
                              /\ runs'[r].resumes > 0 => r \in markers'
  BY DEF Uncounted, OnceInv, TypeOK, StoreTypeOK
<1>2. ASSUME NEW b \in Reconcilers, b # a
      PROVE  /\ ClaimOK(b)'
             /\ pc'[b] = pc[b] /\ marker'[b] = marker[b]
             /\ pc[b] \in Claimed => marker[b] \in markers
  <2>1. ClaimOK(b) /\ queue[b] \subseteq DOMAIN runs
    BY DEF OnceInv, TypeOK
  <2>2. pc'[b] = pc[b] /\ call'[b] = call[b]
    BY <1>0, <1>2, OthersWait DEF Callers
  <2>3. queue'[b] = queue[b] /\ marker'[b] = marker[b]
    BY <1>2, OwnLists
  <2>4. pc[b] \in Claimed => marker[b] \in markers'
    BY <1>2, <2>1 DEF OnceInv, ClaimOK
  <2>5. \A r \in queue'[b] : runs'[r].issue \in dirs'
    BY <2>1, <2>3 DEF ClaimOK, Kept
  <2>6. marker[b] \in queue[b] => runs'[marker[b]].resumes = runs[marker[b]].resumes
    BY <2>1 DEF Kept, Uncounted
  <2> QED
    BY <2>1, <2>2, <2>3, <2>4, <2>5, <2>6 DEF ClaimOK, IsLatest
<1>3. \A b, d \in Reconcilers :
         b # d /\ pc'[b] \in Claimed /\ pc'[d] \in Claimed => marker'[b] # marker'[d]
  BY <1>2 DEF OnceInv
<1>4. \A c \in Clis : pc'[c] = pc[c] /\ call'[c] = call[c]
  BY <1>0, OthersWait
<1> QED
  BY <1>1, <1>2, <1>3, <1>4 DEF OnceInv

\* The one step that counts: the source is the claimed run, which was never
\* resumed and which no other reconciler has claimed.
LEMMA OnceSubmit ==
    ASSUME TypeOK, OnceInv, NEW a \in Reconcilers, NEW r \in queue[a], ReconcilerSubmits(a, r)
    PROVE  OnceInv'
<1>0. /\ a \in Callers /\ Reconciler(a) /\ \A c \in Clis : c # a /\ c \in Callers
      /\ queue[a] \subseteq DOMAIN runs /\ r \in Nat
  BY StoreAssumption DEF Callers, Reconciler, TypeOK, StoreTypeOK
<1>1. /\ pc[a] = "submit" /\ ClaimOK(a) /\ Submit(a, r)
      /\ dirs' = dirs /\ markers' = markers /\ call' = call
      /\ marker' = marker /\ queue'[a] = queue[a] \ {r} /\ pc'[a] = "loop"
  <2>1. a \notin Clis
    BY StoreAssumption
  <2> QED
    BY <1>0, <2>1 DEF ReconcilerSubmits, Submit, Goto, Returned, OnceInv, TypeOK, LaunchTypeOK
<1>2. r = marker[a]
  <2>1. marker[a] \in queue[a] /\ IsLatest(marker[a], queue[a]) /\ IsLatest(r, queue[a])
    BY <1>1 DEF ClaimOK, Claimed, ReconcilerSubmits
  <2>2. marker[a] \in Nat
    BY <1>0, <2>1 DEF TypeOK, StoreTypeOK
  <2> QED
    BY <1>0, <2>1, <2>2 DEF IsLatest
<1>3. r \in markers /\ runs[r].resumes = 0
  BY <1>1, <1>2 DEF ClaimOK, Claimed
<1>4. /\ Kept
      /\ \A t \in DOMAIN runs' :
            runs'[t].resumes = IF t \in DOMAIN runs
                               THEN IF t = r THEN runs[t].resumes + 1 ELSE runs[t].resumes
                               ELSE 0
  BY <1>0, <1>1, SubmitKeeps
<1>5. \A t \in DOMAIN runs' : /\ runs'[t].resumes =< 1
                              /\ runs'[t].resumes > 0 => t \in markers'
  BY <1>1, <1>3, <1>4 DEF OnceInv
<1>6. ASSUME NEW b \in Reconcilers PROVE ClaimOK(b)'
  <2>1. ClaimOK(b) /\ queue[b] \subseteq DOMAIN runs
    BY DEF OnceInv, TypeOK
  <2>2. CASE b = a
    <3>1. \A t \in queue'[a] : runs'[t].issue \in dirs'
      BY <1>1, <2>1, <2>2, <1>4 DEF ClaimOK, Kept
    <3> QED
      BY <1>1, <2>2, <3>1 DEF ClaimOK, Claimed
  <2>3. CASE b # a
    <3>1. pc'[b] = pc[b] /\ queue'[b] = queue[b]
      BY <1>0, <2>3, OthersWait, OwnLists DEF Callers
    <3>2. \A t \in queue'[b] : runs'[t].issue \in dirs'
      BY <1>1, <2>1, <3>1, <1>4 DEF ClaimOK, Kept
    <3>3. pc[b] \in Claimed => marker[b] # r
      BY <1>1, <1>2, <2>3 DEF OnceInv, Claimed
    <3>4. pc[b] \in Claimed => runs'[marker[b]].resumes = 0
      BY <1>4, <2>1, <3>3 DEF ClaimOK, Kept
    <3> QED
      BY <1>1, <2>1, <3>1, <3>2, <3>4 DEF ClaimOK, IsLatest
  <2> QED
    BY <2>2, <2>3
<1>7. \A b \in Reconcilers : b # a => pc'[b] = pc[b]
  BY <1>0, OthersWait DEF Callers
<1>8. \A c \in Clis : pc'[c] = pc[c]
  BY <1>0, OthersWait
<1> QED
  BY <1>1, <1>5, <1>6, <1>7, <1>8 DEF OnceInv, Claimed

LEMMA OnceReconcilerStep ==
    ASSUME LookupFaults = FALSE, TypeOK, OnceInv, NEW a \in Reconcilers, Reconciler(a)
    PROVE  OnceInv'
<1> USE DEF Goto, Raised, Returned, Claimed
<1>0. /\ a \in Callers /\ a \notin Clis /\ ClaimOK(a)
      /\ pc \in [Callers -> PCs] /\ call \in [Callers -> Call]
      /\ queue \in [Reconcilers -> SUBSET (DOMAIN runs)]
      /\ marker \in [Reconcilers -> DOMAIN runs \cup {Taken, Unbound}]
      /\ runs \in Seq(Run)
  BY StoreAssumption DEF Callers, OnceInv, TypeOK, StoreTypeOK, LaunchTypeOK
<1>k. Kept /\ (Uncounted \/ \E r \in queue[a] : ReconcilerSubmits(a, r))
  BY ReconcilerKeeps
<1>s. ASSUME UNCHANGED runs PROVE Uncounted
  BY <1>s DEF Uncounted
<1>1. CASE FindAbandoned(a)
  <2>1. ClaimOK(a)' /\ Uncounted
    BY <1>0, <1>1, <1>s DEF FindAbandoned, Abandoned, ClaimOK, storeVars
  <2> QED
    BY <1>k, <1>0, <1>1, <2>1, OnceByReconciler DEF FindAbandoned, storeVars
<1>2. CASE FindZombies(a)
  <2>1. ClaimOK(a)' /\ Uncounted
    BY <1>0, <1>2, <1>s DEF FindZombies, ClaimOK, storeVars
  <2> QED
    BY <1>k, <1>0, <1>2, <2>1, OnceByReconciler DEF FindZombies, storeVars
<1>3. ASSUME NEW r \in toFail[a], ForceFailed(a, r) PROVE OnceInv'
  <2>0. r \in DOMAIN runs
    BY DEF TypeOK
  <2>1. Uncounted
    BY <1>0, <1>3, <2>0, SetStateKeeps DEF ForceFailed, RunStates, Terminal
  <2>2. ClaimOK(a)'
    BY <1>0, <1>3, <1>k DEF ForceFailed, ClaimOK, Kept, launchVars
  <2> QED
    BY <1>k, <1>0, <1>3, <2>1, <2>2, OnceByReconciler DEF ForceFailed, launchVars
<1>4. ASSUME NEW r \in queue[a], ClaimRaises(a, r) PROVE FALSE
  BY <1>0, <1>4 DEF ClaimRaises, ClaimOK
<1>5. ASSUME NEW r \in queue[a], ClaimTaken(a, r) PROVE OnceInv'
  <2>1. ClaimOK(a)' /\ Uncounted
    BY <1>0, <1>5, <1>s DEF ClaimTaken, NextToResume, ClaimOK, launchVars, storeVars
  <2> QED
    BY <1>k, <1>0, <1>5, <2>1, OnceByReconciler
       DEF ClaimTaken, NextToResume, launchVars, storeVars
<1>6. ASSUME NEW r \in queue[a], Claim(a, r) PROVE OnceInv'
  <2>1. Uncounted
    BY <1>6, <1>s DEF Claim
  <2>2. ~(runs[r].resumes > 0) /\ runs[r].resumes \in Nat
    BY <1>0, <1>6, RunType DEF Claim, OnceInv
  <2>3. /\ pc'[a] \in {"check", "except"} /\ marker'[a] = r /\ r \in markers'
        /\ call'[a].cmd = "reconcile" /\ queue'[a] = queue[a] /\ IsLatest(r, queue[a])
        /\ runs' = runs /\ dirs' = dirs /\ markers \subseteq markers' /\ pc[a] = "loop"
        /\ r \notin markers
    BY <1>0, <1>6 DEF Claim, NextToResume
  <2>4. ClaimOK(a)'
    BY <1>0, <1>6, <2>2, <2>3 DEF ClaimOK, IsLatest
  <2> QED
    BY <1>k, <2>1, <2>3, <2>4, OnceByReconciler
<1>7. ASSUME NEW r \in queue[a], HandleException(a, r) PROVE OnceInv'
  <2>1. Uncounted
    BY <1>7, <1>s DEF HandleException
  <2>2. ClaimOK(a)'
    BY <1>0, <1>7 DEF HandleException, ClaimOK
  <2>3. pc'[a] = "loop" /\ pc[a] = "except" /\ dirs' = dirs /\ markers' = markers \ {marker[a]}
    BY <1>0, <1>7 DEF HandleException
  <2>4. runs[marker[a]].resumes = 0
    BY <1>0, <2>3 DEF ClaimOK
  <2> QED
    BY <1>k, <2>1, <2>2, <2>3, <2>4, OnceByReconciler
<1>8. CASE ResumeSteps(a) /\ UNCHANGED controlVars
  <2>1. /\ runs' = runs /\ dirs' = dirs /\ markers' = markers /\ call' = call
        /\ queue' = queue /\ marker' = marker
    BY <1>8 DEF ResumeSteps, Check, InspectLock, UnlinkLock, TakeLock, SubmitRaises,
       controlVars, storeVars
  <2>2. pc[a] \in Claimed /\ pc'[a] \in Claimed
    BY <1>0, <1>8 DEF ResumeSteps, Check, InspectLock, UnlinkLock, TakeLock, SubmitRaises,
       ClaimOK
  <2>3. ClaimOK(a)' /\ Uncounted
    BY <1>0, <1>s, <2>1, <2>2 DEF ClaimOK, IsLatest
  <2> QED
    BY <1>k, <2>1, <2>2, <2>3, OnceByReconciler
<1>9. ASSUME EndPass(a) PROVE OnceInv'
  <2>1. ClaimOK(a)' /\ Uncounted
    BY <1>0, <1>9, <1>s DEF EndPass, ClaimOK, storeVars
  <2> QED
    BY <1>k, <1>0, <1>9, <2>1, OnceByReconciler DEF EndPass, storeVars
<1> QED
  BY <1>1, <1>2, <1>3, <1>4, <1>5, <1>6, <1>7, <1>8, <1>9, OnceSubmit
     DEF Reconciler, PassReturns, HandlerRaises, ReconcilerDies

LEMMA OnceCliStep ==
    ASSUME "retry" \notin Commands, TypeOK, OnceInv, NEW c \in Clis, Cli(c)
    PROVE  OnceInv'
<1>0. /\ c \in Callers /\ \A a \in Reconcilers : a \in Callers /\ a # c
      /\ pc \in [Callers -> PCs] /\ call \in [Callers -> Call]
      /\ call[c].cmd # "retry" /\ pc[c] \notin {"kill", "archive", "restore"}
  BY StoreAssumption DEF Callers, TypeOK, LaunchTypeOK, OnceInv
<1>1. \A d \in Callers : d # c => pc'[d] = pc[d] /\ call'[d] = call[d]
  BY <1>0, OthersWait
<1>2. Kept /\ Uncounted /\ UNCHANGED controlVars
  BY CliKeeps DEF Cli
<1>3. /\ dirs' = dirs /\ markers' = markers
      /\ call'[c].cmd # "retry" /\ pc'[c] \notin {"kill", "archive", "restore"}
  <2>1. CASE \E cmd \in Commands, i \in Issues, force \in Forces, fg \in Foregrounds :
                Start(c, cmd, i, force, fg)
    BY <1>0, <2>1 DEF Start, Goto, storeVars
  <2>2. CASE ResumeSteps(c)
    BY <1>0, <2>2 DEF ResumeSteps, Check, InspectLock, UnlinkLock, TakeLock, SubmitRaises,
       Goto, Raised, storeVars
  <2>3. CASE Submit(c, 0) \/ RunInProcess(c) \/ FlowReturns(c)
    BY <1>0, <2>3 DEF Submit, RunInProcess, FlowReturns, Goto, Returned, storeVars
  <2>4. CASE \/ CancelQuery(c) \/ (\E r \in victims[c] : CancelRun(c, r))
             \/ CancelKillsSessions(c) \/ CliDies(c)
    BY <1>0, <2>4 DEF CancelQuery, CancelRun, CancelKillsSessions, CliDies, Goto, storeVars
  <2> QED
    BY <1>0, <2>1, <2>2, <2>3, <2>4
       DEF Cli, KillSessions, ArchiveRunDir, RestoreMetadata
<1>4. \A d \in Clis : call'[d].cmd # "retry" /\ pc'[d] \notin {"kill", "archive", "restore"}
  BY <1>1, <1>3 DEF OnceInv, Callers
<1> QED
  BY <1>0, <1>1, <1>2, <1>3, <1>4, OnceUndisturbed DEF controlVars

LEMMA OnceStep ==
    ASSUME LookupFaults = FALSE, "retry" \notin Commands, TypeOK, OnceInv, [Next]_vars
    PROVE  OnceInv'
<1>1. CASE Environment
  <2>1. dirs \subseteq dirs' /\ markers' = markers
    BY <1>1 DEF Environment, Worker, Controller, Clock, Kill, WorkerClaims, StartTurn,
       EndTurn, FlowCompletes, FlowRaises, ControllerDies, ArtifactsAge, RunAges
  <2> QED
    BY <1>1, <2>1, EnvironmentKeeps, OnceUndisturbed
       DEF Environment, launchVars, controlVars, OnceInv
<1>2. CASE LockClock \/ UNCHANGED vars
  <2>1. UNCHANGED <<runs, dirs, markers, pc, call, controlVars>>
    BY <1>2 DEF LockClock, LockAges, vars, launchVars, storeVars
  <2>2. Kept /\ Uncounted
    BY <2>1 DEF Kept, Uncounted
  <2> QED
    BY <2>1, <2>2, OnceUndisturbed DEF controlVars, OnceInv
<1> QED
  BY <1>1, <1>2, OnceCliStep, OnceReconcilerStep DEF Next

\* Any number of concurrent reconcilers, `po resume` and `po cancel` commands,
\* raising submissions and crashes at any point: no abandoned run is resumed
\* twice. Both assumptions are needed: a lookup that raises (run_exactly_once)
\* or a retry that archives the markers lets a second resume through.
THEOREM ResumedOnce ==
    ASSUME LookupFaults = FALSE, "retry" \notin Commands
    PROVE  Spec => []ResumedAtMostOnce
<1>1. Init => OnceInv
  <2> SUFFICES ASSUME Init PROVE OnceInv
    OBVIOUS
  <2>1. NoCall.cmd = "none"
    BY DEF NoCall
  <2>2. \A r \in DOMAIN runs : runs[r].resumes = 0
    BY DEF Init, StoreInit, FreshRun
  <2>3. \A a \in Reconcilers : pc[a] = "idle" /\ queue[a] = {}
    BY DEF Init, LaunchInit, Callers
  <2>4. \A c \in Clis : call[c].cmd = "none" /\ pc[c] = "idle"
    BY <2>1 DEF Init, LaunchInit, Callers
  <2> QED
    BY <2>2, <2>3, <2>4 DEF OnceInv, ClaimOK, Claimed
<1>2. OnceInv => ResumedAtMostOnce
  BY DEF OnceInv, ResumedAtMostOnce
<1>3. TypeOK /\ OnceInv /\ [Next]_vars => OnceInv'
  BY OnceStep
<1> QED
  BY <1>1, <1>2, <1>3, Typing, PTL DEF Spec

================================================================================
