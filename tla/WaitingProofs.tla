----------------------------- MODULE WaitingProofs -----------------------------
(***************************************************************************)
(* For any number of submitting and waiting processes, pools, places,      *)
(* deployments and faults: the state of Waiting is well typed, and who     *)
(* leaves `po wait` because of a failed run leaves no claim of that run    *)
(* on the bead.                                                            *)
(***************************************************************************)
EXTENDS Waiting, TLAPS

\* What is not idle has been asked for a deployment.
Addressed == \A c \in Clients : sub[c].at # "idle" => sub[c].dep \in Deployments

SchedInv == SchedTypeOK /\ Addressed

-----------------------------------------------------------------------------
(* Submissions.                                                            *)

\* One submission goes on to r.
Moves(c, r) ==
    /\ r \in Subs
    /\ sub' = [sub EXCEPT ![c] = r]

\* It goes on without a run being filed.
Steps(c, r) ==
    /\ Moves(c, r)
    /\ r.dep = sub[c].dep /\ r.run = sub[c].run
    /\ r.at \notin {"idle", "done"} /\ sub[c].at \notin {"idle", "done"}

\* A request is made for the deployment dep.
Asks(c, r, dep) ==
    /\ Moves(c, r)
    /\ sub[c].at = "idle"
    /\ r.at = "find" /\ r.dep = dep /\ r.run = "none"

\* The state of the run is all that changes; who is done stays so.
Runs(c, r) ==
    /\ Moves(c, r)
    /\ r.at = sub[c].at /\ r.dep = sub[c].dep

LEMMA MovesType ==
    ASSUME NEW c \in Clients, NEW r, sub \in [Clients -> Subs], Moves(c, r)
    PROVE  /\ sub' \in [Clients -> Subs]
           /\ sub'[c] = r
           /\ \A d \in Clients \ {c} : sub'[d] = sub[d]
BY DEF Moves

LEMMA NoSubOK == NoSub \in Subs
BY WorkerPoolAssumption DEF NoSub, Subs, SubPCs, RunStates

LEMMA AskMoves ==
    ASSUME SubTypeOK, NEW c \in Clients, NEW dep \in Deployments, SubAt(c, "idle"),
           Ask(c, dep, NoPool)
    PROVE  \E r \in Subs : Asks(c, r, dep)
<1> DEFINE r == [NoSub EXCEPT !.at = "find", !.dep = dep, !.pool = NoPool]
<1>1. r \in Subs
  BY NoSubOK DEF Subs, SubPCs
<1>2. r.at = "find" /\ r.dep = dep /\ r.run = "none"
  BY DEF NoSub
<1>3. sub' = [sub EXCEPT ![c] = r]
  BY DEF Ask
<1> HIDE DEF r
<1> QED
  BY <1>1, <1>2, <1>3 DEF Asks, Moves, SubAt

LEMMA GoMoves ==
    ASSUME sub \in [Clients -> Subs], NEW c \in Clients, NEW from, SubAt(c, from),
           from \notin {"idle", "done"}, NEW to \in SubPCs \ {"idle", "done"}, SubGo(c, to)
    PROVE  \E r \in Subs : Steps(c, r)
<1> DEFINE r == [sub[c] EXCEPT !.at = to]
<1>0. sub[c] \in Subs
  OBVIOUS
<1>1. r \in Subs
  BY <1>0 DEF Subs
<1>2. r.at = to /\ r.dep = sub[c].dep /\ r.run = sub[c].run
  BY <1>0 DEF Subs
<1>3. sub' = [sub EXCEPT ![c] = r]
  BY DEF SubGo
<1> HIDE DEF r
<1> QED
  BY <1>1, <1>2, <1>3 DEF Steps, Moves, SubAt

LEMMA NextOfOK ==
    ASSUME NEW dep, NEW declared
    PROVE  NextOf(dep, declared) \in SubPCs \ {"idle", "done"}
BY DEF NextOf, SubPCs

LEMMA SpawnsType ==
    ASSUME PoolTypeOK, NEW p, SpawnWorker(p)
    PROVE  PoolTypeOK'
<1>1. \A q \in Pools : procs'[q] \in [Places -> Nat]
  BY WorkerPoolAssumption DEF PoolTypeOK, SpawnWorker
<1>2. procs' = [q \in Pools |-> procs'[q]] /\ known' = known
  BY DEF PoolTypeOK, SpawnWorker
<1> QED
  BY <1>1, <1>2 DEF PoolTypeOK

\* The steps of a submission before the run is filed.
LEMMA EarlySteps ==
    ASSUME SubTypeOK, Addressed, NEW c \in Clients,
           FindManual(c) \/ Apply(c) \/ Create(c) \/ Probe(c) \/ Ensure(c) \/ Spawn(c)
    PROVE  /\ \E r \in Subs : Steps(c, r)
           /\ PoolTypeOK' /\ catalog' = catalog /\ refusals' \in 0..MaxRefusals
           /\ deployed' \in [Deployments -> Pools \cup {NoPool, Absent}]
<1>0. /\ sub \in [Clients -> Subs] /\ refusals \in 0..MaxRefusals /\ PoolTypeOK
      /\ deployed \in [Deployments -> Pools \cup {NoPool, Absent}]
  BY DEF SubTypeOK
<1>1. CASE FindManual(c)
  <2>1. \E to \in SubPCs \ {"idle", "done"} : SubGo(c, to)
    BY <1>1, NextOfOK DEF FindManual
  <2>2. UNCHANGED <<poolVars, catalog, deployed, refusals>> /\ SubAt(c, "find")
    BY <1>1 DEF FindManual, SubSame
  <2> QED
    BY <1>0, <2>1, <2>2, GoMoves DEF PoolTypeOK, poolVars
<1>2. CASE Apply(c)
  <2>1. SubGo(c, "probe") /\ SubAt(c, "apply") /\ UNCHANGED <<poolVars, catalog, refusals>>
        /\ deployed' = [deployed EXCEPT ![sub[c].dep] = DefaultPool]
    BY <1>2 DEF Apply, SubSame
  <2>2. "probe" \in SubPCs \ {"idle", "done"}
    BY DEF SubPCs
  <2> QED
    BY <1>0, <2>1, <2>2, GoMoves, SubmissionAssumption DEF PoolTypeOK, poolVars
<1>3. CASE Create(c)
  <2>1. SubGo(c, "probe") /\ SubAt(c, "create") /\ UNCHANGED <<poolVars, catalog, refusals>>
        /\ deployed' = [deployed EXCEPT ![sub[c].dep] = PoolOf(c)]
    BY <1>3 DEF Create, SubSame
  <2>2. "probe" \in SubPCs \ {"idle", "done"}
    BY DEF SubPCs
  <2>3. PoolOf(c) \in Pools \cup {NoPool, Absent}
    BY <1>0, SubmissionAssumption DEF PoolOf, Subs
  <2> QED
    BY <1>0, <2>1, <2>2, <2>3, GoMoves DEF PoolTypeOK, poolVars
<1>4. CASE Probe(c)
  <2>1. SubAt(c, "probe") /\ UNCHANGED <<poolVars, catalog, deployed>>
    BY <1>4 DEF Probe
  <2>2. refusals' \in 0..MaxRefusals
    BY <1>0, <1>4, SubmissionAssumption DEF Probe, Refused
  <2>3. CASE \E to \in {"ensure", "submit"}, lone \in BOOLEAN :
                sub' = [sub EXCEPT ![c].at = to, ![c].bereft = lone]
    <3>0. PICK to \in {"ensure", "submit"}, lone \in BOOLEAN :
              sub' = [sub EXCEPT ![c].at = to, ![c].bereft = lone]
      BY <2>3
    <3> DEFINE r == [sub[c] EXCEPT !.at = to, !.bereft = lone]
    <3>1. sub[c] \in Subs
      BY <1>0
    <3>2. r \in Subs
      BY <3>1 DEF Subs, SubPCs
    <3>3. r.at = to /\ r.dep = sub[c].dep /\ r.run = sub[c].run
      BY <3>1 DEF Subs
    <3>4. sub' = [sub EXCEPT ![c] = r]
      BY <3>0
    <3> HIDE DEF r
    <3>5. Steps(c, r)
      BY <2>1, <3>2, <3>3, <3>4 DEF Steps, Moves, SubAt
    <3> QED
      BY <1>0, <2>1, <2>2, <3>2, <3>5 DEF PoolTypeOK, poolVars
  <2>4. CASE sub' = [sub EXCEPT ![c].at = "submit", ![c].blind = TRUE]
    <3> DEFINE r == [sub[c] EXCEPT !.at = "submit", !.blind = TRUE]
    <3>0. sub[c] \in Subs
      BY <1>0
    <3>1. r \in Subs
      BY <3>0 DEF Subs, SubPCs
    <3>2. r.at = "submit" /\ r.dep = sub[c].dep /\ r.run = sub[c].run
      BY <3>0 DEF Subs
    <3>3. sub' = [sub EXCEPT ![c] = r]
      BY <2>4
    <3> HIDE DEF r
    <3>4. Steps(c, r)
      BY <2>1, <3>1, <3>2, <3>3 DEF Steps, Moves, SubAt
    <3> QED
      BY <1>0, <2>1, <2>2, <3>1, <3>4 DEF PoolTypeOK, poolVars
  <2> QED
    BY <1>4, <2>3, <2>4 DEF Probe
<1>5. CASE Ensure(c)
  <2>1. SubAt(c, "ensure") /\ UNCHANGED <<poolVars, catalog, deployed, refusals>>
    BY <1>5 DEF Ensure, SubSame
  <2>2. PICK at \in {"spawn", "submit"}, warned \in BOOLEAN :
            sub' = [sub EXCEPT ![c].at = at, ![c].warned = warned]
    BY <1>5 DEF Ensure
  <2> DEFINE r == [sub[c] EXCEPT !.at = at, !.warned = warned]
  <2>3. sub[c] \in Subs
    BY <1>0
  <2>4. r \in Subs
    BY <2>3 DEF Subs, SubPCs
  <2>5. r.at = at /\ r.dep = sub[c].dep /\ r.run = sub[c].run
    BY <2>3 DEF Subs
  <2>6. sub' = [sub EXCEPT ![c] = r]
    BY <2>2
  <2> HIDE DEF r
  <2>7. Steps(c, r)
    BY <2>1, <2>4, <2>5, <2>6 DEF Steps, Moves, SubAt
  <2> QED
    BY <1>0, <2>1, <2>4, <2>7 DEF PoolTypeOK, poolVars
<1>6. CASE Spawn(c)
  <2>1. SubAt(c, "spawn") /\ UNCHANGED <<catalog, deployed>>
    BY <1>6 DEF Spawn
  <2>2. CASE SpawnWorker(Probed(c)) /\ SubGo(c, "submit") /\ UNCHANGED refusals
    <3>1. "submit" \in SubPCs \ {"idle", "done"}
      BY DEF SubPCs
    <3> QED
      BY <1>0, <2>1, <2>2, <3>1, GoMoves, SpawnsType
  <2>3. CASE Refused /\ sub' = [sub EXCEPT ![c].at = "submit", ![c].warned = TRUE]
             /\ UNCHANGED poolVars
    <3> DEFINE r == [sub[c] EXCEPT !.at = "submit", !.warned = TRUE]
    <3>0. sub[c] \in Subs
      BY <1>0
    <3>1. r \in Subs
      BY <3>0 DEF Subs, SubPCs
    <3>2. r.at = "submit" /\ r.dep = sub[c].dep /\ r.run = sub[c].run
      BY <3>0 DEF Subs
    <3>3. sub' = [sub EXCEPT ![c] = r]
      BY <2>3
    <3> HIDE DEF r
    <3>4. Steps(c, r)
      BY <2>1, <3>1, <3>2, <3>3 DEF Steps, Moves, SubAt
    <3>5. refusals' \in 0..MaxRefusals
      BY <1>0, <2>3, SubmissionAssumption DEF Refused
    <3> QED
      BY <1>0, <2>1, <2>3, <3>1, <3>4, <3>5 DEF PoolTypeOK, poolVars
  <2> QED
    BY <1>6, <2>2, <2>3 DEF Spawn
<1> QED
  BY <1>1, <1>2, <1>3, <1>4, <1>5, <1>6

-----------------------------------------------------------------------------
(* What a step does to the runs.                                           *)

\* The runs are what they were, and so is who is done and who is idle.
SameRuns ==
    \A c \in Clients :
        /\ sub'[c].run = sub[c].run /\ sub'[c].dep = sub[c].dep
        /\ sub[c].at = "done" => sub'[c].at = "done"
        /\ sub[c].at # "idle" <=> sub'[c].at # "idle"

\* A run that failed stays failed.
FailedStay == \A c \in Clients : sub[c].run = "failed" => sub'[c].run = "failed"

\* The parts of the type invariant: the beads and the waiting processes; how they are
\* linked to the runs.
Waited ==
    /\ bead \in [Beads -> Rows]
    /\ wait \in [Waiters -> Waits]
    /\ troubles \in 0..MaxTroubles

Timed ==
    /\ expected \in [Clients -> Nat]
    /\ heir \in [Clients -> Clients \cup {Nobody}]
    /\ crashes \in 0..MaxCrashes

Filings ==
    /\ due \subseteq Submitted
    /\ \A c \in Submitted : sub[c].at = "done" /\ expected[c] # Never
    /\ \A c \in Clients : sub[c].run \in {"running", "completed"} => c \in due

Blamed == \A w \in Waiters : wait[w].failed # Nobody => sub[wait[w].failed].run = "failed"

LEMMA TypeParts ==
    SchedTypeOK <=> SubTypeOK /\ Waited /\ Timed /\ Filings /\ Blamed
BY DEF SchedTypeOK, Waited, Timed, Filings, Blamed

LEMMA BlamedOK ==
    ASSUME Waited, Blamed, FailedStay, UNCHANGED wait
    PROVE  Blamed'
BY DEF Waited, Blamed, FailedStay, Waits

LEMMA StepsSame ==
    ASSUME sub \in [Clients -> Subs], NEW c \in Clients, NEW r, Steps(c, r)
    PROVE  SameRuns
<1>1. /\ sub'[c] = r
      /\ \A d \in Clients \ {c} : sub'[d] = sub[d]
  BY MovesType DEF Steps
<1> QED
  BY <1>1 DEF Steps, SameRuns

LEMMA SameFilings ==
    ASSUME Filings, Addressed, SameRuns, UNCHANGED <<expected, due>>
    PROVE  Filings' /\ Addressed' /\ FailedStay
<1>1. Submitted' = Submitted
  BY DEF SameRuns, Submitted
<1>2. Addressed' /\ FailedStay
  BY DEF Addressed, SameRuns, FailedStay
<1>3. \A c \in Submitted : sub'[c].at = "done" /\ expected'[c] # Never
  BY DEF Filings, SameRuns, Submitted
<1>4. \A c \in Clients : sub'[c].run \in {"running", "completed"} => c \in due'
  BY DEF Filings, SameRuns
<1>5. due' \subseteq Submitted
  BY DEF Filings
<1> QED
  BY <1>1, <1>2, <1>3, <1>4, <1>5 DEF Filings

\* A step that leaves runs and times alone keeps the invariant.
LEMMA QuietStep ==
    ASSUME SchedInv, SubTypeOK', SameRuns, UNCHANGED <<expected, due, heir>>,
           crashes' \in 0..MaxCrashes, Waited', UNCHANGED wait
    PROVE  SchedInv' /\ FailedStay
<1>1. SubTypeOK /\ Waited /\ Timed /\ Filings /\ Blamed /\ Addressed
  BY TypeParts DEF SchedInv
<1>2. Filings' /\ Addressed' /\ FailedStay
  BY <1>1, SameFilings
<1>3. Blamed'
  BY <1>1, <1>2, BlamedOK
<1>4. Timed'
  BY <1>1 DEF Timed
<1>5. SchedTypeOK'
  BY <1>2, <1>3, <1>4, TypeParts, PTL
<1> QED
  BY <1>2, <1>4, <1>5 DEF SchedInv

LEMMA WaitKeeps ==
    ASSUME Waited, UNCHANGED <<bead, wait, troubles>>
    PROVE  Waited'
BY DEF Waited

LEMMA EarlyInv ==
    ASSUME SchedInv, NEW c \in Clients,
           FindManual(c) \/ Apply(c) \/ Create(c) \/ Probe(c) \/ Ensure(c) \/ Spawn(c), WaitSame
    PROVE  SchedInv' /\ FailedStay
<1>1. SubTypeOK /\ Addressed /\ Waited /\ crashes \in 0..MaxCrashes
  BY TypeParts DEF SchedInv, Timed
<1>2. PICK r \in Subs : Steps(c, r)
  BY <1>1, EarlySteps
<1>3. sub' \in [Clients -> Subs]
  BY <1>1, <1>2, MovesType DEF SubTypeOK, Steps
<1>4. SubTypeOK'
  BY <1>1, <1>3, EarlySteps DEF SubTypeOK
<1>5. SameRuns
  BY <1>1, <1>2, StepsSame DEF SubTypeOK
<1> QED
  BY <1>1, <1>4, <1>5, QuietStep, WaitKeeps DEF WaitSame

-----------------------------------------------------------------------------
(* Filing a run.                                                           *)

LEMMA RefusedFiling ==
    ASSUME SchedInv, NEW c \in Clients, SubAt(c, "submit"), SubGo(c, "error"), Refused,
           UNCHANGED <<poolVars, catalog, deployed, expected, due, bead, heir, wait, troubles, crashes>>
    PROVE  SchedInv' /\ FailedStay
<1>1. SubTypeOK /\ Addressed /\ Waited /\ crashes \in 0..MaxCrashes
  BY TypeParts DEF SchedInv, Timed
<1>2. PICK r \in Subs : Steps(c, r)
  <2>1. "error" \in SubPCs \ {"idle", "done"}
    BY DEF SubPCs
  <2> QED
    BY <1>1, <2>1, GoMoves DEF SubTypeOK
<1>3. sub' \in [Clients -> Subs]
  BY <1>1, <1>2, MovesType DEF SubTypeOK, Steps
<1>4. refusals' \in 0..MaxRefusals
  BY <1>1, SubmissionAssumption DEF SubTypeOK, Refused
<1>5. SubTypeOK'
  BY <1>1, <1>3, <1>4 DEF SubTypeOK, PoolTypeOK, poolVars
<1>6. SameRuns
  BY <1>1, <1>2, StepsSame DEF SubTypeOK
<1> QED
  BY <1>1, <1>5, <1>6, QuietStep, WaitKeeps

\* The new run has a start time, and who had one keeps one.
LEMMA TimedFiling ==
    ASSUME expected \in [Clients -> Nat], NEW c \in Clients, NEW k \in Nat, StartsAfter(c, k)
    PROVE  /\ expected' \in [Clients -> Nat] /\ expected'[c] # Never
           /\ \A d \in Clients : expected[d] # Never => expected'[d] # Never
<1>1. \A d \in Clients : expected'[d] = IF d = c THEN k + 1
                           ELSE IF expected[d] > k THEN expected[d] + 1 ELSE expected[d]
  BY DEF StartsAfter
<1>2. \A d \in Clients : expected'[d] \in Nat
  BY <1>1
<1>3. expected' \in [Clients -> Nat]
  BY <1>2 DEF StartsAfter
<1> QED
  BY <1>1, <1>3 DEF Never

LEMMA FiledInv ==
    ASSUME SchedInv, NEW c \in Clients, Filed(c)
    PROVE  SchedInv' /\ FailedStay
<1>1. /\ SubTypeOK /\ Waited /\ Timed /\ Filings /\ Blamed /\ Addressed
      /\ sub \in [Clients -> Subs] /\ SubAt(c, "submit")
      /\ UNCHANGED <<poolVars, catalog, deployed, bead, heir, wait, troubles, crashes>>
  BY TypeParts DEF SchedInv, SubTypeOK, Filed, Submit
<1> DEFINE r == [sub[c] EXCEPT !.at = "done", !.run = "scheduled", !.in = deployed[sub[c].dep]]
<1>2. CASE /\ sub' = [sub EXCEPT ![c] = r] /\ deployed[sub[c].dep] # Absent
           /\ UNCHANGED refusals
  <2>1. sub[c] \in Subs /\ sub[c].dep \in Deployments
    BY <1>1 DEF Addressed, SubAt
  <2>2. deployed[sub[c].dep] \in Pools \cup {NoPool}
    BY <1>1, <1>2, <2>1 DEF SubTypeOK
  <2>3. r \in Subs /\ r.at = "done" /\ r.run = "scheduled" /\ r.dep = sub[c].dep
    BY <2>1, <2>2 DEF Subs, SubPCs, RunStates
  <2> HIDE DEF r
  <2>4. sub' \in [Clients -> Subs] /\ sub'[c] = r /\ \A d \in Clients \ {c} : sub'[d] = sub[d]
    BY <1>1, <1>2, <2>3
  <2>5. sub'[c].at = "done"
    BY <2>3, <2>4
  <2>6. PICK k \in {expected[d] : d \in Clients} \cup {Never}, later \in BOOLEAN :
            StartsAfter(c, k) /\ due' = IF later THEN due ELSE due \cup {c}
    BY <2>5 DEF Filed
  <2>7. /\ expected' \in [Clients -> Nat] /\ expected'[c] # Never
        /\ \A d \in Clients : expected[d] # Never => expected'[d] # Never
    <3>1. expected \in [Clients -> Nat] /\ k \in Nat
      BY <1>1, <2>6 DEF Timed, Never
    <3> QED
      BY <2>6, <3>1, TimedFiling
  <2>8. SubTypeOK' /\ Addressed'
    BY <1>1, <1>2, <2>1, <2>3, <2>4 DEF SubTypeOK, PoolTypeOK, poolVars, Addressed
  <2>9. FailedStay
    <3>1. sub[c].run # "failed"
      BY <1>1 DEF Filings, Submitted, SubAt
    <3> QED
      BY <2>4, <3>1 DEF FailedStay
  <2>10. Submitted' = Submitted \cup {c}
    BY <2>3, <2>4 DEF Submitted
  <2>11. Filings'
    <3>1. due' \subseteq Submitted'
      BY <1>1, <2>6, <2>10 DEF Filings
    <3>2. \A d \in Submitted' : sub'[d].at = "done" /\ expected'[d] # Never
      BY <1>1, <2>4, <2>5, <2>7, <2>10 DEF Filings, Submitted
    <3>3. \A d \in Clients : sub'[d].run \in {"running", "completed"} => d \in due'
      BY <1>1, <2>3, <2>4, <2>6 DEF Filings
    <3> QED
      BY <3>1, <3>2, <3>3 DEF Filings
  <2>12. Blamed' /\ Waited' /\ Timed'
    BY <1>1, <2>7, <2>9, BlamedOK, WaitKeeps DEF Timed
  <2>13. SchedTypeOK'
    BY <2>8, <2>11, <2>12, TypeParts, PTL
  <2> QED
    BY <2>8, <2>9, <2>13 DEF SchedInv
<1>3. CASE Refused /\ SubGo(c, "error")
  <2>1. sub[c] \in Subs
    BY <1>1
  <2>2. sub'[c].at = "error"
    BY <1>1, <1>3, <2>1 DEF SubGo, Subs
  <2>3. UNCHANGED <<expected, due>>
    BY <2>2 DEF Filed
  <2> QED
    BY <1>1, <1>3, <2>3, RefusedFiling
<1> QED
  BY <1>2, <1>3 DEF Filed, Submit

-----------------------------------------------------------------------------
(* Asking for a run, and the run.                                          *)

LEMMA AskInv ==
    ASSUME SchedInv, NEW c \in Clients, NEW dep \in Deployments, SubAt(c, "idle"),
           Ask(c, dep, NoPool), Timed', UNCHANGED expected,
           UNCHANGED <<poolVars, catalog, deployed, refusals, bead, due, wait, troubles>>
    PROVE  SchedInv' /\ FailedStay
<1>1. /\ SubTypeOK /\ Waited /\ Timed /\ Filings /\ Blamed /\ Addressed
      /\ sub \in [Clients -> Subs]
  BY TypeParts DEF SchedInv, SubTypeOK
<1>2. PICK r \in Subs : Asks(c, r, dep)
  BY <1>1, AskMoves
<1>3. sub' \in [Clients -> Subs] /\ sub'[c] = r /\ \A d \in Clients \ {c} : sub'[d] = sub[d]
  BY <1>1, <1>2, MovesType DEF Asks
<1>4. sub[c].run = "none"
  BY <1>1, <1>2 DEF Filings, Submitted, Asks
<1>5. FailedStay
  BY <1>3, <1>4 DEF FailedStay
<1>6. Submitted' = Submitted
  BY <1>2, <1>3, <1>4 DEF Submitted, Asks
<1>7. Filings'
  <2>1. \A d \in Submitted : sub'[d].at = "done" /\ expected'[d] # Never
    BY <1>1, <1>3, <1>4 DEF Filings, Submitted
  <2>2. \A d \in Clients : sub'[d].run \in {"running", "completed"} => d \in due'
    BY <1>1, <1>2, <1>3 DEF Filings, Asks
  <2>3. due' \subseteq Submitted
    BY <1>1 DEF Filings
  <2> QED
    BY <1>6, <2>1, <2>2, <2>3 DEF Filings
<1>8. Addressed'
  BY <1>1, <1>2, <1>3 DEF Addressed, Asks
<1>9. SubTypeOK' /\ Waited' /\ Blamed'
  BY <1>1, <1>3, <1>5, BlamedOK, WaitKeeps DEF SubTypeOK, PoolTypeOK, poolVars
<1>10. SchedTypeOK'
  BY <1>7, <1>9, TypeParts, PTL
<1> QED
  BY <1>5, <1>8, <1>9, <1>10 DEF SchedInv

\* A run that is due goes on, or ends.
LEMMA RunGoesOn ==
    ASSUME SchedInv, NEW c \in Clients, NEW r \in Subs, Runs(c, r), c \in due,
           sub[c].run # "failed", r.run \in {"running", "completed", "failed"},
           Waited', Timed', UNCHANGED <<poolVars, catalog, deployed, refusals, expected, due, wait>>
    PROVE  SchedInv' /\ FailedStay
<1>1. /\ SubTypeOK /\ Filings /\ Blamed /\ Addressed /\ Waited
      /\ sub \in [Clients -> Subs]
  BY TypeParts DEF SchedInv, SubTypeOK
<1>2. sub' \in [Clients -> Subs] /\ sub'[c] = r /\ \A d \in Clients \ {c} : sub'[d] = sub[d]
  BY <1>1, MovesType DEF Runs
<1>3. FailedStay
  BY <1>2 DEF FailedStay
<1>4. c \in Submitted
  BY <1>1 DEF Filings
<1>5. Submitted' = Submitted
  BY <1>2, <1>4 DEF Submitted
<1>6. Filings'
  <2>1. \A d \in Submitted : sub'[d].at = "done" /\ expected'[d] # Never
    BY <1>1, <1>2 DEF Filings, Runs, Submitted
  <2>2. \A d \in Clients : sub'[d].run \in {"running", "completed"} => d \in due'
    BY <1>1, <1>2 DEF Filings
  <2>3. due' \subseteq Submitted
    BY <1>1 DEF Filings
  <2> QED
    BY <1>5, <2>1, <2>2, <2>3 DEF Filings
<1>7. Addressed'
  BY <1>1, <1>2 DEF Addressed, Runs
<1>8. SubTypeOK' /\ Blamed'
  BY <1>1, <1>2, <1>3, BlamedOK DEF SubTypeOK, PoolTypeOK, poolVars
<1>9. SchedTypeOK'
  BY <1>6, <1>8, TypeParts, PTL
<1> QED
  BY <1>3, <1>7, <1>8, <1>9 DEF SchedInv

LEMMA FlowEndsInv ==
    ASSUME SchedInv, NEW c \in Clients, NEW end \in {"completed", "failed"}, FlowEnds(c, end),
           sub[c].run = "running", Waited', Timed',
           UNCHANGED <<poolVars, catalog, deployed, refusals, expected, due, wait>>
    PROVE  SchedInv' /\ FailedStay
<1> DEFINE r == [sub[c] EXCEPT !.run = end]
<1>1. sub[c] \in Subs /\ Filings
  BY TypeParts DEF SchedInv, SubTypeOK
<1>2. r \in Subs /\ r.at = sub[c].at /\ r.dep = sub[c].dep /\ r.run = end
  BY <1>1 DEF Subs, RunStates
<1>3. sub' = [sub EXCEPT ![c] = r]
  BY DEF FlowEnds
<1> HIDE DEF r
<1>4. Runs(c, r)
  BY <1>2, <1>3 DEF Runs, Moves
<1>5. c \in due
  BY <1>1 DEF Filings
<1> QED
  BY <1>2, <1>4, <1>5, RunGoesOn

LEMMA BeadOK ==
    ASSUME Waited, NEW row \in Rows, bead' = [bead EXCEPT ![Issue] = row],
           wait' \in [Waiters -> Waits], troubles' \in 0..MaxTroubles
    PROVE  Waited'
BY DEF Waited

LEMMA IssueRow == ASSUME Waited PROVE bead[Issue] \in Rows
BY DEF Waited, Beads

LEMMA RunAtInv ==
    ASSUME SchedInv, NEW c \in Clients, NEW dep \in Deployments, RunAt(c, dep)
    PROVE  SchedInv' /\ FailedStay
<1>1. Timed'
  BY TypeParts DEF SchedInv, Timed, RunAt, WaitSame
<1> QED
  BY <1>1, AskInv DEF RunAt, WaitSame

LEMMA ClaimedInv ==
    ASSUME SchedInv, NEW c \in Clients, Claimed(c)
    PROVE  SchedInv' /\ FailedStay
<1>1. PICK x \in Places : sub' = [sub EXCEPT ![c].run = "running", ![c].place = x]
  BY DEF Claimed
<1> DEFINE r == [sub[c] EXCEPT !.run = "running", !.place = x]
<1>2. sub[c] \in Subs
  BY TypeParts DEF SchedInv, SubTypeOK
<1>3. r \in Subs /\ r.at = sub[c].at /\ r.dep = sub[c].dep /\ r.run = "running"
  BY <1>2 DEF Subs, RunStates
<1>4. sub' = [sub EXCEPT ![c] = r]
  BY <1>1
<1> HIDE DEF r
<1>5. Runs(c, r)
  BY <1>3, <1>4 DEF Runs, Moves
<1>6. Waited' /\ Timed'
  BY TypeParts, WaitKeeps DEF SchedInv, Claimed, WaitSame, Timed
<1> QED
  BY <1>3, <1>5, <1>6, RunGoesOn DEF Claimed, WaitSame

LEMMA BecomesDueInv ==
    ASSUME SchedInv, NEW c \in Clients, BecomesDue(c)
    PROVE  SchedInv' /\ FailedStay
<1>1. /\ SubTypeOK /\ Waited /\ Timed /\ Filings /\ Blamed /\ Addressed
  BY TypeParts DEF SchedInv
<1>2. c \in Submitted /\ due' = due \cup {c} /\ sub' = sub
      /\ UNCHANGED <<poolVars, catalog, deployed, refusals, bead, expected, heir, wait, troubles, crashes>>
  BY DEF BecomesDue, subVars
<1>3. FailedStay
  BY <1>2 DEF FailedStay
<1>4. Filings'
  BY <1>1, <1>2 DEF Filings, Submitted
<1>5. SubTypeOK' /\ Waited' /\ Timed' /\ Blamed' /\ Addressed'
  BY <1>1, <1>2, <1>3, BlamedOK, WaitKeeps
  DEF SubTypeOK, PoolTypeOK, poolVars, Timed, Addressed
<1>6. SchedTypeOK'
  BY <1>4, <1>5, TypeParts, PTL
<1> QED
  BY <1>3, <1>5, <1>6 DEF SchedInv

\* The steps that change no run, no submission and no time.
LEMMA BeadStep ==
    ASSUME SchedInv, Waited', UNCHANGED <<subVars, expected, due, heir, crashes, wait>>
    PROVE  SchedInv' /\ FailedStay
<1>1. SubTypeOK' /\ SameRuns /\ crashes' \in 0..MaxCrashes
  BY TypeParts DEF SchedInv, SubTypeOK, PoolTypeOK, subVars, poolVars, SameRuns, Timed
<1> QED
  BY <1>1, QuietStep

LEMMA ClaimIssueInv ==
    ASSUME SchedInv, NEW c \in Clients, ClaimIssue(c)
    PROVE  SchedInv' /\ FailedStay
<1>1. Waited
  BY TypeParts DEF SchedInv
<1> DEFINE row == [bead[Issue] EXCEPT !.status = "in_progress", !.assignee = c]
<1>2. row \in Rows
  BY <1>1, IssueRow DEF Rows
<1>3. bead' = [bead EXCEPT ![Issue] = row]
  BY DEF ClaimIssue
<1> HIDE DEF row
<1>4. Waited'
  BY <1>1, <1>2, <1>3, BeadOK DEF ClaimIssue, Waited
<1> QED
  BY <1>4, BeadStep DEF ClaimIssue

LEMMA FinishesInv ==
    ASSUME SchedInv, NEW c \in Clients, Finishes(c)
    PROVE  SchedInv' /\ FailedStay
<1>1. Waited /\ Timed
  BY TypeParts DEF SchedInv
<1>2. PICK good \in BOOLEAN :
          bead' = [bead EXCEPT ![Issue].status = "closed",
                               ![Issue].good = IF bead[Issue].status = "closed" THEN @ ELSE good]
  BY DEF Finishes
<1> DEFINE was == IF bead[Issue].status = "closed" THEN bead[Issue].good ELSE good
           row == [bead[Issue] EXCEPT !.status = "closed", !.good = was]
<1>3. bead[Issue] \in Rows
  BY <1>1, IssueRow
<1>4. was \in BOOLEAN
  BY <1>3 DEF Rows
<1>5. bead' = [bead EXCEPT ![Issue] = row]
  BY <1>2, <1>3 DEF Rows
<1>6. row \in Rows
  <2> HIDE DEF was
  <2> QED
    BY <1>3, <1>4 DEF Rows
<1> HIDE DEF row
<1>7. Waited' /\ Timed'
  BY <1>1, <1>5, <1>6, BeadOK DEF Finishes, Waited, Timed
<1> QED
  BY <1>7, FlowEndsInv DEF Finishes, FlowAt

LEMMA CrashesInv ==
    ASSUME SchedInv, NEW c \in Clients, Crashes(c)
    PROVE  SchedInv' /\ FailedStay
<1>1. Waited /\ Timed
  BY TypeParts DEF SchedInv
<1>2. Waited' /\ Timed'
  BY <1>1, WaitKeeps, WaitingAssumption DEF Crashes, Crash, Timed
<1> QED
  BY <1>2, FlowEndsInv DEF Crashes, FlowAt

LEMMA RateLimitedInv ==
    ASSUME SchedInv, NEW c \in Clients, RateLimited(c)
    PROVE  SchedInv' /\ FailedStay
<1>1. Waited /\ Timed /\ Filings /\ Addressed
  BY TypeParts DEF SchedInv
<1>2. crashes' \in 0..MaxCrashes
  BY <1>1, WaitingAssumption DEF RateLimited, Crash, Timed
<1>3. ASSUME NEW d \in Clients, SubAt(d, "idle"), Ask(d, sub[c].dep, NoPool),
             heir' = [heir EXCEPT ![c] = d]
      PROVE  SchedInv' /\ FailedStay
  <2>1. sub[c].dep \in Deployments
    <3>1. sub[c].at = "done"
      BY <1>1 DEF RateLimited, FlowAt, Filings, Submitted
    <3> QED
      BY <1>1, <3>1 DEF Addressed
  <2>2. Timed'
    BY <1>1, <1>2, <1>3 DEF RateLimited, Timed
  <2> QED
    BY <1>3, <2>1, <2>2, AskInv DEF RateLimited
<1>4. ASSUME FlowEnds(c, "failed"), heir' = [heir EXCEPT ![c] = c]
      PROVE  SchedInv' /\ FailedStay
  <2>1. Timed' /\ Waited'
    BY <1>1, <1>2, <1>4, WaitKeeps DEF RateLimited, Timed
  <2> QED
    BY <1>4, <2>1, FlowEndsInv DEF RateLimited, FlowAt
<1> QED
  BY <1>3, <1>4 DEF RateLimited

LEMMA LimitedFailsInv ==
    ASSUME SchedInv, NEW c \in Clients, LimitedFails(c)
    PROVE  SchedInv' /\ FailedStay
<1>1. Waited' /\ Timed'
  BY TypeParts, WaitKeeps DEF SchedInv, LimitedFails, WaitSame, Timed
<1> QED
  BY <1>1, FlowEndsInv DEF LimitedFails, WaitSame

LEMMA ClosedByHandInv ==
    ASSUME SchedInv, NEW b \in Others, ClosedByHand(b)
    PROVE  SchedInv' /\ FailedStay
<1>1. Waited
  BY TypeParts DEF SchedInv
<1>2. PICK good \in BOOLEAN : bead' = [bead EXCEPT ![b].status = "closed", ![b].good = good]
  BY DEF ClosedByHand
<1> DEFINE row == [bead[b] EXCEPT !.status = "closed", !.good = good]
<1>3. bead[b] \in Rows
  BY <1>1 DEF Waited, Beads
<1>4. row \in Rows
  BY <1>3 DEF Rows
<1>5. bead' = [bead EXCEPT ![b] = row]
  BY <1>2
<1> HIDE DEF row
<1>6. Waited'
  BY <1>1, <1>4, <1>5 DEF ClosedByHand, Waited
<1> QED
  BY <1>6, BeadStep DEF ClosedByHand

\* When a worker dies, the submissions keep all but their history.
LEMMA BereavesSame ==
    ASSUME sub \in [Clients -> Subs], NEW p, NEW x, Bereaves(p, x)
    PROVE  sub' \in [Clients -> Subs] /\ SameRuns
<1>1. ASSUME NEW c \in Clients
      PROVE  /\ sub'[c] \in Subs /\ sub'[c].run = sub[c].run /\ sub'[c].dep = sub[c].dep
             /\ sub'[c].at = sub[c].at
  <2> DEFINE lone == sub[c].bereft \/ Bereft(c, p, x)
             r == [sub[c] EXCEPT !.bereft = lone]
  <2>1. sub'[c] = r
    BY DEF Bereaves
  <2>2. sub[c] \in Subs /\ lone \in BOOLEAN
    BY DEF Bereft
  <2> HIDE DEF lone
  <2> QED
    BY <2>1, <2>2 DEF Subs
<1>2. sub' = [c \in Clients |-> sub'[c]]
  BY DEF Bereaves
<1> QED
  BY <1>1, <1>2 DEF SameRuns

LEMMA WorkersInv ==
    ASSUME SchedInv, Workers
    PROVE  SchedInv' /\ FailedStay
<1>1. SubTypeOK /\ Waited /\ crashes \in 0..MaxCrashes
  BY TypeParts DEF SchedInv, Timed
<1>2. PoolTypeOK'
  <2>1. CASE \E p \in Pools, x \in Places : Heartbeat(p, x) \/ GoesOffline(p, x)
    <3>1. PICK p \in Pools, x \in Places, status \in {"online", "offline"} :
              known' = [known EXCEPT ![p][x] = status] /\ procs' = procs
      BY <2>1 DEF Heartbeat, GoesOffline
    <3> QED
      BY <1>1, <3>1 DEF SubTypeOK, PoolTypeOK
  <2>2. CASE \E p \in Pools, x \in Places : WorkerDies(p, x)
    <3>1. PICK p \in Pools, x \in Places : WorkerDies(p, x)
      BY <2>2
    <3>2. procs[p][x] - 1 \in Nat
      BY <1>1, <3>1 DEF SubTypeOK, PoolTypeOK, WorkerDies
    <3> DEFINE left == procs[p][x] - 1
    <3>3. procs' = [procs EXCEPT ![p][x] = left] /\ left \in Nat /\ known' = known
      BY <3>1, <3>2 DEF WorkerDies
    <3> HIDE DEF left
    <3> QED
      BY <1>1, <3>3 DEF SubTypeOK, PoolTypeOK
  <2> QED
    BY <2>1, <2>2 DEF Workers, PoolNext
<1>3. UNCHANGED <<catalog, deployed, refusals, bead, expected, due, heir, wait, troubles>>
  BY DEF Workers, WaitSame
<1>4. crashes' \in 0..MaxCrashes
  BY <1>1, WaitingAssumption DEF Workers, WaitSame, Crash
<1>5. SubTypeOK' /\ SameRuns
  <2>1. CASE UNCHANGED sub
    BY <1>1, <1>2, <1>3, <2>1 DEF SubTypeOK, SameRuns
  <2>2. CASE \E p \in Pools, x \in Places : Bereaves(p, x)
    BY <1>1, <1>2, <1>3, <2>2, BereavesSame DEF SubTypeOK
  <2> QED
    BY <2>1, <2>2 DEF Workers
<1> QED
  BY <1>1, <1>3, <1>4, <1>5, QuietStep, WaitKeeps

-----------------------------------------------------------------------------
(* The waiting processes, and the claim on the bead.                       *)

\* A claim that is on an open bead shows.
Claims ==
    bead[Issue].assignee # Nobody /\ bead[Issue].status # "closed"
        => bead[Issue].status = "in_progress"

\* A process knows of a failed run from the look that found it until it leaves; as long
\* as that run has the claim, the row the process has read says so.
Sound(w) ==
    LET claimed == wait[w].failed # Nobody /\ bead[Issue].assignee = wait[w].failed
    IN  /\ wait[w].at \in {"show", "look"} => wait[w].failed = Nobody
        /\ wait[w].at \in {"reread", "note", "clear"} => wait[w].failed # Nobody
        /\ wait[w].at \in {"note", "clear"} /\ claimed => ToClear(w)
        /\ wait[w].at = "done" /\ claimed => troubles > 0

ClaimInv == SchedInv /\ Claims /\ \A w \in Waiters : Sound(w)

Blames(r) == r.failed # Nobody => sub[r.failed].run = "failed"

\* A step of a waiting process that goes on to r.
Tells(w, r) ==
    /\ r \in Waits /\ Blames(r)
    /\ wait' = [wait EXCEPT ![w] = r]
    /\ bead' \in [Beads -> Rows]
    /\ bead'[Issue].status = bead[Issue].status
    /\ bead'[Issue].assignee \in {bead[Issue].assignee, Nobody}
    /\ troubles' \in 0..MaxTroubles /\ troubles' >= troubles
    /\ UNCHANGED <<subVars, expected, due, heir, crashes>>

LEMMA TellsInv ==
    ASSUME SchedInv, NEW w \in Waiters, NEW r, Tells(w, r)
    PROVE  SchedInv' /\ FailedStay
<1>1. SubTypeOK /\ Waited /\ Timed /\ Filings /\ Blamed /\ Addressed
  BY TypeParts DEF SchedInv
<1>2. sub' = sub /\ UNCHANGED <<poolVars, catalog, deployed, refusals>>
  BY DEF Tells, subVars
<1>3. SameRuns
  BY <1>2 DEF SameRuns
<1>4. Filings' /\ Addressed' /\ FailedStay
  BY <1>1, <1>3, SameFilings DEF Tells
<1>5. wait' \in [Waiters -> Waits] /\ wait'[w] = r /\ \A v \in Waiters \ {w} : wait'[v] = wait[v]
  BY <1>1 DEF Tells, Waited
<1>6. Waited'
  BY <1>5 DEF Waited, Tells
<1>7. Blamed'
  BY <1>1, <1>2, <1>5 DEF Blamed, Tells, Blames
<1>8. SubTypeOK' /\ Timed'
  BY <1>1, <1>2 DEF SubTypeOK, PoolTypeOK, poolVars, Timed, Tells
<1>9. SchedTypeOK'
  BY <1>4, <1>6, <1>7, <1>8, TypeParts, PTL
<1> QED
  BY <1>4, <1>8, <1>9 DEF SchedInv

\* Who does not move stays sound, unless the claim becomes the one of its failed run.
LEMMA StaysSound ==
    ASSUME NEW v \in Waiters, Sound(v), wait'[v] = wait[v],
           troubles' \in Nat, troubles \in Nat, troubles' >= troubles,
           bead'[Issue].assignee \in {bead[Issue].assignee, Nobody, wait[v].failed}
               => bead'[Issue].assignee \in {bead[Issue].assignee, Nobody}
    PROVE  Sound(v)'
BY DEF Sound, ToClear

LEMMA OthersSound ==
    ASSUME SchedInv, \A v \in Waiters : Sound(v), NEW w \in Waiters, NEW r, Tells(w, r), Sound(w)'
    PROVE  \A v \in Waiters : Sound(v)'
<1>1. troubles \in Nat /\ wait \in [Waiters -> Waits]
  BY TypeParts DEF SchedInv, Waited
<1>2. troubles' \in Nat
  BY WaitingAssumption DEF Tells
<1>3. \A v \in Waiters \ {w} : wait'[v] = wait[v]
  BY <1>1 DEF Tells
<1>4. ASSUME NEW v \in Waiters \ {w} PROVE Sound(v)'
  BY <1>1, <1>2, <1>3, StaysSound DEF Tells
<1> QED
  BY <1>4

LEMMA TellsClaim ==
    ASSUME ClaimInv, NEW w \in Waiters, NEW r, Tells(w, r), Sound(w)'
    PROVE  ClaimInv'
<1>1. SchedInv'
  BY TellsInv DEF ClaimInv
<1>2. \A v \in Waiters : Sound(v)'
  BY OthersSound DEF ClaimInv
<1>3. Claims'
  BY DEF ClaimInv, Claims, Tells
<1> QED
  BY <1>1, <1>2, <1>3 DEF ClaimInv

\* A step of a process that touches no bead: it goes to r, which is sound.
LEMMA Goes ==
    ASSUME ClaimInv, NEW w \in Waiters, NEW r \in Waits, Set(w, r), Fine \/ Trouble,
           NoRunStep, UNCHANGED bead, Blames(r),
           \/ r.at \in {"show", "look", "done"} /\ r.failed = Nobody
           \/ r.at = "reread" /\ r.failed # Nobody
           \/ /\ r.at = "note" /\ r.failed # Nobody
              /\ r.row = bead[Issue] /\ bead[Issue].status # "closed"
    PROVE  ClaimInv'
<1>1. /\ wait \in [Waiters -> Waits] /\ bead \in [Beads -> Rows] /\ troubles \in 0..MaxTroubles
      /\ Claims
  BY TypeParts DEF ClaimInv, SchedInv, Waited
<1>2. troubles' \in 0..MaxTroubles /\ troubles' >= troubles
  BY <1>1, WaitingAssumption DEF Fine, Trouble
<1>3. Tells(w, r)
  BY <1>1, <1>2 DEF Tells, Set, NoRunStep
<1>4. wait'[w] = r
  BY <1>1 DEF Set
<1>5. CASE r.at # "note"
  <2>1. Sound(w)'
    BY <1>4, <1>5 DEF Sound, ToClear
  <2> QED
    BY <1>3, <2>1, TellsClaim
<1>6. CASE r.at = "note"
  <2>1. wait'[w].at = "note" /\ wait'[w].row = bead[Issue] /\ bead[Issue].status # "closed"
    BY <1>4, <1>6
  <2>2. wait'[w].failed # Nobody /\ bead'[Issue].assignee = wait'[w].failed
            => bead[Issue].status = "in_progress" /\ bead[Issue].assignee = wait'[w].failed
    BY <1>1, <2>1 DEF Claims
  <2>3. Sound(w)'
    BY <1>4, <1>6, <2>1, <2>2 DEF Sound, ToClear
  <2> QED
    BY <1>3, <2>3, TellsClaim
<1> QED
  BY <1>5, <1>6

LEMMA ShowClaim ==
    ASSUME ClaimInv, NEW w \in Waiters, NEW b \in Beads, Show(w, b)
    PROVE  ClaimInv'
<1>1. wait[w] \in Waits /\ wait[w].failed = Nobody /\ wait[w].at = "show"
  BY TypeParts DEF ClaimInv, SchedInv, Waited, Sound, Show, WaitAt
<1>2. CASE Exits(w, "3") /\ Trouble
  <2> DEFINE r == [wait[w] EXCEPT !.at = "done", !.exit = "3"]
  <2>1. r \in Waits /\ r.at = "done" /\ r.failed = Nobody
    BY <1>1 DEF Waits, WaitPCs
  <2>2. Set(w, r)
    BY <1>2 DEF Exits
  <2> HIDE DEF r
  <2> QED
    BY <1>2, <2>1, <2>2, Goes DEF Show, Blames
<1>3. CASE ~(Exits(w, "3") /\ Trouble)
  <2> DEFINE seen == IF bead[b].status # "closed" THEN "no"
                     ELSE IF bead[b].good THEN "good" ELSE "bad"
             r == [wait[w] EXCEPT !.todo = @ \ {b}, !.closed[b] = seen]
  <2>1. Set(w, r) /\ Fine
    BY <1>3 DEF Show
  <2>2. seen \in {"no", "good", "bad"}
    OBVIOUS
  <2>3. r \in Waits /\ r.at = "show" /\ r.failed = Nobody
    <3> HIDE DEF seen
    <3> QED
      BY <1>1, <2>2 DEF Waits
  <2> HIDE DEF r
  <2> QED
    BY <2>1, <2>3, Goes DEF Show, Blames
<1> QED
  BY <1>2, <1>3

LEMMA ShownClaim ==
    ASSUME ClaimInv, NEW w \in Waiters, Shown(w)
    PROVE  ClaimInv'
<1>1. wait[w] \in Waits /\ wait[w].failed = Nobody /\ wait[w].at = "show"
  BY TypeParts DEF ClaimInv, SchedInv, Waited, Sound, Shown, WaitAt
<1>2. CASE Exits(w, Code(w))
  <2> DEFINE r == [wait[w] EXCEPT !.at = "done", !.exit = Code(w)]
  <2>1. r \in Waits /\ r.at = "done" /\ r.failed = Nobody
    BY <1>1 DEF Waits, WaitPCs, Code
  <2>2. Set(w, r)
    BY <1>2 DEF Exits
  <2> HIDE DEF r
  <2> QED
    BY <2>1, <2>2, Goes DEF Shown, Blames
<1>3. CASE Set(w, [wait[w] EXCEPT !.at = "look", !.todo = Open(w)])
  <2> DEFINE r == [wait[w] EXCEPT !.at = "look", !.todo = Open(w)]
  <2>0. Open(w) \in SUBSET Beads
    BY <1>1, WaitingAssumption DEF Open, Ids, Waits, Beads
  <2>1. r \in Waits /\ r.at = "look" /\ r.failed = Nobody
    BY <1>1, <2>0 DEF Waits, WaitPCs
  <2>2. Set(w, r)
    BY <1>3
  <2> HIDE DEF r
  <2> QED
    BY <2>1, <2>2, Goes DEF Shown, Blames
<1> QED
  BY <1>2, <1>3 DEF Shown

LEMMA LookClaim ==
    ASSUME ClaimInv, NEW w \in Waiters, NEW b \in Beads, Look(w, b)
    PROVE  ClaimInv'
<1>1. wait[w] \in Waits /\ wait[w].failed = Nobody /\ wait[w].at = "look"
  BY TypeParts DEF ClaimInv, SchedInv, Waited, Sound, Look, WaitAt
<1> DEFINE next == [wait[w] EXCEPT !.todo = @ \ {b}]
<1>2. CASE Set(w, next) /\ (Fine \/ Trouble)
  <2>1. next \in Waits /\ next.at = "look" /\ next.failed = Nobody
    BY <1>1 DEF Waits
  <2> HIDE DEF next
  <2> QED
    BY <1>2, <2>1, Goes DEF Look, Blames
<1>3. CASE \E c \in {d \in Newest(b) : Failing(d)} :
               Set(w, [next EXCEPT !.at = "reread", !.failed = c]) /\ Fine
  <2>1. PICK c \in Newest(b) : Failing(c) /\ Set(w, [next EXCEPT !.at = "reread", !.failed = c]) /\ Fine
    BY <1>3
  <2>2. c \in Clients /\ sub[c].run = "failed"
    BY <2>1 DEF Newest, Submitted, Failing
  <2> DEFINE r == [next EXCEPT !.at = "reread", !.failed = c]
  <2>3. r \in Waits /\ r.at = "reread" /\ r.failed = c
    BY <1>1, <2>2 DEF Waits, WaitPCs
  <2>4. Set(w, r) /\ Fine
    BY <2>1
  <2> HIDE DEF r
  <2> QED
    BY <2>2, <2>3, <2>4, Goes, WaitingAssumption DEF Look, Blames
<1> QED
  BY <1>2, <1>3 DEF Look

LEMMA RereadClaim ==
    ASSUME ClaimInv, NEW w \in Waiters, Reread(w)
    PROVE  ClaimInv'
<1>1. wait[w] \in Waits /\ Blames(wait[w]) /\ bead[Issue] \in Rows /\ wait[w].failed # Nobody
  BY TypeParts, IssueRow
  DEF ClaimInv, SchedInv, Waited, Blamed, Blames, Sound, Reread, WaitAt
<1>2. CASE Set(w, [wait[w] EXCEPT !.at = "look", !.failed = Nobody]) /\ (Fine \/ Trouble)
  <2> DEFINE r == [wait[w] EXCEPT !.at = "look", !.failed = Nobody]
  <2>1. r \in Waits /\ r.at = "look" /\ r.failed = Nobody
    BY <1>1 DEF Waits, WaitPCs
  <2>2. Set(w, r)
    BY <1>2
  <2> HIDE DEF r
  <2> QED
    BY <1>2, <2>1, <2>2, Goes DEF Reread, Blames
<1>3. CASE /\ bead[Issue].status # "closed"
           /\ Set(w, [wait[w] EXCEPT !.at = "note", !.row = bead[Issue]])
           /\ Fine
  <2> DEFINE r == [wait[w] EXCEPT !.at = "note", !.row = bead[Issue]]
  <2>1. r \in Waits /\ r.at = "note" /\ r.failed = wait[w].failed /\ r.row = bead[Issue]
    BY <1>1 DEF Waits, WaitPCs
  <2>2. Set(w, r)
    BY <1>3
  <2> HIDE DEF r
  <2> QED
    BY <1>1, <1>3, <2>1, <2>2, Goes DEF Reread, Blames
<1> QED
  BY <1>2, <1>3 DEF Reread

LEMMA RoundClaim ==
    ASSUME ClaimInv, NEW w \in Waiters, Round(w) \/ TimesOut(w)
    PROVE  ClaimInv'
<1>1. wait[w] \in Waits /\ wait[w].failed = Nobody /\ wait[w].at = "look"
  BY TypeParts DEF ClaimInv, SchedInv, Waited, Sound, Round, TimesOut, WaitAt
<1>2. CASE Round(w)
  <2> DEFINE r == [wait[w] EXCEPT !.at = "show", !.todo = Open(w)]
  <2>0. Open(w) \in SUBSET Beads
    BY <1>1, WaitingAssumption DEF Open, Ids, Waits, Beads
  <2>1. r \in Waits /\ r.at = "show" /\ r.failed = Nobody
    BY <1>1, <2>0 DEF Waits, WaitPCs
  <2>2. Set(w, r)
    BY <1>2 DEF Round
  <2> HIDE DEF r
  <2> QED
    BY <1>2, <2>1, <2>2, Goes DEF Round, Blames
<1>3. CASE TimesOut(w)
  <2> DEFINE r == [wait[w] EXCEPT !.at = "done", !.exit = "2"]
  <2>1. r \in Waits /\ r.at = "done" /\ r.failed = Nobody
    BY <1>1 DEF Waits, WaitPCs
  <2>2. Set(w, r)
    BY <1>3 DEF TimesOut, Exits
  <2> HIDE DEF r
  <2> QED
    BY <1>3, <2>1, <2>2, Goes DEF TimesOut, Blames
<1> QED
  BY <1>2, <1>3

\* The comment is made: what is left to do depends on the row that was read.
LEMMA NoteClaim ==
    ASSUME ClaimInv, NEW w \in Waiters, Note(w)
    PROVE  ClaimInv'
<1>1. /\ wait[w] \in Waits /\ Blames(wait[w]) /\ bead[Issue] \in Rows /\ Sound(w)
      /\ bead \in [Beads -> Rows] /\ troubles \in 0..MaxTroubles /\ wait \in [Waiters -> Waits]
      /\ wait[w].at = "note"
  BY TypeParts, IssueRow DEF ClaimInv, SchedInv, Waited, Blamed, Blames, Note, WaitAt
<1>2. troubles' \in 0..MaxTroubles /\ troubles' >= troubles
  BY <1>1, WaitingAssumption DEF Note, Fine, Trouble
<1>3. wait[w].failed \in Clients /\ wait[w].failed # Nobody
  BY <1>1 DEF Sound, Waits
<1>4. /\ bead' \in [Beads -> Rows]
      /\ bead'[Issue].status = bead[Issue].status
      /\ bead'[Issue].assignee = bead[Issue].assignee
  <2>1. CASE bead' = bead
    BY <1>1, <2>1
  <2>2. CASE bead' # bead
    <3> DEFINE row == [bead[Issue] EXCEPT !.notes = @ \cup {wait[w].failed}]
    <3>1. bead' = [bead EXCEPT ![Issue] = row]
      BY <2>2 DEF Note
    <3>2. row \in Rows /\ row.status = bead[Issue].status /\ row.assignee = bead[Issue].assignee
      BY <1>1, <1>3 DEF Rows
    <3> HIDE DEF row
    <3> QED
      BY <1>1, <3>1, <3>2 DEF Beads
  <2> QED
    BY <2>1, <2>2
<1>5. CASE ToClear(w)
  <2> DEFINE r == [wait[w] EXCEPT !.at = "clear"]
  <2>1. /\ r \in Waits /\ r.at = "clear" /\ r.failed = wait[w].failed /\ r.row = wait[w].row
        /\ Blames(r)
    BY <1>1 DEF Waits, WaitPCs, Blames
  <2>2. wait' = [wait EXCEPT ![w] = r]
    BY <1>5 DEF Note, Set
  <2> HIDE DEF r
  <2>3. Tells(w, r)
    BY <1>2, <1>4, <2>1, <2>2 DEF Tells, Note, NoRunStep
  <2>4. wait'[w] = r
    BY <1>1, <2>2
  <2>5. Sound(w)'
    BY <1>3, <1>5, <2>1, <2>4 DEF Sound, ToClear
  <2> QED
    BY <2>3, <2>5, TellsClaim
<1>6. CASE ~ToClear(w)
  <2> DEFINE r == [wait[w] EXCEPT !.at = "done", !.exit = "1"]
  <2>1. r \in Waits /\ r.at = "done" /\ r.failed = wait[w].failed /\ Blames(r)
    BY <1>1 DEF Waits, WaitPCs, Blames
  <2>2. wait' = [wait EXCEPT ![w] = r]
    BY <1>6 DEF Note, Set
  <2> HIDE DEF r
  <2>3. Tells(w, r)
    BY <1>2, <1>4, <2>1, <2>2 DEF Tells, Note, NoRunStep
  <2>4. wait'[w] = r
    BY <1>1, <2>2
  <2>5. bead[Issue].assignee # wait[w].failed
    BY <1>1, <1>3, <1>6 DEF Sound
  <2>6. Sound(w)'
    BY <1>4, <2>1, <2>4, <2>5 DEF Sound
  <2> QED
    BY <2>3, <2>6, TellsClaim
<1> QED
  BY <1>5, <1>6

LEMMA ClearClaim ==
    ASSUME ClaimInv, NEW w \in Waiters, Clear(w)
    PROVE  ClaimInv'
<1>1. /\ wait[w] \in Waits /\ Blames(wait[w]) /\ bead[Issue] \in Rows
      /\ bead \in [Beads -> Rows] /\ troubles \in 0..MaxTroubles /\ wait \in [Waiters -> Waits]
      /\ wait[w].failed # Nobody
  BY TypeParts, IssueRow
  DEF ClaimInv, SchedInv, Waited, Blamed, Blames, Sound, Clear, WaitAt
<1>2. troubles' \in 0..MaxTroubles /\ troubles' >= troubles
  BY <1>1, WaitingAssumption DEF Clear, Fine, Trouble
<1> DEFINE r == [wait[w] EXCEPT !.at = "done", !.exit = "1"]
<1>3. r \in Waits /\ r.at = "done" /\ r.failed = wait[w].failed /\ Blames(r)
  BY <1>1 DEF Waits, WaitPCs, Blames
<1>4. wait' = [wait EXCEPT ![w] = r]
  BY DEF Clear, Exits, Set
<1> HIDE DEF r
<1>5. wait'[w] = r
  BY <1>1, <1>4
<1>6. CASE bead' = [bead EXCEPT ![Issue].assignee = Nobody] /\ Fine
  <2> DEFINE row == [bead[Issue] EXCEPT !.assignee = Nobody]
  <2>1. row \in Rows /\ row.status = bead[Issue].status /\ row.assignee = Nobody
    BY <1>1 DEF Rows
  <2>2. bead' = [bead EXCEPT ![Issue] = row]
    BY <1>6
  <2> HIDE DEF row
  <2>3. bead' \in [Beads -> Rows] /\ bead'[Issue] = row
    BY <1>1, <2>1, <2>2 DEF Beads
  <2>4. Tells(w, r)
    BY <1>2, <1>3, <1>4, <2>1, <2>3 DEF Tells, Clear, NoRunStep
  <2>5. Sound(w)'
    BY <1>1, <1>3, <1>5, <2>1, <2>3 DEF Sound
  <2> QED
    BY <2>4, <2>5, TellsClaim
<1>7. CASE UNCHANGED bead /\ Trouble
  <2>1. Tells(w, r)
    BY <1>1, <1>2, <1>3, <1>4, <1>7 DEF Tells, Clear, NoRunStep
  <2>2. troubles' > 0
    BY <1>1, <1>7 DEF Trouble
  <2>3. Sound(w)'
    BY <1>1, <1>3, <1>5, <2>2 DEF Sound
  <2> QED
    BY <2>1, <2>3, TellsClaim
<1> QED
  BY <1>6, <1>7 DEF Clear

-----------------------------------------------------------------------------
(* The steps of the runs leave the claim sound.                            *)

LEMMA RunsClaim ==
    ASSUME ClaimInv, SchedInv', UNCHANGED <<wait, troubles>>,
           bead'[Issue].assignee = bead[Issue].assignee,
           bead'[Issue].status \in {bead[Issue].status, "closed"}
    PROVE  ClaimInv'
<1>1. Claims'
  BY DEF ClaimInv, Claims
<1>2. ASSUME NEW v \in Waiters PROVE Sound(v)'
  BY DEF ClaimInv, Sound, ToClear
<1> QED
  BY <1>1, <1>2 DEF ClaimInv

\* Who claims is running, and so it is not the failed run that somebody knows of.
LEMMA ClaimIssueClaim ==
    ASSUME ClaimInv, NEW c \in Clients, ClaimIssue(c)
    PROVE  ClaimInv'
<1>1. SchedInv' /\ Waited /\ Blamed
  BY ClaimIssueInv, TypeParts DEF ClaimInv, SchedInv
<1>2. bead[Issue] \in Rows /\ bead \in [Beads -> Rows] /\ Issue \in Beads
  BY <1>1, IssueRow DEF Waited, Beads
<1>3. bead'[Issue].status = "in_progress" /\ bead'[Issue].assignee = c /\ UNCHANGED <<wait, troubles>>
  BY <1>2 DEF ClaimIssue, Rows
<1>4. Claims'
  BY <1>3 DEF Claims
<1>5. ASSUME NEW v \in Waiters PROVE Sound(v)'
  <2>1. wait[v].failed # Nobody => wait[v].failed # c
    BY <1>1 DEF Blamed, ClaimIssue, FlowAt
  <2> QED
    BY <1>3, <2>1 DEF Sound, ClaimInv
<1> QED
  BY <1>1, <1>4, <1>5 DEF ClaimInv

LEMMA FlowsClaim ==
    ASSUME ClaimInv, NEW c \in Clients, Flows(c)
    PROVE  ClaimInv'
<1>0. SchedInv /\ bead[Issue] \in Rows /\ bead \in [Beads -> Rows] /\ Issue \in Beads
  BY TypeParts, IssueRow DEF ClaimInv, SchedInv, Waited, Beads
<1>1. CASE ClaimIssue(c)
  BY <1>1, ClaimIssueClaim
<1>2. CASE Finishes(c)
  <2>1. SchedInv'
    BY <1>0, <1>2, FinishesInv
  <2>2. PICK good :
          bead' = [bead EXCEPT ![Issue].status = "closed",
                               ![Issue].good = IF bead[Issue].status = "closed" THEN @ ELSE good]
    BY <1>2 DEF Finishes
  <2>3. bead'[Issue].assignee = bead[Issue].assignee /\ bead'[Issue].status = "closed"
    BY <1>0, <2>2 DEF Rows
  <2> QED
    BY <1>2, <2>1, <2>3, RunsClaim DEF Finishes
<1>3. CASE BecomesDue(c)
  BY <1>0, <1>3, BecomesDueInv, RunsClaim DEF BecomesDue
<1>4. CASE Claimed(c)
  BY <1>0, <1>4, ClaimedInv, RunsClaim DEF Claimed, WaitSame
<1>5. CASE Crashes(c)
  BY <1>0, <1>5, CrashesInv, RunsClaim DEF Crashes
<1>6. CASE RateLimited(c)
  BY <1>0, <1>6, RateLimitedInv, RunsClaim DEF RateLimited
<1>7. CASE LimitedFails(c)
  BY <1>0, <1>7, LimitedFailsInv, RunsClaim DEF LimitedFails, WaitSame
<1> QED
  BY <1>1, <1>2, <1>3, <1>4, <1>5, <1>6, <1>7 DEF Flows

LEMMA SubmissionClaim ==
    ASSUME ClaimInv, NEW c \in Clients, Submission(c)
    PROVE  ClaimInv'
<1>1. CASE Filed(c)
  BY <1>1, FiledInv, RunsClaim DEF ClaimInv, Filed
<1>2. CASE ~Filed(c)
  BY <1>2, EarlyInv, RunsClaim DEF ClaimInv, Submission, WaitSame
<1> QED
  BY <1>1, <1>2

LEMMA ClosedByHandClaim ==
    ASSUME ClaimInv, NEW b \in Others, ClosedByHand(b)
    PROVE  ClaimInv'
<1>1. SchedInv' /\ bead \in [Beads -> Rows]
  BY ClosedByHandInv, TypeParts DEF ClaimInv, SchedInv, Waited
<1>2. bead'[Issue] = bead[Issue]
  BY <1>1, WaitingAssumption DEF ClosedByHand, Beads
<1> QED
  BY <1>1, <1>2, RunsClaim DEF ClosedByHand

-----------------------------------------------------------------------------
(* The specification.                                                      *)

LEMMA InitClaim == SchedInit => ClaimInv
<1> SUFFICES ASSUME SchedInit PROVE ClaimInv
  OBVIOUS
<1>1. \A c \in Clients : sub[c] = NoSub
  BY DEF SchedInit, SubInit
<1>2. NoSub.run = "none" /\ NoSub.at = "idle"
  BY DEF NoSub
<1>3. SubTypeOK
  <2>1. PoolTypeOK
    BY DEF SchedInit, SubInit, PoolInit, PoolTypeOK
  <2>2. sub \in [Clients -> Subs]
    BY NoSubOK DEF SchedInit, SubInit
  <2>3. catalog \in [Deployments -> [declared : BOOLEAN, flow : BOOLEAN]]
    BY DEF SchedInit
  <2> QED
    BY <2>1, <2>2, <2>3, SubmissionAssumption DEF SchedInit, SubInit, SubTypeOK
<1>4. Submitted = {}
  BY <1>1, <1>2 DEF Submitted
<1>5. NoRow \in Rows /\ NoRow.assignee = Nobody
  BY DEF NoRow, Rows
<1>6. PICK call \in [Waiters -> Calls] :
          wait = [w \in Waiters |->
              [call |-> call[w], at |-> "show", todo |-> call[w].ids,
               closed |-> [b \in Beads |-> "no"],
               failed |-> Nobody, row |-> NoRow, exit |-> "none"]]
  BY DEF SchedInit
<1>7. \A w \in Waiters : wait[w].at = "show" /\ wait[w].failed = Nobody
  BY <1>6
<1>8. wait \in [Waiters -> Waits]
  <2>1. \A w \in Waiters : call[w] \in Calls /\ call[w].ids \in SUBSET Beads
    BY <1>6, WaitingAssumption DEF Beads
  <2> QED
    BY <1>5, <1>6, <2>1 DEF Waits, WaitPCs
<1>9. Waited /\ Timed
  BY <1>5, <1>8, WaitingAssumption DEF SchedInit, Waited, Timed, Never
<1>10. Filings /\ Blamed
  BY <1>1, <1>2, <1>4, <1>7 DEF Filings, Blamed, SchedInit
<1>11. Addressed
  BY <1>1, <1>2 DEF Addressed, SchedInit
<1>12. SchedInv
  BY <1>3, <1>9, <1>10, <1>11, TypeParts DEF SchedInv
<1>13. bead[Issue].assignee = Nobody
  BY <1>5 DEF SchedInit, Beads
<1>14. Claims /\ \A w \in Waiters : Sound(w)
  BY <1>7, <1>13 DEF Claims, Sound
<1> QED
  BY <1>12, <1>14 DEF ClaimInv

LEMMA NextClaim == ClaimInv /\ [SchedNext]_schedVars => ClaimInv'
<1> SUFFICES ASSUME ClaimInv, [SchedNext]_schedVars PROVE ClaimInv'
  OBVIOUS
<1>1. CASE \E c \in Clients : (\E dep \in Deployments : RunAt(c, dep)) \/ Submission(c) \/ Flows(c)
  <2>1. PICK c \in Clients : (\E dep \in Deployments : RunAt(c, dep)) \/ Submission(c) \/ Flows(c)
    BY <1>1
  <2>2. CASE \E dep \in Deployments : RunAt(c, dep)
    BY <2>2, RunAtInv, RunsClaim DEF ClaimInv, RunAt, WaitSame
  <2> QED
    BY <2>1, <2>2, SubmissionClaim, FlowsClaim
<1>2. CASE \E b \in Others : ClosedByHand(b)
  BY <1>2, ClosedByHandClaim
<1>3. CASE Workers
  BY <1>3, WorkersInv, RunsClaim DEF ClaimInv, Workers, WaitSame
<1>4. CASE \E w \in Waiters : WaitStep(w) \/ TimesOut(w)
  BY <1>4, ShowClaim, LookClaim, ShownClaim, RereadClaim, NoteClaim, ClearClaim, RoundClaim
  DEF WaitStep
<1>5. CASE UNCHANGED schedVars
  <2>1. UNCHANGED <<subVars, bead, expected, due, heir, wait, troubles, crashes>>
    BY <1>5 DEF schedVars
  <2>2. SchedInv'
    BY <2>1, BeadStep, TypeParts, WaitKeeps DEF ClaimInv, SchedInv
  <2> QED
    BY <2>1, <2>2, RunsClaim
<1> QED
  BY <1>1, <1>2, <1>3, <1>4, <1>5 DEF SchedNext

\* The inductive invariant of the waiting processes: what each of them believes at its
\* place in `po wait` (cli.py, wait.py), and which runs can have claimed the bead.
THEOREM ClaimInvariant == SchedSpec => []ClaimInv
BY InitClaim, NextClaim, PTL DEF SchedSpec

\* The state of the submissions (scheduling.py), of the runs and of the processes that
\* wait (wait.py, cli.py) is well typed: a run is filed by a submission that is done and
\* has a start time, only runs that are due have been claimed, and a run that a waiting
\* process holds to have failed has.
THEOREM SchedTyping == SchedSpec => []SchedTypeOK
<1>1. ClaimInv => SchedTypeOK
  BY DEF ClaimInv, SchedInv
<1> QED
  BY <1>1, ClaimInvariant, PTL

\* ClaimReleased: who leaves `po wait` because of a failed run (reconcile_failed_claim)
\* leaves no claim of that run on the bead, for any number of runs and waiting
\* processes, unless a bd call failed.
THEOREM NoClaimLeft == SchedSpec => []ClaimReleased
<1>1. ClaimInv => ClaimReleased
  BY DEF ClaimInv, ClaimReleased, Sound
<1> QED
  BY <1>1, ClaimInvariant, PTL

================================================================================
