--------------------------- MODULE GoalLoopProofs ---------------------------
(***************************************************************************)
(* Theorems about AgentStep for every set of steps, every number of        *)
(* iterations, slots and calls, and every setting of the fault switches;   *)
(* and that goal_loop implements GoalContract for any number of            *)
(* iterations, runs and slots, on both backends, whatever agents answer,   *)
(* turns raise and processes die: each step of the code is a step of the   *)
(* contract or none. The theorems about AgentStep cite no assumption of    *)
(* GoalLoop, which only the part about the loop does.                      *)
(***************************************************************************)
EXTENDS GoalLoop, WellFoundedInduction, TLAPS

-----------------------------------------------------------------------------
(* Lemmas about the operators.                                             *)

\* A set of naturals that is not empty has a least element.
LEMMA Least ==
    ASSUME NEW S, S \subseteq Nat, S # {}
    PROVE  \E n \in S : \A m \in S : n <= m
<1>1. PICK n \in S : \A m \in S : ~ (<<m, n>> \in OpToRel(<, Nat))
  BY NatLessThanWellFounded, WFMin
<1>2. \A m \in S : ~ (m < n)
  BY <1>1 DEF OpToRel
<1> QED
  BY <1>2

\* A verdict is a keyword of the step or one of the two inferred ones.
LEMMA VerdictType ==
    ASSUME NEW step \in Steps, NEW reason
    PROVE  Verdict(step, reason) \in Verdicts
<1> DEFINE words == Keywords[step]
           hits == {n \in DOMAIN words : words[n] \in reason.says}
           first == CHOOSE n \in hits : \A m \in hits : n <= m
<1>1. words \in Seq(STRING)
  BY KeywordsAssumption
<1>2. hits \subseteq Nat /\ \A n \in hits : words[n] \in Verdicts
  <2>1. hits \subseteq Nat
    BY <1>1
  <2>2. ASSUME NEW n \in hits PROVE words[n] \in Verdicts
    <3>1. words[n] \in {Keywords[step][m] : m \in DOMAIN Keywords[step]}
      OBVIOUS
    <3> QED
      BY <3>1 DEF Verdicts
  <2> QED
    BY <2>1, <2>2
<1>3. Verdict(step, reason) =
        IF hits # {} THEN words[first]
        ELSE IF reason # Silent THEN "complete" ELSE ""
  BY DEF Verdict
<1> HIDE DEF hits, words
<1>4. ASSUME hits # {} PROVE first \in hits
  <2>1. \E n \in hits : \A m \in hits : n <= m
    BY <1>2, <1>4, Least
  <2> QED
    BY <2>1
<1> HIDE DEF first
<1>5. hits # {} => words[first] \in Verdicts
  BY <1>2, <1>4
<1>6. "complete" \in Verdicts /\ "" \in Verdicts
  BY DEF Verdicts
<1> QED
  BY <1>3, <1>5, <1>6

\* The ids: minted ones are no convention ids, and "none" is neither.
LEMMA Ids == /\ NoBead \notin Beads
             /\ Keys \cap Minted = {}
             /\ \A k \in Keys : k[1] \in Steps
  BY StepsAssumption, BoundsAssumption DEF NoBead, Beads, Keys, Minted

\* The rotation goes round the slots.
LEMMA Rotation ==
    ASSUME NEW s \in Slots
    PROVE  /\ (s + 1) % Pool = IF s + 1 = Pool THEN 0 ELSE s + 1
           /\ (s + 1) % Pool \in Slots
<1>1. Pool \in Nat /\ Pool > 0 /\ s \in Nat /\ s < Pool
  BY BoundsAssumption DEF Slots
<1>2. CASE s + 1 = Pool
  BY <1>1, <1>2 DEF Slots
<1>3. CASE s + 1 < Pool
  <2>1. (s + 1) % Pool = s + 1
    BY <1>1, <1>3
  <2> QED
    BY <1>1, <1>3, <2>1 DEF Slots
<1> QED
  BY <1>1, <1>2, <1>3

\* What a role-step is looked up under is a bead.
LEMMA TargetType ==
    ASSUME recorded \in [Keys -> Minted \cup {NoBead}], NEW k \in Keys
    PROVE  Target(k) \in Beads
  BY DEF Target, Beads

-----------------------------------------------------------------------------
(* Type correctness.                                                       *)

LEMMA IdleType == Idle \in CallType
<1>1. Pool \in Nat /\ Pool > 0
  BY BoundsAssumption
<1> QED
  BY <1>1 DEF Idle, CallType, Reasons, Pcs, Asks, Sessions, Slots

\* Returning and raising leave an idle call and a well-formed result.
LEMMA EndType ==
    ASSUME TypeOK, call.key \in Keys, NEW v \in Verdicts,
           \/ \E by \in Endings : Return(v, by)
           \/ \E why \in Raises : Raise(why)
    PROVE  /\ call' = Idle /\ call' \in CallType
           /\ result' \in [key : Keys \cup {NoBead}, verdict : Verdicts,
                           by : {"none"} \cup Endings \cup Raises]
           /\ answers' \in [Keys -> SUBSET Verdicts]
<1>1. "" \in Verdicts
  BY DEF Verdicts
<1>2. answers \in [Keys -> SUBSET Verdicts]
  BY DEF TypeOK
<1>3. ASSUME NEW by \in Endings, Return(v, by)
      PROVE  /\ call' = Idle
             /\ result' = [key |-> call.key, verdict |-> v, by |-> by]
             /\ answers' \in [Keys -> SUBSET Verdicts]
  BY <1>2, <1>3 DEF Return
<1>4. ASSUME NEW why \in Raises, Raise(why)
      PROVE  /\ call' = Idle
             /\ result' = [key |-> call.key, verdict |-> "", by |-> why]
             /\ answers' \in [Keys -> SUBSET Verdicts]
  BY <1>2, <1>4 DEF Raise
<1>5. CASE \E by \in Endings : Return(v, by)
  <2>1. PICK by \in Endings : Return(v, by)
    BY <1>5
  <2>2. /\ call' = Idle /\ answers' \in [Keys -> SUBSET Verdicts]
        /\ result' = [key |-> call.key, verdict |-> v, by |-> by]
    BY <1>3, <2>1
  <2> QED
    BY <2>2, IdleType
<1>6. CASE \E why \in Raises : Raise(why)
  <2>1. PICK why \in Raises : Raise(why)
    BY <1>6
  <2>2. /\ call' = Idle /\ answers' \in [Keys -> SUBSET Verdicts]
        /\ result' = [key |-> call.key, verdict |-> "", by |-> why]
    BY <1>4, <2>1
  <2> QED
    BY <1>1, <2>2, IdleType
<1> QED
  BY <1>5, <1>6

\* The session object and the budget of a turn.
LEMMA AskType ==
    ASSUME NEW c \in CallType, NEW ask \in Asks
    PROVE  /\ Asking(c, ask) \in CallType
           /\ Asking(c, ask).key = c.key /\ Asking(c, ask).bead = c.bead
           /\ Asking(c, ask).pc = "turn" /\ Asking(c, ask).ask = ask
           /\ Asking(c, ask).left = Pool - 1 /\ Asking(c, ask).tried = {}
           /\ Asking(c, ask).seen = c.seen /\ Asking(c, ask).blind = c.blind
<1>1. Pool \in Nat /\ Pool > 0
  BY BoundsAssumption
<1>2. Pool - 1 \in Slots
  BY <1>1 DEF Slots
<1> QED
  BY <1>2 DEF Asking, CallType, Pcs

LEMMA InitType == Init => TypeOK
<1> SUFFICES ASSUME Init PROVE TypeOK
  OBVIOUS
<1>1. Pool \in Nat /\ Pool > 0 /\ MaxCalls \in Nat
  BY BoundsAssumption
<1>2. "" \in Verdicts
  BY DEF Verdicts
<1>3. bead \in [Beads -> [status : {"missing", "open", "closed"}, reason : Reasons]]
  BY DEF Init, Reasons
<1>4. result \in [key : Keys \cup {NoBead}, verdict : Verdicts,
                 by : {"none"} \cup Endings \cup Raises]
  BY <1>2 DEF Init
<1>5. call \in CallType /\ call.pc = "idle"
  BY IdleType DEF Init, Idle
<1>6. slot \in Slots /\ calls \in 0..MaxCalls
  <2>1. slot = 0 /\ calls = 0
    BY DEF Init
  <2> QED
    BY <1>1, <2>1 DEF Slots
<1>7. store \in [Steps -> Sessions] /\ last \in [Steps -> Sessions]
  <2>1. 0 \in Sessions
    BY DEF Sessions
  <2> QED
    BY <2>1 DEF Init
<1>8. /\ backend \in Backends /\ artifact \subseteq Keys /\ orphans \subseteq Keys \X Beads
      /\ recorded \in [Keys -> Minted \cup {NoBead}] /\ answers \in [Keys -> SUBSET Verdicts]
  BY DEF Init
<1> QED
  BY <1>3, <1>4, <1>5, <1>6, <1>7, <1>8 DEF TypeOK


\* An action that only moves the call along keeps the types.
LEMMA CallType_Step ==
    ASSUME TypeOK, call' \in CallType,
           call'.pc # "idle" => call'.key \in Keys /\ call'.bead \in Beads,
           call'.pc # "record",
           UNCHANGED <<backend, bead, recorded, artifact, store, last, slot,
                       orphans, calls, result, answers>>
    PROVE  TypeOK'
BY DEF TypeOK

\* The fields of a call that an update leaves alone.
LEMMA CallFields ==
    ASSUME NEW c \in CallType
    PROVE  /\ c.pc \in Pcs /\ c.key \in Keys \cup {NoBead} /\ c.ask \in Asks
           /\ c.bead \in Beads \cup {NoBead} /\ c.sid \in Sessions
           /\ c.outer \in Sessions /\ c.left \in Slots /\ c.tried \in SUBSET Slots
           /\ c.seen \in Reasons /\ c.blind \in BOOLEAN
BY DEF CallType

\* A call that moves to another place of the code.
LEMMA Moves ==
    ASSUME NEW c \in CallType, NEW p \in Pcs
    PROVE  /\ [c EXCEPT !.pc = p] \in CallType
           /\ [c EXCEPT !.pc = p].pc = p
           /\ [c EXCEPT !.pc = p].key = c.key /\ [c EXCEPT !.pc = p].bead = c.bead
           /\ [c EXCEPT !.pc = p].ask = c.ask /\ [c EXCEPT !.pc = p].blind = c.blind
           /\ [c EXCEPT !.pc = p].seen = c.seen
BY DEF CallType

LEMMA CallKeepsType ==
    ASSUME TypeOK, NEW k \in Keys, Call(k)
    PROVE  /\ TypeOK'
           /\ call'.pc = "probe" /\ call'.key = k /\ call'.bead = Target(k)
           /\ call'.blind = FALSE
<1>1. Target(k) \in Beads
  BY TargetType DEF TypeOK
<1>2. /\ call' \in CallType /\ call'.key = k /\ call'.bead = Target(k)
      /\ call'.pc = "probe" /\ call'.blind = FALSE
  BY <1>1, IdleType DEF Call, Idle, CallType, Pcs
<1>3. calls' \in 0..MaxCalls
  BY BoundsAssumption DEF Call, TypeOK
<1> QED
  BY <1>1, <1>2, <1>3 DEF Call, TypeOK

LEMMA ProbeKeepsType ==
    ASSUME TypeOK, Probe PROVE TypeOK'
<1>1. PICK st \in Probes(call.bead) :
          \/ /\ st = "closed"
             /\ Return(Verdict(call.key[1], bead[call.bead].reason), "cache")
          \/ /\ st = "open"
             /\ call' = [call EXCEPT !.pc = "describe"]
             /\ UNCHANGED <<result, answers>>
          \/ /\ st = "missing"
             /\ call' = [call EXCEPT !.pc = "create",
                                     !.blind = bead[call.bead].status # "missing"]
             /\ UNCHANGED <<result, answers>>
  BY DEF Probe
<1>2. /\ call \in CallType /\ call.key \in Keys /\ call.bead \in Beads
      /\ UNCHANGED <<backend, bead, recorded, artifact, store, last, slot, orphans, calls>>
  BY DEF Probe, TypeOK
<1>3. CASE Return(Verdict(call.key[1], bead[call.bead].reason), "cache")
  <2>1. Verdict(call.key[1], bead[call.bead].reason) \in Verdicts
    BY <1>2, Ids, VerdictType
  <2>2. "cache" \in Endings
    BY DEF Endings, Closers
  <2>3. /\ call' = Idle /\ call' \in CallType
        /\ result' \in [key : Keys \cup {NoBead}, verdict : Verdicts,
                        by : {"none"} \cup Endings \cup Raises]
        /\ answers' \in [Keys -> SUBSET Verdicts]
    BY <1>2, <1>3, <2>1, <2>2, EndType
  <2>4. call'.pc = "idle"
    BY <2>3 DEF Idle
  <2> QED
    BY <1>2, <2>3, <2>4 DEF TypeOK
<1>4. CASE call' = [call EXCEPT !.pc = "describe"] /\ UNCHANGED <<result, answers>>
  BY <1>2, <1>4, CallType_Step, Moves DEF Pcs
<1>5. CASE /\ call' = [call EXCEPT !.pc = "create",
                                   !.blind = bead[call.bead].status # "missing"]
           /\ UNCHANGED <<result, answers>>
  <2>1. /\ call' \in CallType /\ call'.key = call.key /\ call'.bead = call.bead
        /\ call'.pc = "create"
    BY <1>2, <1>5 DEF CallType, Pcs
  <2> QED
    BY <1>2, <1>5, <2>1, CallType_Step
<1> QED
  BY <1>1, <1>3, <1>4, <1>5

LEMMA CreateKeepsType ==
    ASSUME TypeOK, CreateOnDolt \/ CreateOnBr PROVE TypeOK'
<1>0. call \in CallType /\ call.key \in Keys /\ call.bead \in Beads
  BY DEF TypeOK, CreateOnDolt, CreateOnBr
<1>1. CASE CreateOnDolt
  <2>1. NoReason \in Reasons
    BY DEF Reasons
  <2>2. bead' \in [Beads -> [status : {"missing", "open", "closed"}, reason : Reasons]]
    <3>1. CASE bead' = bead
      BY <3>1 DEF TypeOK
    <3>2. CASE bead' = [bead EXCEPT ![call.bead] = [status |-> "open", reason |-> NoReason]]
      BY <2>1, <3>2 DEF TypeOK
    <3> QED
      BY <1>1, <3>1, <3>2 DEF CreateOnDolt
  <2>3. call' \in CallType /\ call'.key = call.key /\ call'.bead = call.bead
    BY <1>0, <1>1, Moves DEF CreateOnDolt, Pcs
  <2>4. call'.pc = "describe"
    BY <1>0, <1>1, Moves DEF CreateOnDolt, Pcs
  <2> QED
    BY <1>0, <1>1, <2>2, <2>3, <2>4 DEF CreateOnDolt, TypeOK
<1>2. CASE CreateOnBr
  <2>1. PICK b \in Minted : /\ bead' = [bead EXCEPT ![b].status = "open"]
                            /\ call' = [call EXCEPT !.pc = "record", !.bead = b]
    BY <1>2 DEF CreateOnBr
  <2>2. b \in Beads
    BY DEF Beads
  <2>3. bead' \in [Beads -> [status : {"missing", "open", "closed"}, reason : Reasons]]
    BY <2>1, <2>2 DEF TypeOK
  <2>4. call' \in CallType /\ call'.key = call.key /\ call'.bead = b
    BY <1>0, <2>1, <2>2 DEF CallType, Pcs
  <2> QED
    BY <1>0, <1>2, <2>2, <2>3, <2>4 DEF CreateOnBr, TypeOK
<1> QED
  BY <1>1, <1>2

LEMMA RecordKeepsType ==
    ASSUME TypeOK, Record \/ RecordTorn PROVE TypeOK'
<1>0. call \in CallType /\ call.key \in Keys /\ call.bead \in Beads
  BY DEF TypeOK, Record, RecordTorn
<1>1. CASE Record
  <2>1. /\ call' \in CallType /\ call'.key = call.key /\ call'.bead = call.bead
        /\ call'.pc = "describe"
    BY <1>0, <1>1, Moves DEF Record, Pcs
  <2>2. call.bead \in Minted
    BY <1>1 DEF Record, TypeOK
  <2>3. recorded' \in [Keys -> Minted \cup {NoBead}]
    BY <1>1, <2>2 DEF Record, TypeOK
  <2> QED
    BY <1>0, <1>1, <2>1, <2>3 DEF Record, TypeOK
<1>2. CASE RecordTorn
  <2>1. call' \in CallType /\ call'.pc = "idle"
    BY <1>2, IdleType DEF RecordTorn, Idle
  <2>2. recorded' \in [Keys -> Minted \cup {NoBead}]
    BY <1>2 DEF RecordTorn
  <2>3. result' \in [key : Keys \cup {NoBead}, verdict : Verdicts,
                     by : {"none"} \cup Endings \cup Raises]
    <3>1. "" \in Verdicts /\ "error" \in Raises
      BY DEF Verdicts, Raises
    <3> QED
      BY <1>0, <1>2, <3>1 DEF RecordTorn
  <2> QED
    BY <1>2, <2>1, <2>2, <2>3 DEF RecordTorn, TypeOK
<1> QED
  BY <1>1, <1>2

LEMMA DescribeKeepsType ==
    ASSUME TypeOK, Describe PROVE TypeOK'
<1> DEFINE c == [call EXCEPT !.outer = store[call.key[1]]]
<1>1. call \in CallType /\ call.key \in Keys /\ call.bead \in Beads
  BY DEF TypeOK, Describe
<1>2. store[call.key[1]] \in Sessions
  BY <1>1, Ids DEF TypeOK
<1>3. c \in CallType /\ c.key = call.key /\ c.bead = call.bead
  BY <1>1, <1>2 DEF CallType
<1>4. call' = Asking(c, "work") /\ "work" \in Asks
  BY DEF Describe, Asks
<1> HIDE DEF c
<1>5. /\ call' \in CallType /\ call'.key = c.key /\ call'.bead = c.bead
      /\ call'.pc = "turn"
  BY <1>3, <1>4, AskType
<1> QED
  BY <1>1, <1>3, <1>5, CallType_Step DEF Describe

LEMMA ShellFailsKeepsType ==
    ASSUME TypeOK, ShellFails PROVE TypeOK'
<1>1. call \in CallType /\ call.key \in Keys /\ call.bead \in Beads
  BY DEF TypeOK, ShellFails
<1>2. "" \in Verdicts /\ "error" \in Raises
  BY DEF Verdicts, Raises
<1>3. /\ call' = Idle /\ call' \in CallType
      /\ result' \in [key : Keys \cup {NoBead}, verdict : Verdicts,
                      by : {"none"} \cup Endings \cup Raises]
      /\ answers' \in [Keys -> SUBSET Verdicts]
  BY <1>1, <1>2, EndType DEF ShellFails
<1> QED
  BY <1>3 DEF ShellFails, TypeOK, Idle

\* What an agent closes a bead with is a reason.
LEMMA AgentsKeepType ==
    ASSUME TypeOK, Agents PROVE TypeOK'
<1>0. \A s \in Steps : \A r \in CloseReasons[s] : r \in Reasons
  BY DEF Reasons
<1>1. CASE AgentCloses
  <2>1. call \in CallType /\ call.key \in Keys /\ call.bead \in Beads
    BY <1>1 DEF TypeOK, AgentCloses
  <2>2. PICK r \in CloseReasons[call.key[1]] :
            bead' = [bead EXCEPT ![call.bead] = [status |-> "closed", reason |-> r]]
    BY <1>1 DEF AgentCloses
  <2>3. r \in Reasons
    BY <1>0, <2>1, Ids
  <2>4. bead' \in [Beads -> [status : {"missing", "open", "closed"}, reason : Reasons]]
    BY <2>2, <2>3 DEF TypeOK
  <2> QED
    BY <1>1, <2>4 DEF AgentCloses, TypeOK
<1>2. CASE AgentWritesArtifact
  BY <1>2 DEF AgentWritesArtifact, TypeOK
<1>3. CASE OrphanCloses
  <2>1. PICK o \in orphans : \E r \in CloseReasons[o[1][1]] :
            bead' = [bead EXCEPT ![o[2]] = [status |-> "closed", reason |-> r]]
    BY <1>3 DEF OrphanCloses
  <2>2. PICK r \in CloseReasons[o[1][1]] :
            bead' = [bead EXCEPT ![o[2]] = [status |-> "closed", reason |-> r]]
    BY <2>1
  <2>3. o[1] \in Keys /\ o[2] \in Beads
    BY DEF TypeOK
  <2>4. r \in Reasons
    BY <1>0, <2>3, Ids
  <2>5. bead' \in [Beads -> [status : {"missing", "open", "closed"}, reason : Reasons]]
    BY <2>2, <2>4 DEF TypeOK
  <2> QED
    BY <1>3, <2>5 DEF OrphanCloses, TypeOK
<1> QED
  BY <1>1, <1>2, <1>3 DEF Agents

\* What the finally clause stores is a session.
LEMMA PersistedType ==
    ASSUME TypeOK, call.key \in Keys, NEW sid \in Sessions
    PROVE  Persisted(sid) \in Sessions
BY Ids DEF Persisted, TypeOK

LEMMA TurnEndsKeepsType ==
    ASSUME TypeOK, TurnEnds PROVE TypeOK'
<1> DEFINE s == call.key[1]
<1>1. /\ call \in CallType /\ call.key \in Keys /\ call.bead \in Beads /\ s \in Steps
      /\ 0 \in Sessions /\ 0 \in Slots
  BY Ids, BoundsAssumption DEF TypeOK, TurnEnds, Sessions, Slots
<1>2. PICK new \in Sessions :
          /\ LET outer == IF call.ask # "artifact" \/ call.tried = {}
                          THEN new ELSE call.outer
             IN  /\ store' = [store EXCEPT ![s] = Persisted(outer)]
                 /\ call' = [call EXCEPT !.pc = AfterTurn, !.outer = outer,
                                         !.sid = 0, !.tried = {}, !.left = 0]
          /\ last' = [last EXCEPT ![s] = new]
  BY DEF TurnEnds
<1> DEFINE outer == IF call.ask # "artifact" \/ call.tried = {} THEN new ELSE call.outer
<1>3. outer \in Sessions
  BY <1>1, CallFields
<1>4. Persisted(outer) \in Sessions
  BY <1>1, <1>3, PersistedType
<1>5. call' = [call EXCEPT !.pc = AfterTurn, !.outer = outer, !.sid = 0,
                           !.tried = {}, !.left = 0]
  BY <1>2
<1>6. store' = [store EXCEPT ![s] = Persisted(outer)] /\ last' = [last EXCEPT ![s] = new]
  BY <1>2
<1> HIDE DEF outer
<1>7. AfterTurn \in {"artifacts", "check"}
  BY DEF AfterTurn
<1>8. /\ call' \in CallType /\ call'.key = call.key /\ call'.bead = call.bead
      /\ call'.pc # "record"
  BY <1>1, <1>3, <1>5, <1>7 DEF CallType, Pcs
<1>9. store' \in [Steps -> Sessions] /\ last' \in [Steps -> Sessions]
  BY <1>4, <1>6 DEF TypeOK
<1> QED
  BY <1>1, <1>8, <1>9 DEF TurnEnds, TypeOK

LEMMA FailsOverKeepsType ==
    ASSUME TypeOK, FailsOver PROVE TypeOK'
<1>1. /\ call \in CallType /\ call.key \in Keys /\ call.bead \in Beads
      /\ call.key[1] \in Steps /\ slot \in Slots
  BY Ids DEF TypeOK, FailsOver
<1>2. Persisted(call.sid) \in Sessions
  BY <1>1, CallFields, PersistedType
<1>3. slot' \in Slots
  BY <1>1, Rotation DEF FailsOver
<1>4. call.left - 1 \in Slots
  BY <1>1, CallFields, BoundsAssumption DEF FailsOver, Slots
<1>5. /\ call' \in CallType /\ call'.key = call.key /\ call'.bead = call.bead
      /\ call'.pc = "turn"
  BY <1>1, <1>2, <1>4 DEF FailsOver, CallType
<1>6. store' \in [Steps -> Sessions]
  BY <1>2 DEF FailsOver, TypeOK
<1> QED
  BY <1>1, <1>3, <1>5, <1>6 DEF FailsOver, TypeOK

LEMMA TurnRaisesKeepsType ==
    ASSUME TypeOK, TurnRaises PROVE TypeOK'
<1>1. /\ call \in CallType /\ call.key \in Keys /\ call.bead \in Beads
      /\ 0 \in Sessions /\ 0 \in Slots
  BY BoundsAssumption DEF TypeOK, TurnRaises, Sessions, Slots
<1>2. Persisted(call.outer) \in Sessions
  BY <1>1, CallFields, PersistedType
<1>3. store' \in [Steps -> Sessions]
  BY <1>2 DEF TurnRaises, TypeOK
<1>4. CASE \E why \in Raises : Raise(why)
  <2>1. "" \in Verdicts
    BY DEF Verdicts
  <2>2. /\ call' = Idle /\ call' \in CallType
        /\ result' \in [key : Keys \cup {NoBead}, verdict : Verdicts,
                        by : {"none"} \cup Endings \cup Raises]
        /\ answers' \in [Keys -> SUBSET Verdicts]
    BY <1>1, <1>4, <2>1, EndType
  <2>3. call'.pc = "idle"
    BY <2>2 DEF Idle
  <2> QED
    BY <1>3, <2>2, <2>3 DEF TurnRaises, TypeOK
<1>5. CASE /\ call' = [call EXCEPT !.pc = AfterTurn, !.sid = 0, !.tried = {}, !.left = 0]
           /\ UNCHANGED <<result, answers>>
  <2>1. AfterTurn \in {"artifacts", "check"}
    BY DEF AfterTurn
  <2>2. /\ call' \in CallType /\ call'.key = call.key /\ call'.bead = call.bead
        /\ call'.pc # "record"
    BY <1>1, <1>5, <2>1 DEF CallType, Pcs
  <2> QED
    BY <1>1, <1>3, <1>5, <2>2 DEF TurnRaises, TypeOK
<1> QED
  BY <1>4, <1>5 DEF TurnRaises

\* Returning keeps the types, if nothing else of the state is ill typed.
LEMMA ReturnKeepsType ==
    ASSUME TypeOK, call.key \in Keys, NEW v \in Verdicts, NEW by \in Endings,
           Return(v, by),
           bead' \in [Beads -> [status : {"missing", "open", "closed"}, reason : Reasons]],
           UNCHANGED <<backend, recorded, artifact, store, last, slot, orphans, calls>>
    PROVE  TypeOK'
<1>1. /\ call' = Idle /\ call' \in CallType
      /\ result' \in [key : Keys \cup {NoBead}, verdict : Verdicts,
                      by : {"none"} \cup Endings \cup Raises]
      /\ answers' \in [Keys -> SUBSET Verdicts]
  BY EndType
<1>2. call'.pc = "idle"
  BY <1>1 DEF Idle
<1> QED
  BY <1>1, <1>2 DEF TypeOK

LEMMA CheckKeepsType ==
    ASSUME TypeOK, Check PROVE TypeOK'
<1>1. /\ call \in CallType /\ call.key \in Keys /\ call.bead \in Beads
      /\ call.key[1] \in Steps
      /\ UNCHANGED <<backend, bead, recorded, artifact, store, last, slot, orphans, calls>>
  BY Ids DEF TypeOK, Check
<1> DEFINE reason == bead[call.bead].reason
           seen == [call EXCEPT !.seen = reason]
<1>2. reason \in Reasons
  BY <1>1 DEF TypeOK
<1>3. CASE \E by \in {"agent", "nudge"} : Return(Verdict(call.key[1], reason), by)
  <2>1. Verdict(call.key[1], reason) \in Verdicts
    BY <1>1, VerdictType
  <2>2. {"agent", "nudge"} \subseteq Endings
    BY DEF Endings, Closers
  <2> QED
    BY <1>1, <1>3, <2>1, <2>2, ReturnKeepsType DEF TypeOK
<1>4. CASE call' = Asking(seen, "artifact") /\ UNCHANGED <<result, answers>>
  <2>1. seen \in CallType /\ seen.key = call.key /\ seen.bead = call.bead
    BY <1>1, <1>2 DEF CallType
  <2>2. "artifact" \in Asks
    BY DEF Asks
  <2> HIDE DEF seen
  <2>3. /\ call' \in CallType /\ call'.key = call.key /\ call'.bead = call.bead
        /\ call'.pc = "turn"
    BY <1>4, <2>1, <2>2, AskType
  <2> QED
    BY <1>1, <1>4, <2>3, CallType_Step
<1>5. CASE call' = Asking(call, "nudge") /\ UNCHANGED <<result, answers>>
  <2>1. /\ call' \in CallType /\ call'.key = call.key /\ call'.bead = call.bead
        /\ call'.pc = "turn"
    BY <1>1, <1>5, AskType DEF Asks
  <2> QED
    BY <1>1, <1>5, <2>1, CallType_Step
<1>6. CASE call' = [call EXCEPT !.pc = "force"] /\ UNCHANGED <<result, answers>>
  BY <1>1, <1>6, Moves, CallType_Step DEF Pcs
<1> QED
  BY <1>3, <1>4, <1>5, <1>6 DEF Check, CloseSeen

LEMMA CheckArtifactsKeepsType ==
    ASSUME TypeOK, CheckArtifacts PROVE TypeOK'
<1>1. /\ call \in CallType /\ call.key \in Keys /\ call.key[1] \in Steps
      /\ UNCHANGED <<backend, bead, recorded, artifact, store, last, slot, orphans, calls>>
  BY Ids DEF TypeOK, CheckArtifacts
<1>2. Verdict(call.key[1], call.seen) \in Verdicts /\ "failed" \in Verdicts
  BY <1>1, VerdictType DEF Verdicts
<1>3. {"artifact-nudge", "artifact-nudge-failed"} \subseteq Endings
  BY DEF Endings, Closers
<1> QED
  BY <1>1, <1>2, <1>3, ReturnKeepsType DEF CheckArtifacts, TypeOK

LEMMA ForceCloseKeepsType ==
    ASSUME TypeOK, ForceClose PROVE TypeOK'
<1>1. call.key \in Keys /\ "failed" \in Verdicts /\ "force" \in Endings
  BY DEF TypeOK, ForceClose, Verdicts, Endings
<1>2. ForceReason \in Reasons
  BY DEF Reasons
<1>3. bead' \in [Beads -> [status : {"missing", "open", "closed"}, reason : Reasons]]
  BY <1>2 DEF ForceClose, TypeOK
<1> QED
  BY <1>1, <1>3, ReturnKeepsType DEF ForceClose

LEMMA CrashKeepsType ==
    ASSUME TypeOK, Crash PROVE TypeOK'
<1>1. call.key \in Keys /\ call.bead \in Beads
  BY DEF TypeOK, Crash
<1>2. orphans' \subseteq Keys \X Beads
  <2>1. orphans \subseteq Keys \X Beads
    BY DEF TypeOK
  <2>2. orphans' = orphans \/ orphans' = orphans \cup {<<call.key, call.bead>>}
    BY DEF Crash
  <2>3. <<call.key, call.bead>> \in Keys \X Beads
    BY <1>1
  <2> HIDE DEF Crash
  <2> QED
    BY <2>1, <2>2, <2>3
<1>3. call' \in CallType /\ call'.pc = "idle"
  BY IdleType DEF Crash, Idle
<1>4. result' \in [key : Keys \cup {NoBead}, verdict : Verdicts,
                   by : {"none"} \cup Endings \cup Raises]
  <2>1. "" \in Verdicts /\ "error" \in Raises
    BY DEF Verdicts, Raises
  <2> QED
    BY <1>1, <2>1 DEF Crash
<1> QED
  BY <1>2, <1>3, <1>4 DEF Crash, TypeOK

LEMMA NextType == TypeOK /\ [Next]_vars => TypeOK'
<1> SUFFICES ASSUME TypeOK, [Next]_vars PROVE TypeOK'
  OBVIOUS
<1>1. CASE \E k \in Keys : Call(k)
  BY <1>1, CallKeepsType
<1>2. CASE FlowStep
  BY <1>2, ProbeKeepsType, CreateKeepsType, RecordKeepsType, DescribeKeepsType,
     TurnEndsKeepsType, FailsOverKeepsType, TurnRaisesKeepsType, CheckKeepsType,
     CheckArtifactsKeepsType, ForceCloseKeepsType DEF FlowStep, Waiting
<1>3. CASE Agents
  BY <1>3, AgentsKeepType
<1>4. CASE Faults
  BY <1>4, RecordKeepsType, ShellFailsKeepsType, CrashKeepsType DEF Faults
<1>5. CASE UNCHANGED vars
  BY <1>5 DEF vars, TypeOK
<1> QED
  BY <1>1, <1>2, <1>3, <1>4, <1>5 DEF Next

\* Every reachable state is well typed: verdicts are keywords of their step or
\* inferred ones, the failover budget stays below the number of slots, and a
\* call in progress has a role-step and a bead.
THEOREM Typing == Spec => []TypeOK
<1>1. Init => TypeOK
  BY InitType
<1>2. TypeOK /\ [Next]_vars => TypeOK'
  BY NextType
<1> QED
  BY <1>1, <1>2, PTL DEF Spec

-----------------------------------------------------------------------------
(* What the longer actions do to the call.                                 *)

\* The call stays with its role-step and its bead.
SameTask == /\ call'.key = call.key /\ call'.bead = call.bead
            /\ call'.blind = call.blind

\* A turn is about to be taken with a full budget.
TurnOpens(ask) ==
    /\ SameTask /\ call'.pc = "turn" /\ call'.ask = ask
    /\ call'.left = Pool - 1 /\ call'.tried = {}

\* A probe returns the verdict of a closed bead, goes on with an open one or
\* creates a missing one; it misreads only if probes may fail.
LEMMA ProbeDoes ==
    ASSUME TypeOK, Probe
    PROVE  LET st == bead[call.bead].status
           IN  \/ /\ st = "closed"
                  /\ Return(Verdict(call.key[1], bead[call.bead].reason), "cache")
               \/ /\ st = "open" /\ SameTask /\ call'.pc = "describe"
                  /\ UNCHANGED <<result, answers>>
               \/ /\ call'.pc = "create" /\ call'.blind = (st # "missing")
                  /\ call'.key = call.key /\ call'.bead = call.bead
                  /\ st # "missing" => ProbeFaults
                  /\ UNCHANGED <<result, answers>>
<1>0. call \in CallType
  BY DEF TypeOK
<1>1. PICK st \in Probes(call.bead) :
          \/ /\ st = "closed"
             /\ Return(Verdict(call.key[1], bead[call.bead].reason), "cache")
          \/ /\ st = "open"
             /\ call' = [call EXCEPT !.pc = "describe"]
             /\ UNCHANGED <<result, answers>>
          \/ /\ st = "missing"
             /\ call' = [call EXCEPT !.pc = "create",
                                     !.blind = bead[call.bead].status # "missing"]
             /\ UNCHANGED <<result, answers>>
  BY DEF Probe
<1>2. st = bead[call.bead].status \/ (ProbeFaults /\ st = "missing")
  BY DEF Probes
<1>3. CASE st = "closed"
  BY <1>1, <1>2, <1>3
<1>4. CASE st = "open"
  <2>1. call' = [call EXCEPT !.pc = "describe"] /\ UNCHANGED <<result, answers>>
    BY <1>1, <1>4
  <2>2. SameTask /\ call'.pc = "describe"
    BY <1>0, <2>1 DEF CallType, SameTask
  <2> QED
    BY <1>2, <1>4, <2>1, <2>2
<1>5. CASE st = "missing"
  <2>1. /\ call' = [call EXCEPT !.pc = "create",
                                !.blind = bead[call.bead].status # "missing"]
        /\ UNCHANGED <<result, answers>>
    BY <1>1, <1>5
  <2>2. /\ call'.pc = "create" /\ call'.key = call.key /\ call'.bead = call.bead
        /\ call'.blind = (bead[call.bead].status # "missing")
    BY <1>0, <2>1 DEF CallType
  <2> QED
    BY <1>2, <1>5, <2>1, <2>2
<1> QED
  BY <1>1, <1>3, <1>4, <1>5

LEMMA DescribeDoes ==
    ASSUME TypeOK, Describe
    PROVE  TurnOpens("work")
<1> DEFINE c == [call EXCEPT !.outer = store[call.key[1]]]
<1>1. call \in CallType /\ call.key \in Keys
  BY DEF TypeOK, Describe
<1>2. store[call.key[1]] \in Sessions
  BY <1>1, Ids DEF TypeOK
<1>3. c \in CallType /\ c.key = call.key /\ c.bead = call.bead /\ c.blind = call.blind
  BY <1>1, <1>2 DEF CallType
<1>4. call' = Asking(c, "work") /\ "work" \in Asks
  BY DEF Describe, Asks
<1> HIDE DEF c
<1> QED
  BY <1>3, <1>4, AskType DEF TurnOpens, SameTask

LEMMA TurnEndsDoes ==
    ASSUME TypeOK, TurnEnds
    PROVE  /\ SameTask /\ call'.seen = call.seen /\ call'.pc = AfterTurn
           /\ call'.ask = call.ask
           /\ \E new \in Sessions : LET outer == IF call.ask # "artifact" \/ call.tried = {}
                                                 THEN new ELSE call.outer
                                    IN  /\ new # 0 /\ call'.outer = outer
                                        /\ store' = [store EXCEPT ![call.key[1]] = Persisted(outer)]
                                        /\ last' = [last EXCEPT ![call.key[1]] = new]
<1> DEFINE s == call.key[1]
           used == {call.sid, call.outer, store[s], last[s], 0}
<1>1. call \in CallType
  BY DEF TypeOK
<1>2. PICK new \in Sessions :
          /\ \/ new = call.sid /\ new # 0
             \/ new \notin used /\ \A n \in Sessions \ used : new <= n
          /\ LET outer == IF call.ask # "artifact" \/ call.tried = {}
                          THEN new ELSE call.outer
             IN  /\ store' = [store EXCEPT ![s] = Persisted(outer)]
                 /\ call' = [call EXCEPT !.pc = AfterTurn, !.outer = outer,
                                         !.sid = 0, !.tried = {}, !.left = 0]
          /\ last' = [last EXCEPT ![s] = new]
  BY DEF TurnEnds
<1> DEFINE outer == IF call.ask # "artifact" \/ call.tried = {} THEN new ELSE call.outer
<1>3. new # 0
  BY <1>2
<1>4. /\ call' = [call EXCEPT !.pc = AfterTurn, !.outer = outer, !.sid = 0,
                              !.tried = {}, !.left = 0]
      /\ store' = [store EXCEPT ![s] = Persisted(outer)]
      /\ last' = [last EXCEPT ![s] = new]
  BY <1>2
<1>5. /\ call'.key = call.key /\ call'.bead = call.bead /\ call'.blind = call.blind
      /\ call'.seen = call.seen /\ call'.pc = AfterTurn /\ call'.outer = outer
      /\ call'.ask = call.ask
  <2> HIDE DEF outer
  <2> QED
    BY <1>1, <1>4 DEF CallType
<1> QED
  BY <1>3, <1>4, <1>5 DEF SameTask

LEMMA TurnRaisesDoes ==
    ASSUME TypeOK, TurnRaises
    PROVE  /\ store' = [store EXCEPT ![call.key[1]] = Persisted(call.outer)]
           /\ \/ /\ call.ask = "work" /\ call' = Idle /\ answers' = answers
                 /\ result'.by \in Raises
                 /\ result'.by = "rate-limit" => call.left = 0
              \/ /\ SameTask /\ call'.seen = call.seen /\ call'.pc = AfterTurn
                 /\ call'.ask = call.ask /\ call'.outer = call.outer
                 /\ call.ask # "work"
                 /\ UNCHANGED <<result, answers>>
<1>1. call \in CallType
  BY DEF TypeOK
<1>2. CASE call.ask = "work"
  <2>1. PICK why \in Raises : (why = "rate-limit" => call.left = 0) /\ Raise(why)
    BY <1>2 DEF TurnRaises
  <2>2. store' = [store EXCEPT ![call.key[1]] = Persisted(call.outer)]
    BY DEF TurnRaises
  <2>3. /\ call' = Idle /\ answers' = answers
        /\ result' = [key |-> call.key, verdict |-> "", by |-> why]
    BY <2>1 DEF Raise
  <2>4. result'.by = why
    BY <2>3
  <2> QED
    BY <1>2, <2>1, <2>2, <2>3, <2>4
<1>3. CASE call.ask # "work"
  <2>1. /\ call' = [call EXCEPT !.pc = AfterTurn, !.sid = 0, !.tried = {}, !.left = 0]
        /\ UNCHANGED <<result, answers>>
        /\ store' = [store EXCEPT ![call.key[1]] = Persisted(call.outer)]
    BY <1>3 DEF TurnRaises
  <2>2. /\ call'.key = call.key /\ call'.bead = call.bead /\ call'.blind = call.blind
        /\ call'.seen = call.seen /\ call'.pc = AfterTurn /\ call'.outer = call.outer
        /\ call'.ask = call.ask
    BY <1>1, <2>1 DEF CallType
  <2> QED
    BY <1>3, <2>1, <2>2 DEF SameTask
<1> QED
  BY <1>2, <1>3

LEMMA FailsOverDoes ==
    ASSUME TypeOK, FailsOver
    PROVE  /\ SameTask /\ call'.pc = "turn" /\ call'.ask = call.ask
           /\ call'.seen = call.seen /\ call'.outer = call.outer
           /\ call'.sid = Persisted(call.sid)
           /\ call'.left = call.left - 1 /\ call'.tried = call.tried \cup {slot}
BY DEF TypeOK, FailsOver, CallType, SameTask

\* A check ends in one of four ways.
LEMMA CheckDoes ==
    ASSUME TypeOK, Check
    PROVE  \/ /\ bead[call.bead].status = "closed"
              /\ \E by \in {"agent", "nudge"} :
                    Return(Verdict(call.key[1], bead[call.bead].reason), by)
           \/ /\ bead[call.bead].status = "closed"
              /\ TurnOpens("artifact") /\ call'.seen = bead[call.bead].reason
              /\ UNCHANGED <<result, answers>>
           \/ /\ call.ask = "work" /\ TurnOpens("nudge") /\ call'.outer = call.outer
              /\ call'.sid = call.outer
              /\ UNCHANGED <<result, answers>>
           \/ /\ call.ask # "work" /\ SameTask /\ call'.pc = "force"
              /\ call'.outer = call.outer
              /\ UNCHANGED <<result, answers>>
<1> DEFINE reason == bead[call.bead].reason
           seen == [call EXCEPT !.seen = reason]
<1>1. call \in CallType /\ call.bead \in Beads /\ reason \in Reasons
  BY DEF TypeOK, Check
<1>2. PICK st \in Probes(call.bead) :
          \/ st = "closed" /\ CloseSeen(IF call.ask = "work" THEN "agent" ELSE "nudge")
          \/ /\ st # "closed"
             /\ call' = IF call.ask = "work"
                        THEN Asking(call, "nudge")
                        ELSE [call EXCEPT !.pc = "force"]
             /\ UNCHANGED <<result, answers>>
  BY DEF Check
<1>3. CASE st = "closed"
  <2>1. bead[call.bead].status = "closed"
    BY <1>3 DEF Probes
  <2>2. CASE \E by \in {"agent", "nudge"} : Return(Verdict(call.key[1], reason), by)
    BY <2>1, <2>2
  <2>3. CASE call' = Asking(seen, "artifact") /\ UNCHANGED <<result, answers>>
    <3>1. /\ seen \in CallType /\ seen.key = call.key /\ seen.bead = call.bead
          /\ seen.blind = call.blind /\ seen.seen = reason
      BY <1>1 DEF CallType
    <3>2. "artifact" \in Asks
      BY DEF Asks
    <3> HIDE DEF seen
    <3>3. TurnOpens("artifact") /\ call'.seen = reason
      BY <2>3, <3>1, <3>2, AskType DEF TurnOpens, SameTask
    <3> QED
      BY <2>1, <2>3, <3>3
  <2> QED
    BY <1>2, <1>3, <2>2, <2>3 DEF CloseSeen
<1>4. CASE st # "closed" /\ call.ask = "work"
  <2>1. call' = Asking(call, "nudge") /\ UNCHANGED <<result, answers>>
    BY <1>2, <1>4
  <2>2. "nudge" \in Asks
    BY DEF Asks
  <2>3. TurnOpens("nudge")
    BY <1>1, <2>1, <2>2, AskType DEF TurnOpens, SameTask
  <2>4. call'.outer = call.outer /\ call'.sid = call.outer
    BY <1>1, <2>1 DEF Asking, CallType
  <2> QED
    BY <1>4, <2>1, <2>3, <2>4
<1>5. CASE st # "closed" /\ call.ask # "work"
  <2>1. call' = [call EXCEPT !.pc = "force"] /\ UNCHANGED <<result, answers>>
    BY <1>2, <1>5
  <2>2. SameTask /\ call'.pc = "force" /\ call'.outer = call.outer
    BY <1>1, <2>1 DEF CallType, SameTask
  <2> QED
    BY <1>5, <2>1, <2>2
<1> QED
  BY <1>3, <1>4, <1>5

-----------------------------------------------------------------------------
(* The failover tries every slot.  During a turn the slots tried are those *)
(* the rotation passed since it stood at `start`; it has n steps behind it *)
(* and as many ahead as the budget.                                        *)

Passed(start, n) ==
    {m \in Slots : IF start + n <= Pool THEN start <= m /\ m < start + n
                   ELSE m >= start \/ m < start + n - Pool}

Position(start, n) == IF start + n < Pool THEN start + n ELSE start + n - Pool

TurnInv ==
    call.pc = "turn" =>
        \E start \in Slots :
            /\ call.tried = Passed(start, Pool - 1 - call.left)
            /\ slot = Position(start, Pool - 1 - call.left)

\* A turn starts with the rotation where it is.
LEMMA TurnStarts ==
    ASSUME TypeOK, slot' = slot, call'.tried = {}, call'.left = Pool - 1
    PROVE  TurnInv'
<1>1. slot \in Slots /\ slot \in Nat /\ Pool \in Nat /\ slot < Pool
  BY BoundsAssumption DEF TypeOK, Slots
<1>2. Passed(slot, 0) = {} /\ Position(slot, 0) = slot
  BY <1>1 DEF Passed, Position, Slots
<1>3. Pool - 1 - call'.left = 0
  BY <1>1
<1>4. /\ call'.tried = Passed(slot, Pool - 1 - call'.left)
      /\ slot' = Position(slot, Pool - 1 - call'.left)
  BY <1>2, <1>3
<1>5. \E start \in Slots :
          /\ call'.tried = Passed(start, Pool - 1 - call'.left)
          /\ slot' = Position(start, Pool - 1 - call'.left)
  BY <1>1, <1>4
<1> QED
  BY <1>5 DEF TurnInv, Passed, Position, Slots

\* A failover passes one slot more.
LEMMA TurnRotates ==
    ASSUME TypeOK, TurnInv, FailsOver PROVE TurnInv'
<1>1. PICK start \in Slots : /\ call.tried = Passed(start, Pool - 1 - call.left)
                             /\ slot = Position(start, Pool - 1 - call.left)
  BY DEF TurnInv, FailsOver
<1> DEFINE n == Pool - 1 - call.left
<1>2. /\ call \in CallType /\ slot \in Slots
      /\ call'.left = call.left - 1 /\ call'.tried = call.tried \cup {slot}
  BY FailsOverDoes DEF TypeOK
<1>3. /\ Pool \in Nat /\ start \in Nat /\ start < Pool /\ slot \in Nat /\ slot < Pool
      /\ call.left \in Nat /\ call.left > 0 /\ call.left < Pool
  BY <1>2, CallFields, BoundsAssumption DEF Slots, FailsOver
<1>4. Pool - 1 - call'.left = n + 1 /\ n \in Nat /\ n + 2 <= Pool
  BY <1>2, <1>3
<1>5. slot' = IF slot + 1 = Pool THEN 0 ELSE slot + 1
  BY <1>2, Rotation DEF FailsOver
<1> HIDE DEF n
<1>6. slot = Position(start, n) /\ call.tried = Passed(start, n)
  BY <1>1 DEF n
<1>7. slot' = Position(start, n + 1)
  BY <1>3, <1>4, <1>5, <1>6 DEF Position
<1>8. \A m \in Slots : m \in Passed(start, n + 1) <=> m \in Passed(start, n) \/ m = slot
  BY <1>3, <1>4, <1>6 DEF Position, Passed, Slots
<1>9. Passed(start, n + 1) = Passed(start, n) \cup {slot}
  BY <1>2, <1>8 DEF Passed
<1>10. \E s \in Slots : /\ call'.tried = Passed(s, Pool - 1 - call'.left)
                        /\ slot' = Position(s, Pool - 1 - call'.left)
  BY <1>2, <1>4, <1>6, <1>7, <1>9
<1> QED
  BY <1>10 DEF TurnInv, Passed, Position, Slots

\* What goes on during a turn beside the failover.
LEMMA TurnGoesOn ==
    ASSUME TurnInv, slot' = slot, call'.pc = call.pc, call'.tried = call.tried,
           call'.left = call.left
    PROVE  TurnInv'
BY DEF TurnInv, Passed, Position, Slots

LEMMA TurnStep == TypeOK /\ TurnInv /\ [Next]_vars => TurnInv'
<1> SUFFICES ASSUME TypeOK, TurnInv, [Next]_vars PROVE TurnInv'
  OBVIOUS
<1>0. call \in CallType
  BY DEF TypeOK
<1>1. ASSUME call'.pc # "turn" PROVE TurnInv'
  BY <1>1 DEF TurnInv
<1>2. CASE \E k \in Keys : Call(k)
  BY <1>1, <1>2, CallKeepsType
<1>3. CASE Probe
  <2>1. Idle.pc # "turn"
    BY DEF Idle
  <2>2. call' = Idle \/ call'.pc \in {"describe", "create"}
    BY <1>3, ProbeDoes DEF Return
  <2> QED
    BY <1>1, <2>1, <2>2
<1>4. CASE CreateOnDolt \/ CreateOnBr \/ Record
  <2>1. call'.pc \in {"describe", "record"}
    BY <1>0, <1>4 DEF CreateOnDolt, CreateOnBr, Record, CallType
  <2> QED
    BY <1>1, <2>1
<1>5. CASE Describe
  BY <1>5, DescribeDoes, TurnStarts DEF Describe, TurnOpens
<1>11. CASE TurnEnds \/ TurnRaises
  <2>1. AfterTurn # "turn" /\ Idle.pc # "turn"
    BY DEF AfterTurn, Idle
  <2> QED
    BY <1>1, <1>11, <2>1, TurnEndsDoes, TurnRaisesDoes
<1>6. CASE FailsOver
  BY <1>6, TurnRotates
<1>7. CASE Check
  <2>1. CASE \E ask \in Asks : TurnOpens(ask)
    BY <1>7, <2>1, TurnStarts DEF Check, TurnOpens
  <2>2. CASE call'.pc # "turn"
    BY <1>1, <2>2
  <2>3. Idle.pc # "turn" /\ {"artifact", "nudge"} \subseteq Asks
    BY DEF Idle, Asks
  <2> QED
    BY <1>7, <2>1, <2>2, <2>3, CheckDoes DEF Return
<1>8. CASE CheckArtifacts \/ ForceClose \/ Faults
  <2>1. call' = Idle
    BY <1>8 DEF CheckArtifacts, ForceClose, Faults, RecordTorn, ShellFails, Crash,
       Return, Raise
  <2>2. Idle.pc # "turn"
    BY DEF Idle
  <2> QED
    BY <1>1, <2>1, <2>2
<1>9. CASE Agents
  <2>1. /\ slot' = slot /\ call'.pc = call.pc /\ call'.tried = call.tried
        /\ call'.left = call.left
    BY <1>0, <1>9 DEF Agents, AgentCloses, AgentWritesArtifact,
       OrphanCloses, CallType
  <2> QED
    BY <2>1, TurnGoesOn
<1>10. CASE UNCHANGED vars
  BY <1>10, TurnGoesOn DEF vars
<1> QED
  BY <1>2, <1>3, <1>4, <1>5, <1>6, <1>7, <1>8, <1>9, <1>10, <1>11
     DEF Next, FlowStep, Waiting

\* A rate limit fails a step only when the budget is used up, and then the
\* slot in use is the only one not passed.
LEMMA LimitedEverywhere ==
    ASSUME TypeOK, TurnInv, [Next]_vars,
           call.pc = "turn", call'.pc = "idle", result'.by = "rate-limit"
    PROVE  call.tried \cup {slot} = Slots
<1>1. call.left = 0
  <2>1. CASE TurnRaises
    <3>1. AfterTurn # "idle"
      BY DEF AfterTurn
    <3> QED
      BY <2>1, <3>1, TurnRaisesDoes
  <2>2. CASE ~ TurnRaises
    <3>1. \/ UNCHANGED vars
          \/ FailsOver \/ TurnEnds
          \/ AgentCloses \/ AgentWritesArtifact \/ OrphanCloses \/ Crash
      BY <2>2 DEF Next, FlowStep, Waiting, Agents, Faults, Call, Probe, CreateOnDolt,
         CreateOnBr, Record, Describe, Check, CheckArtifacts, ForceClose, RecordTorn,
         ShellFails
    <3>2. CASE TurnEnds \/ FailsOver
      <4>1. AfterTurn # "idle"
        BY DEF AfterTurn
      <4> QED
        BY <3>2, <4>1, TurnEndsDoes, FailsOverDoes
    <3>3. CASE Crash
      BY <3>3 DEF Crash
    <3>4. CASE UNCHANGED vars \/ AgentCloses \/ AgentWritesArtifact \/ OrphanCloses
      BY <3>4 DEF vars, AgentCloses, AgentWritesArtifact, OrphanCloses
    <3> QED
      BY <3>1, <3>2, <3>3, <3>4
  <2> QED
    BY <2>1, <2>2
<1>2. Pool \in Nat /\ Pool > 0 /\ slot \in Slots
  BY BoundsAssumption DEF TypeOK
<1>3. PICK start \in Slots : call.tried = Passed(start, Pool - 1) /\ slot = Position(start, Pool - 1)
  BY <1>1, <1>2 DEF TurnInv
<1>4. \A m \in Slots : m \in Passed(start, Pool - 1) \/ m = slot
  BY <1>2, <1>3 DEF Position, Passed, Slots
<1> QED
  BY <1>2, <1>3, <1>4 DEF Passed

\* A step fails with a rate limit only when every slot was limited during its
\* turn, for any number of slots and wherever the rotation stood.
THEOREM EverySlotTried == Spec => AllSlotsTried
<1>1. Init => TurnInv
  <2>1. Init => call = Idle
    BY DEF Init
  <2>2. Idle.pc # "turn"
    BY DEF Idle
  <2> QED
    BY <2>1, <2>2 DEF TurnInv
<1>2. TypeOK /\ TurnInv /\ [Next]_vars => TurnInv'
  BY TurnStep
<1>3. TypeOK /\ TurnInv /\ [Next]_vars
        => [call.pc = "turn" /\ call'.pc = "idle" /\ result'.by = "rate-limit"
              => call.tried \cup {slot} = Slots]_vars
  BY LimitedEverywhere
<1> QED
  BY <1>1, <1>2, <1>3, Typing, PTL DEF Spec, AllSlotsTried

-----------------------------------------------------------------------------
(* The role resumes where it stopped.                                      *)

\* From the end of the work on, the session object the call holds, the store
\* and the role's last completed turn agree; a nudge starts from that session.
Agree ==
    LET s == call.key[1]
    IN  /\ call.outer # 0 /\ store[s] = call.outer /\ last[s] = call.outer
        /\ call.pc = "turn" => call.sid = call.outer

SessionInv ==
    /\ SessionKept
    /\ call.pc = "turn" => call.ask # "none"
    /\ call.pc \in {"check", "force"} \/ (call.pc = "turn" /\ call.ask = "nudge")
          => Agree

\* A call that is over, or on its way to the work or an artifact nudge.
LEMMA NothingHeld ==
    ASSUME call'.pc # "turn" \/ call'.ask \in {"work", "artifact"},
           call'.pc \notin {"check", "force"},
           call'.pc = "idle" => result'.by \notin {"agent", "nudge", "force"}
    PROVE  SessionInv'
BY DEF SessionInv, SessionKept

\* A step that moves neither the call nor a session.
LEMMA SessionsUndisturbed ==
    ASSUME SessionInv, result' = result, store' = store, last' = last,
           call'.pc = call.pc, call'.ask = call.ask, call'.key = call.key,
           call'.sid = call.sid, call'.outer = call.outer
    PROVE  SessionInv'
BY DEF SessionInv, SessionKept, Agree

\* A session that is not empty is what gets stored.
LEMMA PersistedSession ==
    ASSUME NEW sid, sid # 0 PROVE Persisted(sid) = sid
BY DEF Persisted

LEMMA SessionStep == TypeOK /\ SessionInv /\ [Next]_vars => SessionInv'
<1> SUFFICES ASSUME TypeOK, SessionInv, [Next]_vars PROVE SessionInv'
  OBVIOUS
<1>0. call \in CallType /\ store \in [Steps -> Sessions] /\ last \in [Steps -> Sessions]
  BY DEF TypeOK
<1>1. Idle.pc = "idle"
  BY DEF Idle
<1>2. CASE \E k \in Keys : Call(k)
  BY <1>2, CallKeepsType, NothingHeld
<1>3. CASE Probe
  <2>1. CASE \E v : Return(v, "cache")
    <3>1. call' = Idle /\ result'.by = "cache"
      BY <2>1 DEF Return
    <3> QED
      BY <1>1, <3>1, NothingHeld
  <2>2. CASE call'.pc \in {"describe", "create"}
    BY <2>2, NothingHeld
  <2> QED
    BY <1>3, <2>1, <2>2, ProbeDoes
<1>4. CASE CreateOnDolt \/ CreateOnBr \/ Record
  <2>1. call'.pc \in {"describe", "record"}
    BY <1>0, <1>4 DEF CreateOnDolt, CreateOnBr, Record, CallType
  <2> QED
    BY <2>1, NothingHeld
<1>5. CASE Describe
  BY <1>5, DescribeDoes, NothingHeld DEF TurnOpens
<1>6. CASE TurnEnds
  <2>1. call.key \in Keys /\ call.key[1] \in Steps
    BY <1>6, Ids DEF TypeOK, TurnEnds
  <2>2. CASE call.ask = "artifact"
    <3>1. call'.pc = "artifacts"
      BY <1>6, <2>2, TurnEndsDoes DEF AfterTurn
    <3> QED
      BY <3>1, NothingHeld
  <2>3. CASE call.ask # "artifact"
    <3>1. PICK new \in Sessions :
              /\ new # 0 /\ call'.outer = new
              /\ store' = [store EXCEPT ![call.key[1]] = Persisted(new)]
              /\ last' = [last EXCEPT ![call.key[1]] = new]
      BY <1>6, <2>3, TurnEndsDoes
    <3>2. /\ call'.pc = "check" /\ call'.key = call.key
      BY <1>6, <2>3, TurnEndsDoes DEF AfterTurn, SameTask
    <3>3. store'[call.key[1]] = new /\ last'[call.key[1]] = new
      BY <1>0, <2>1, <3>1, PersistedSession
    <3> QED
      BY <3>1, <3>2, <3>3 DEF SessionInv, SessionKept, Agree
  <2> QED
    BY <2>2, <2>3
<1>7. CASE FailsOver
  <2>1. call.key \in Keys /\ call.key[1] \in Steps /\ call.pc = "turn"
    BY <1>7, Ids DEF TypeOK, FailsOver
  <2>2. CASE call.ask = "nudge"
    <3>1. Agree
      BY <2>1, <2>2 DEF SessionInv
    <3>2. call.sid = call.outer /\ call.outer # 0
      BY <2>1, <3>1 DEF Agree
    <3>3. Persisted(call.sid) = call.outer
      BY <3>2, PersistedSession
    <3>4. /\ call'.key = call.key /\ call'.pc = "turn" /\ call'.ask = "nudge"
          /\ call'.outer = call.outer /\ call'.sid = call.outer
      BY <1>7, <2>2, <3>3, FailsOverDoes DEF SameTask
    <3>5. store' = [store EXCEPT ![call.key[1]] = call.outer] /\ last' = last
      BY <1>7, <3>3 DEF FailsOver
    <3>6. store'[call.key[1]] = call.outer /\ last'[call.key[1]] = call.outer
      BY <1>0, <2>1, <3>1, <3>5 DEF Agree
    <3> QED
      BY <3>2, <3>4, <3>6 DEF SessionInv, SessionKept, Agree
  <2>3. CASE call.ask # "nudge"
    BY <1>7, <2>1, <2>3, FailsOverDoes DEF SessionInv, SessionKept
  <2> QED
    BY <2>2, <2>3
<1>8. CASE TurnRaises
  <2>1. call.key \in Keys /\ call.key[1] \in Steps /\ call.pc = "turn"
    BY <1>8, Ids DEF TypeOK, TurnRaises
  <2>2. CASE call' = Idle /\ result'.by \in Raises
    BY <1>1, <2>2, NothingHeld DEF Raises
  <2>3. CASE /\ SameTask /\ call'.pc = AfterTurn /\ call'.ask = call.ask
             /\ call'.outer = call.outer /\ call.ask # "work"
    <3>1. CASE call.ask = "artifact"
      BY <2>3, <3>1, NothingHeld DEF AfterTurn
    <3>2. CASE call.ask = "nudge"
      <4>1. Agree
        BY <2>1, <3>2 DEF SessionInv
      <4>2. store' = [store EXCEPT ![call.key[1]] = call.outer] /\ last' = last
        BY <1>8, <4>1, TurnRaisesDoes, PersistedSession DEF Agree, TurnRaises
      <4>3. store'[call.key[1]] = call.outer /\ last'[call.key[1]] = call.outer
        BY <1>0, <2>1, <4>1, <4>2 DEF Agree
      <4>4. call'.pc = "check" /\ call'.key = call.key
        BY <2>3, <3>2 DEF AfterTurn, SameTask
      <4> QED
        BY <2>3, <4>1, <4>3, <4>4 DEF SessionInv, SessionKept, Agree
    <3>3. call.ask \in {"artifact", "nudge"}
      BY <1>0, <2>1, <2>3, CallFields DEF SessionInv, Asks
    <3> QED
      BY <3>1, <3>2, <3>3
  <2> QED
    BY <1>8, <2>2, <2>3, TurnRaisesDoes
<1>9. CASE Check
  <2>1. Agree /\ call.pc = "check" /\ store' = store /\ last' = last
    BY <1>9 DEF Check, SessionInv
  <2>2. CASE \E v, by : Return(v, by)
    BY <1>1, <2>1, <2>2 DEF Return, SessionInv, SessionKept, Agree
  <2>3. CASE TurnOpens("artifact")
    BY <2>3, NothingHeld DEF TurnOpens
  <2>4. CASE TurnOpens("nudge") /\ call'.outer = call.outer /\ call'.sid = call.outer
    BY <2>1, <2>4 DEF TurnOpens, SameTask, SessionInv, SessionKept, Agree
  <2>5. CASE SameTask /\ call'.pc = "force" /\ call'.outer = call.outer
    BY <2>1, <2>5 DEF SameTask, SessionInv, SessionKept, Agree
  <2> QED
    BY <1>9, <2>2, <2>3, <2>4, <2>5, CheckDoes
<1>10. CASE CheckArtifacts
  <2>1. call' = Idle /\ result'.by \in {"artifact-nudge", "artifact-nudge-failed"}
    BY <1>10 DEF CheckArtifacts, Return
  <2> QED
    BY <1>1, <2>1, NothingHeld
<1>11. CASE ForceClose
  <2>1. Agree /\ store' = store /\ last' = last
    BY <1>11 DEF ForceClose, SessionInv
  <2>2. call' = Idle /\ result'.key = call.key
    BY <1>11 DEF ForceClose, Return
  <2> QED
    BY <1>1, <2>1, <2>2 DEF SessionInv, SessionKept, Agree
<1>12. CASE Faults
  <2>1. call' = Idle /\ result' = [key |-> call.key, verdict |-> "", by |-> "error"]
    BY <1>12 DEF Faults, RecordTorn, ShellFails, Crash, Raise
  <2> QED
    BY <1>1, <2>1, NothingHeld
<1>13. CASE Agents
  <2>1. /\ result' = result /\ store' = store /\ last' = last /\ call'.pc = call.pc
        /\ call'.ask = call.ask /\ call'.key = call.key /\ call'.sid = call.sid
        /\ call'.outer = call.outer
    BY <1>0, <1>13 DEF Agents, AgentCloses, AgentWritesArtifact,
       OrphanCloses, CallType
  <2> QED
    BY <2>1, SessionsUndisturbed
<1>14. CASE UNCHANGED vars
  BY <1>14, SessionsUndisturbed DEF vars
<1> QED
  BY <1>2, <1>3, <1>4, <1>5, <1>6, <1>7, <1>8, <1>9, <1>10, <1>11, <1>12, <1>13, <1>14
     DEF Next, FlowStep, Waiting

\* A step that ran its ladder leaves in the store the session of the role's
\* last completed turn, through any number of failovers and failing nudges.
THEOREM SessionsKept == Spec => []SessionKept
<1>1. Init => SessionInv
  <2> SUFFICES ASSUME Init PROVE SessionInv
    OBVIOUS
  <2>1. call = Idle /\ result = [key |-> NoBead, verdict |-> "", by |-> "none"]
    BY DEF Init
  <2>2. call.pc = "idle" /\ result.by = "none"
    BY <2>1 DEF Idle
  <2> QED
    BY <2>2 DEF SessionInv, SessionKept
<1>2. TypeOK /\ SessionInv /\ [Next]_vars => SessionInv'
  BY SessionStep
<1>3. SessionInv => SessionKept
  BY DEF SessionInv
<1> QED
  BY <1>1, <1>2, <1>3, Typing, PTL DEF Spec

-----------------------------------------------------------------------------
(* Answered role-steps rest and keep their verdict.                        *)

\* The faults under which the tracker loses a bead the properties rest on: br
\* mints another after a misread probe or a lost map, and bd reopens a closed
\* bead it is asked to create.
Unsound == \/ backend = "br" /\ (MapFaults \/ ProbeFaults)
           \/ Resurrects /\ ProbeFaults

\* Which bead stands for a role-step: on dolt the convention id, on br a minted
\* one that exists, and no bead has the convention id.
MapOK ==
    /\ backend # "br" => \A k \in Keys : recorded[k] = NoBead
    /\ backend = "br" => \A k \in Keys : bead[k].status = "missing"
    /\ \A k \in Keys : recorded[k] # NoBead => bead[recorded[k]].status # "missing"

\* An answered role-step has a closed bead whose reason is the answer.
AnswersOK ==
    \A k \in Keys :
        /\ answers[k] # {} => bead[Target(k)].status = "closed"
        /\ \A v \in answers[k] \ {"failed"} : v = Verdict(k[1], bead[Target(k)].reason)

\* The role-step of the call is not answered, unless the probe misread.
Unanswered == answers[call.key] # {} => call.blind

\* What a call knows at each place of the code.
CallOK ==
    /\ call.blind => ProbeFaults
    /\ call.pc \notin {"idle", "record"} => call.bead = Target(call.key)
    /\ call.pc = "create" => call.blind \/ bead[call.bead].status = "missing"
    /\ call.pc = "record" => backend = "br" /\ answers[call.key] = {}
    /\ call.pc \in {"record", "describe", "turn", "check", "artifacts", "force"}
          => bead[call.bead].status # "missing"
    /\ call.pc \in {"create", "describe"} \/ (call.pc = "turn" /\ call.ask = "work")
          => Unanswered
    /\ call.pc = "artifacts" \/ (call.pc = "turn" /\ call.ask = "artifact")
          => bead[call.bead].status = "closed" /\ bead[call.bead].reason = call.seen

StepInv == Unsound \/ (MapOK /\ AnswersOK /\ CallOK)

\* Beads that exist stay, and closed ones keep their reason.
BeadsKept ==
    /\ \A b \in Beads : bead[b].status # "missing" => bead'[b].status # "missing"
    /\ \A b \in Beads : bead[b].status = "closed" => bead'[b] = bead[b]

\* No convention id becomes a bead.
NoneMinted == \A b \in Keys : bead[b].status = "missing" => bead'[b].status = "missing"

LEMMA MapKept ==
    ASSUME TypeOK, MapOK, BeadsKept, backend = "br" => NoneMinted,
           UNCHANGED <<backend, recorded>>
    PROVE  MapOK'
<1>1. \A k \in Keys : recorded[k] # NoBead => recorded[k] \in Beads
  BY DEF TypeOK, Beads
<1> QED
  BY <1>1 DEF MapOK, BeadsKept, NoneMinted

LEMMA TargetKept ==
    ASSUME recorded' = recorded, NEW k PROVE Target(k)' = Target(k)
BY DEF Target

LEMMA AnswersKept ==
    ASSUME TypeOK, AnswersOK, BeadsKept, UNCHANGED <<recorded, answers>>
    PROVE  AnswersOK'
<1> SUFFICES ASSUME NEW k \in Keys
             PROVE  /\ answers'[k] # {} => bead'[Target(k)'].status = "closed"
                    /\ \A v \in answers'[k] \ {"failed"} :
                          v = Verdict(k[1], bead'[Target(k)'].reason)
  BY DEF AnswersOK, Verdict
<1>1. Target(k)' = Target(k) /\ Target(k) \in Beads
  BY TargetKept, TargetType DEF TypeOK
<1>2. CASE answers[k] = {}
  BY <1>2
<1>3. CASE answers[k] # {}
  <2>1. bead'[Target(k)] = bead[Target(k)]
    BY <1>1, <1>3 DEF AnswersOK, BeadsKept
  <2> QED
    BY <1>1, <2>1 DEF AnswersOK
<1> QED
  BY <1>2, <1>3

\* A call returns what its closed bead says, or "failed".
LEMMA ReturnKept ==
    ASSUME TypeOK, AnswersOK, BeadsKept, recorded' = recorded, call.key \in Keys,
           call.bead = Target(call.key), bead'[call.bead].status = "closed",
           NEW v, NEW by, Return(v, by),
           v = "failed" \/ v = Verdict(call.key[1], bead'[call.bead].reason)
    PROVE  AnswersOK' /\ CallOK'
<1>1. CallOK'
  <2>1. call' = Idle
    BY DEF Return
  <2>2. call'.pc = "idle" /\ call'.blind = FALSE
    BY <2>1 DEF Idle
  <2> QED
    BY <2>2 DEF CallOK
<1>2. AnswersOK'
  <2> SUFFICES ASSUME NEW k \in Keys
               PROVE  /\ answers'[k] # {} => bead'[Target(k)'].status = "closed"
                      /\ \A w \in answers'[k] \ {"failed"} :
                            w = Verdict(k[1], bead'[Target(k)'].reason)
    BY DEF AnswersOK, Verdict
  <2>1. Target(k)' = Target(k) /\ Target(k) \in Beads
    BY TargetKept, TargetType DEF TypeOK
  <2>2. answers[k] # {} => bead'[Target(k)] = bead[Target(k)]
    BY <2>1 DEF AnswersOK, BeadsKept
  <2>3. answers' = [answers EXCEPT ![call.key] = @ \cup {v}] /\ answers \in [Keys -> SUBSET Verdicts]
    BY DEF Return, TypeOK
  <2>4. CASE k = call.key
    <3>1. answers'[k] = answers[k] \cup {v}
      BY <2>3, <2>4
    <3> QED
      BY <2>1, <2>2, <2>4, <3>1 DEF AnswersOK
  <2>5. CASE k # call.key
    <3>1. answers'[k] = answers[k]
      BY <2>3, <2>5
    <3> QED
      BY <2>1, <2>2, <3>1 DEF AnswersOK
  <2> QED
    BY <2>4, <2>5
<1> QED
  BY <1>1, <1>2

\* A call that is over knows nothing.
LEMMA IdleKnows ==
    ASSUME call' = Idle PROVE CallOK'
<1>1. call'.pc = "idle" /\ call'.blind = FALSE
  BY DEF Idle
<1> QED
  BY <1>1 DEF CallOK

\* Agents close open beads: nobody who relies on a bead relies on an open one.
LEMMA ClosingKeeps ==
    ASSUME TypeOK, MapOK, AnswersOK, CallOK, NEW b \in Beads, NEW r \in Reasons,
           bead[b].status = "open",
           bead' = [bead EXCEPT ![b] = [status |-> "closed", reason |-> r]],
           UNCHANGED <<backend, recorded, call, answers>>
    PROVE  MapOK' /\ AnswersOK' /\ CallOK'
<1>1. \A c \in Beads : bead'[c] = IF c = b THEN [status |-> "closed", reason |-> r]
                                  ELSE bead[c]
  BY DEF TypeOK
<1>2. BeadsKept /\ NoneMinted
  BY <1>1 DEF BeadsKept, NoneMinted, Beads
<1>3. MapOK' /\ AnswersOK'
  BY <1>2, MapKept, AnswersKept
<1>4. CallOK'
  <2>1. call.pc # "idle" => call.bead \in Beads
    BY DEF TypeOK
  <2>2. Target(call.key)' = Target(call.key)
    BY TargetKept
  <2> QED
    BY <1>1, <2>1, <2>2 DEF CallOK, Unanswered
<1> QED
  BY <1>3, <1>4

\* The call moves on and the tracker is left alone.
LEMMA MovingKeeps ==
    ASSUME TypeOK, MapOK, AnswersOK, CallOK',
           UNCHANGED <<backend, bead, recorded, answers>>
    PROVE  MapOK' /\ AnswersOK' /\ CallOK'
<1>1. BeadsKept /\ NoneMinted
  BY DEF BeadsKept, NoneMinted
<1> QED
  BY <1>1, MapKept, AnswersKept

LEMMA CallSound ==
    ASSUME TypeOK, MapOK, AnswersOK, CallOK, NEW k \in Keys, Call(k)
    PROVE  MapOK' /\ AnswersOK' /\ CallOK'
<1>1. /\ call'.pc = "probe" /\ call'.key = k /\ call'.bead = Target(k)
      /\ call'.blind = FALSE
  BY CallKeepsType
<1>2. UNCHANGED <<backend, bead, recorded, answers>>
  BY DEF Call
<1>3. Target(k)' = Target(k)
  BY <1>2, TargetKept
<1>4. CallOK'
  BY <1>1, <1>3 DEF CallOK, Target
<1> QED
  BY <1>2, <1>4, MovingKeeps

LEMMA ProbeSound ==
    ASSUME TypeOK, MapOK, AnswersOK, CallOK, Probe
    PROVE  MapOK' /\ AnswersOK' /\ CallOK'
<1>1. /\ call.pc = "probe" /\ call.key \in Keys /\ call.bead = Target(call.key)
      /\ UNCHANGED <<backend, bead, recorded>>
  BY DEF Probe, TypeOK, CallOK
<1>2. \A k : Target(k)' = Target(k)
  BY <1>1, TargetKept
<1>3. CASE /\ bead[call.bead].status = "closed"
           /\ Return(Verdict(call.key[1], bead[call.bead].reason), "cache")
  <2>1. BeadsKept /\ NoneMinted
    BY <1>1 DEF BeadsKept, NoneMinted
  <2>2. AnswersOK' /\ CallOK'
    BY <1>1, <1>3, <2>1, ReturnKept
  <2> QED
    BY <1>1, <2>1, <2>2, MapKept
<1>4. CASE /\ bead[call.bead].status = "open" /\ SameTask /\ call'.pc = "describe"
           /\ UNCHANGED <<result, answers>>
  <2>1. answers[call.key] = {}
    BY <1>1, <1>4 DEF AnswersOK
  <2>2. CallOK'
    BY <1>1, <1>2, <1>4, <2>1 DEF CallOK, SameTask, Unanswered, Target
  <2> QED
    BY <1>1, <1>4, <2>2, MovingKeeps
<1>5. CASE /\ call'.pc = "create" /\ call'.key = call.key /\ call'.bead = call.bead
           /\ call'.blind = (bead[call.bead].status # "missing")
           /\ bead[call.bead].status # "missing" => ProbeFaults
           /\ UNCHANGED <<result, answers>>
  <2>1. answers[call.key] # {} => call'.blind
    BY <1>1, <1>5 DEF AnswersOK
  <2>2. CallOK'
    BY <1>1, <1>2, <1>5, <2>1 DEF CallOK, Unanswered, Target
  <2> QED
    BY <1>1, <1>5, <2>2, MovingKeeps
<1> QED
  BY <1>3, <1>4, <1>5, ProbeDoes

LEMMA CreateOnDoltSound ==
    ASSUME TypeOK, MapOK, AnswersOK, CallOK, ~ Unsound, CreateOnDolt
    PROVE  MapOK' /\ AnswersOK' /\ CallOK'
<1>1. /\ call.pc = "create" /\ backend # "br" /\ call.key \in Keys /\ call.bead \in Beads
      /\ call.bead = Target(call.key)
      /\ UNCHANGED <<backend, recorded, answers>>
  BY DEF CreateOnDolt, TypeOK, CallOK
<1>2. /\ SameTask /\ call'.pc = "describe" /\ call'.ask = call.ask
  BY DEF CreateOnDolt, TypeOK, CallType, SameTask
<1>3. \A b \in Beads : \/ bead'[b] = bead[b]
                       \/ /\ b = call.bead /\ bead'[b].status = "open"
                          /\ bead[b].status = "missing" \/ Resurrects
  <2>1. \/ bead' = bead
        \/ /\ bead' = [bead EXCEPT ![call.bead] = [status |-> "open", reason |-> NoReason]]
           /\ bead[call.bead].status = "missing" \/ Resurrects
    BY DEF CreateOnDolt
  <2> QED
    BY <1>1, <2>1 DEF TypeOK
\* A probe that misread would bring a closed bead back, if bd reopens it.
<1>4. Resurrects => bead[call.bead].status = "missing"
  BY <1>1 DEF CallOK, Unsound
<1>5. BeadsKept
  BY <1>3, <1>4 DEF BeadsKept
<1>6. bead'[call.bead].status # "missing"
  <2>1. CASE bead[call.bead].status = "missing"
    BY <1>1, <2>1 DEF CreateOnDolt, TypeOK
  <2>2. CASE bead[call.bead].status # "missing"
    BY <1>1, <1>5, <2>2 DEF BeadsKept
  <2> QED
    BY <2>1, <2>2
<1>7. \A k : Target(k)' = Target(k)
  BY <1>1, TargetKept
<1>8. CallOK'
  BY <1>1, <1>2, <1>6, <1>7 DEF CallOK, SameTask, Unanswered, Target
<1> QED
  BY <1>1, <1>5, <1>8, MapKept, AnswersKept

LEMMA CreateOnBrSound ==
    ASSUME TypeOK, MapOK, AnswersOK, CallOK, ~ Unsound, CreateOnBr
    PROVE  MapOK' /\ AnswersOK' /\ CallOK'
<1>1. /\ call.pc = "create" /\ backend = "br" /\ call.key \in Keys
      /\ call.bead = Target(call.key)
      /\ UNCHANGED <<backend, recorded, answers>>
  BY DEF CreateOnBr, TypeOK, CallOK
<1>2. PICK b \in Minted : /\ bead[b].status = "missing"
                          /\ bead' = [bead EXCEPT ![b].status = "open"]
                          /\ call' = [call EXCEPT !.pc = "record", !.bead = b]
  BY DEF CreateOnBr
<1>3. b \in Beads /\ b \notin Keys
  BY Ids DEF Beads
<1>4. \A c \in Beads : c # b => bead'[c] = bead[c]
  BY <1>2, <1>3 DEF TypeOK
<1>5. bead'[b].status = "open"
  BY <1>2, <1>3 DEF TypeOK
<1>6. BeadsKept /\ NoneMinted
  BY <1>2, <1>3, <1>4, <1>5 DEF BeadsKept, NoneMinted, Beads
\* On br no probe misreads: the bead is missing, so nothing was answered.
<1>7. ~ call.blind /\ answers[call.key] = {}
  BY <1>1 DEF CallOK, Unsound, Unanswered
<1>8. call'.pc = "record" /\ call'.key = call.key /\ call'.bead = b /\ call'.blind = call.blind
  BY <1>2 DEF TypeOK, CallType
<1>9. CallOK'
  BY <1>1, <1>5, <1>7, <1>8 DEF CallOK
<1> QED
  BY <1>1, <1>6, <1>9, MapKept, AnswersKept

LEMMA RecordSound ==
    ASSUME TypeOK, MapOK, AnswersOK, CallOK, ~ Unsound, Record
    PROVE  MapOK' /\ AnswersOK' /\ CallOK'
<1>1. /\ backend = "br" /\ answers[call.key] = {} /\ bead[call.bead].status # "missing"
      /\ call.bead \in Minted /\ call.key \in Keys
      /\ UNCHANGED <<backend, bead, answers>>
  BY DEF Record, CallOK, TypeOK
<1>2. recorded' = [recorded EXCEPT ![call.key] = call.bead]
  BY <1>1 DEF Record, Unsound
<1>3. \A k \in Keys : recorded'[k] = IF k = call.key THEN call.bead ELSE recorded[k]
  BY <1>2 DEF TypeOK
<1>4. SameTask /\ call'.pc = "describe"
  BY DEF Record, TypeOK, CallType, SameTask
<1>5. Target(call.key)' = call.bead
  BY <1>1, <1>3, <1>4, Ids DEF Target, Beads, SameTask
<1>6. \A k \in Keys : k # call.key => Target(k)' = Target(k)
  BY <1>3 DEF Target
<1>7. MapOK'
  BY <1>1, <1>3 DEF MapOK
<1>8. AnswersOK'
  <2> SUFFICES ASSUME NEW k \in Keys
               PROVE  /\ answers'[k] # {} => bead'[Target(k)'].status = "closed"
                      /\ \A v \in answers'[k] \ {"failed"} :
                            v = Verdict(k[1], bead'[Target(k)'].reason)
    BY DEF AnswersOK, Verdict
  <2> QED
    BY <1>1, <1>6 DEF AnswersOK
<1>9. CallOK'
  BY <1>1, <1>4, <1>5 DEF CallOK, SameTask, Unanswered, Target
<1> QED
  BY <1>7, <1>8, <1>9

\* A step of a turn that touches neither tracker nor answers.
LEMMA TurnSound ==
    ASSUME TypeOK, MapOK, AnswersOK, CallOK,
           Describe \/ TurnEnds \/ FailsOver \/ TurnRaises
    PROVE  MapOK' /\ AnswersOK' /\ CallOK'
<1>1. /\ call.pc \in {"describe", "turn"} /\ call.key \in Keys
      /\ call.bead = Target(call.key) /\ bead[call.bead].status # "missing"
      /\ UNCHANGED <<backend, bead, recorded>>
  BY DEF Describe, TurnEnds, FailsOver, TurnRaises, TypeOK, CallOK
<1>2. \A k : Target(k)' = Target(k)
  BY <1>1, TargetKept
<1>3. CASE Describe
  <2>1. CallOK'
    BY <1>1, <1>2, <1>3, DescribeDoes
       DEF Describe, CallOK, TurnOpens, SameTask, Unanswered, Target
  <2> QED
    BY <1>1, <1>3, <2>1, MovingKeeps DEF Describe
<1>4. CASE TurnEnds
  <2>1. /\ SameTask /\ call'.seen = call.seen /\ call'.pc = AfterTurn
        /\ answers' = answers /\ call.pc = "turn"
    BY <1>4, TurnEndsDoes DEF TurnEnds
  <2>2. CallOK'
    BY <1>1, <1>2, <2>1 DEF CallOK, SameTask, AfterTurn, Target
  <2> QED
    BY <1>1, <2>1, <2>2, MovingKeeps
<1>5. CASE FailsOver
  <2>1. /\ SameTask /\ call'.pc = "turn" /\ call'.ask = call.ask /\ call.pc = "turn"
        /\ call'.seen = call.seen /\ answers' = answers
    BY <1>5, FailsOverDoes DEF FailsOver
  <2>2. CallOK'
    BY <1>1, <1>2, <2>1 DEF CallOK, SameTask, Unanswered, Target
  <2> QED
    BY <1>1, <2>1, <2>2, MovingKeeps
<1>6. CASE TurnRaises
  <2>1. CASE call' = Idle /\ answers' = answers
    BY <1>1, <2>1, IdleKnows, MovingKeeps
  <2>2. CASE /\ SameTask /\ call'.seen = call.seen /\ call'.pc = AfterTurn
             /\ answers' = answers
    <3>1. call.pc = "turn"
      BY <1>6 DEF TurnRaises
    <3>2. CallOK'
      BY <1>1, <1>2, <2>2, <3>1 DEF CallOK, SameTask, AfterTurn, Target
    <3> QED
      BY <1>1, <2>2, <3>2, MovingKeeps
  <2> QED
    BY <1>6, <2>1, <2>2, TurnRaisesDoes
<1> QED
  BY <1>3, <1>4, <1>5, <1>6

LEMMA CheckSound ==
    ASSUME TypeOK, MapOK, AnswersOK, CallOK, Check
    PROVE  MapOK' /\ AnswersOK' /\ CallOK'
<1>1. /\ call.pc = "check" /\ call.key \in Keys /\ call.bead = Target(call.key)
      /\ bead[call.bead].status # "missing"
      /\ UNCHANGED <<backend, bead, recorded>>
  BY DEF Check, TypeOK, CallOK
<1>2. \A k : Target(k)' = Target(k)
  BY <1>1, TargetKept
<1>3. CASE /\ bead[call.bead].status = "closed"
           /\ \E by \in {"agent", "nudge"} :
                 Return(Verdict(call.key[1], bead[call.bead].reason), by)
  <2>1. BeadsKept /\ NoneMinted
    BY <1>1 DEF BeadsKept, NoneMinted
  <2>2. AnswersOK' /\ CallOK'
    BY <1>1, <1>3, <2>1, ReturnKept
  <2> QED
    BY <1>1, <2>1, <2>2, MapKept
<1>4. CASE /\ bead[call.bead].status = "closed"
           /\ TurnOpens("artifact") /\ call'.seen = bead[call.bead].reason
           /\ UNCHANGED <<result, answers>>
  <2>1. CallOK'
    BY <1>1, <1>2, <1>4 DEF CallOK, TurnOpens, SameTask, Target
  <2> QED
    BY <1>1, <1>4, <2>1, MovingKeeps
<1>5. CASE TurnOpens("nudge") /\ UNCHANGED <<result, answers>>
  <2>1. CallOK'
    BY <1>1, <1>2, <1>5 DEF CallOK, TurnOpens, SameTask, Target
  <2> QED
    BY <1>1, <1>5, <2>1, MovingKeeps
<1>6. CASE SameTask /\ call'.pc = "force" /\ UNCHANGED <<result, answers>>
  <2>1. CallOK'
    BY <1>1, <1>2, <1>6 DEF CallOK, SameTask, Target
  <2> QED
    BY <1>1, <1>6, <2>1, MovingKeeps
<1> QED
  BY <1>3, <1>4, <1>5, <1>6, CheckDoes

LEMMA EndSound ==
    ASSUME TypeOK, MapOK, AnswersOK, CallOK, CheckArtifacts \/ ForceClose
    PROVE  MapOK' /\ AnswersOK' /\ CallOK'
<1>1. /\ call.pc \in {"artifacts", "force"} /\ call.key \in Keys /\ call.bead \in Beads
      /\ call.bead = Target(call.key) /\ bead[call.bead].status # "missing"
      /\ UNCHANGED <<backend, recorded>>
  BY DEF CheckArtifacts, ForceClose, TypeOK, CallOK
<1>2. CASE CheckArtifacts
  <2>1. /\ bead' = bead /\ bead[call.bead].status = "closed"
        /\ bead[call.bead].reason = call.seen
    BY <1>2 DEF CheckArtifacts, CallOK
  <2>2. BeadsKept /\ NoneMinted
    BY <2>1 DEF BeadsKept, NoneMinted
  <2>3. \E by : \/ Return("failed", by)
                \/ Return(Verdict(call.key[1], bead'[call.bead].reason), by)
    BY <1>2, <2>1 DEF CheckArtifacts
  <2>4. AnswersOK' /\ CallOK'
    BY <1>1, <2>1, <2>2, <2>3, ReturnKept
  <2> QED
    BY <1>1, <2>2, <2>4, MapKept
<1>3. CASE ForceClose
  <2>1. \/ bead[call.bead].status = "closed" /\ bead' = bead
        \/ /\ bead[call.bead].status = "open"
           /\ bead' = [bead EXCEPT ![call.bead] = [status |-> "closed", reason |-> ForceReason]]
    BY <1>1, <1>3 DEF ForceClose, TypeOK
  <2>2. BeadsKept /\ NoneMinted /\ bead'[call.bead].status = "closed"
    <3>1. CASE bead[call.bead].status = "closed"
      BY <2>1, <3>1 DEF BeadsKept, NoneMinted
    <3>2. CASE bead[call.bead].status # "closed"
      <4>1. bead[call.bead].status = "open"
        BY <2>1, <3>2
      <4>2. \A b \in Beads : bead'[b] = IF b = call.bead
                                       THEN [status |-> "closed", reason |-> ForceReason]
                                       ELSE bead[b]
        BY <2>1, <3>2 DEF TypeOK
      <4> QED
        BY <1>1, <4>1, <4>2 DEF BeadsKept, NoneMinted, Beads
    <3> QED
      BY <3>1, <3>2
  <2>3. Return("failed", "force")
    BY <1>3 DEF ForceClose
  <2>4. AnswersOK' /\ CallOK'
    BY <1>1, <2>2, <2>3, ReturnKept
  <2> QED
    BY <1>1, <2>2, <2>4, MapKept
<1> QED
  BY <1>2, <1>3

LEMMA AgentsSound ==
    ASSUME TypeOK, MapOK, AnswersOK, CallOK, AgentCloses \/ OrphanCloses \/ AgentWritesArtifact
    PROVE  MapOK' /\ AnswersOK' /\ CallOK'
<1>0. \A s \in Steps : \A r \in CloseReasons[s] : r \in Reasons
  BY DEF Reasons
<1>1. CASE AgentCloses
  <2>1. /\ call.key[1] \in Steps /\ call.bead \in Beads /\ bead[call.bead].status = "open"
        /\ UNCHANGED <<backend, recorded, call, answers>>
    BY <1>1, Ids DEF AgentCloses, TypeOK
  <2>2. PICK r \in CloseReasons[call.key[1]] :
            bead' = [bead EXCEPT ![call.bead] = [status |-> "closed", reason |-> r]]
    BY <1>1 DEF AgentCloses
  <2> QED
    BY <1>0, <2>1, <2>2, ClosingKeeps
<1>2. CASE OrphanCloses
  <2>1. PICK o \in orphans :
            /\ bead[o[2]].status = "open"
            /\ \E r \in CloseReasons[o[1][1]] :
                  bead' = [bead EXCEPT ![o[2]] = [status |-> "closed", reason |-> r]]
    BY <1>2 DEF OrphanCloses
  <2>2. o[1][1] \in Steps /\ o[2] \in Beads
    BY Ids DEF TypeOK
  <2>3. PICK r \in CloseReasons[o[1][1]] :
            bead' = [bead EXCEPT ![o[2]] = [status |-> "closed", reason |-> r]]
    BY <2>1
  <2>4. UNCHANGED <<backend, recorded, call, answers>>
    BY <1>2 DEF OrphanCloses
  <2> QED
    BY <1>0, <2>1, <2>2, <2>3, <2>4, ClosingKeeps
<1>3. CASE AgentWritesArtifact
  <2>1. UNCHANGED <<backend, bead, recorded, call, answers>>
    BY <1>3 DEF AgentWritesArtifact
  <2>2. Target(call.key)' = Target(call.key)
    BY <2>1, TargetKept
  <2>3. CallOK'
    BY <2>1, <2>2 DEF CallOK, Unanswered
  <2> QED
    BY <2>1, <2>3, MovingKeeps
<1> QED
  BY <1>1, <1>2, <1>3

LEMMA FaultsSound ==
    ASSUME TypeOK, MapOK, AnswersOK, CallOK, ~ Unsound, Faults
    PROVE  MapOK' /\ AnswersOK' /\ CallOK'
\* Only br writes the map, and there no write tears.
<1>1. ~ RecordTorn
  BY DEF RecordTorn, CallOK, Unsound
<1>2. call' = Idle /\ UNCHANGED <<backend, bead, recorded, answers>>
  BY <1>1 DEF Faults, ShellFails, Crash, Raise
<1> QED
  BY <1>2, IdleKnows, MovingKeeps

LEMMA StepInvStep == TypeOK /\ StepInv /\ [Next]_vars => StepInv'
<1> SUFFICES ASSUME TypeOK, StepInv, [Next]_vars PROVE StepInv'
  OBVIOUS
<1>1. backend' = backend
  BY DEF Next, FlowStep, Waiting, Agents, Faults, vars, Call, Probe, CreateOnDolt,
     CreateOnBr, Record, Describe, TurnEnds, FailsOver, TurnRaises, Check,
     CheckArtifacts, ForceClose, AgentCloses, AgentWritesArtifact,
     OrphanCloses, RecordTorn, ShellFails, Crash
<1>2. CASE Unsound
  BY <1>1, <1>2 DEF StepInv, Unsound
<1>3. CASE ~ Unsound
  <2>1. MapOK /\ AnswersOK /\ CallOK
    BY <1>3 DEF StepInv
  <2>2. CASE \E k \in Keys : Call(k)
    BY <2>1, <2>2, CallSound DEF StepInv
  <2>3. CASE FlowStep
    BY <1>3, <2>1, <2>3, ProbeSound, CreateOnDoltSound, CreateOnBrSound, RecordSound,
       TurnSound, CheckSound, EndSound DEF StepInv, FlowStep, Waiting
  <2>4. CASE Agents
    BY <2>1, <2>4, TurnSound, AgentsSound DEF StepInv, Agents
  <2>5. CASE Faults
    BY <1>3, <2>1, <2>5, FaultsSound DEF StepInv
  <2>6. CASE UNCHANGED vars
    <3>1. UNCHANGED <<backend, bead, recorded, call, answers>>
      BY <2>6 DEF vars
    <3>2. Target(call.key)' = Target(call.key)
      BY <3>1, TargetKept
    <3>3. CallOK'
      BY <2>1, <3>1, <3>2 DEF CallOK, Unanswered
    <3> QED
      BY <2>1, <3>1, <3>3, MovingKeeps DEF StepInv
  <2> QED
    BY <2>2, <2>3, <2>4, <2>5, <2>6 DEF Next
<1> QED
  BY <1>2, <1>3

LEMMA StepInvInit == Init => StepInv
<1> SUFFICES ASSUME Init PROVE StepInv
  OBVIOUS
<1>1. call = Idle
  BY DEF Init
<1>2. call.pc = "idle" /\ call.blind = FALSE
  BY <1>1 DEF Idle
<1>3. CallOK
  BY <1>2 DEF CallOK
<1>4. AnswersOK
  BY DEF Init, AnswersOK
<1>5. MapOK
  BY DEF Init, MapOK, Beads
<1> QED
  BY <1>3, <1>4, <1>5 DEF StepInv

LEMMA StepInvAlways == Spec => []StepInv
<1>1. TypeOK /\ StepInv /\ [Next]_vars => StepInv'
  BY StepInvStep
<1> QED
  BY <1>1, StepInvInit, Typing, PTL DEF Spec

\* "Re-runs of a partially-completed pipeline skip already-done work": whatever
\* crashes, raises or goes on without its flow, the work of an answered
\* role-step is asked for again only by a call whose own probe misread, or
\* under the faults that lose beads.
THEOREM AnsweredRest == Spec => []AnsweredStepsRest
<1>1. StepInv => AnsweredStepsRest
  BY DEF StepInv, Unsound, CallOK, Unanswered, AnsweredStepsRest
<1> QED
  BY <1>1, StepInvAlways, PTL

\* All calls of a role-step that answer give the verdict of one closed bead,
\* or "failed".
THEOREM VerdictsStable == Spec => []VerdictStable
<1>1. StepInv => VerdictStable
  BY DEF StepInv, Unsound, AnswersOK, VerdictStable
<1> QED
  BY <1>1, StepInvAlways, PTL

-----------------------------------------------------------------------------
(* The loop as it is written: its keywords, no required artifacts; `bd     *)
(* show` answers, the id map is written and agents die with their flow.    *)

GoalWords == /\ Keywords["actor"] = <<"done", "unable">>
             /\ Keywords["critic"] = <<"approved", "rejected", "infeasible">>

Quiet == ~ProbeFaults /\ ~MapFaults /\ ~Survive /\ Required = {}

\* What a role-step's bead says, and the answer of each role-step.
Says(k, b) == IF b.status = "closed" THEN Verdict(k[1], b.reason) ELSE "none"
Ans == [k \in Keys |-> Says(k, bead[Target(k)])]

\* The answers after which the loop goes on.
GoesOn(k) == IF k[1] = "actor" THEN Ans[k] \notin {"none", "unable"}
             ELSE Ans[k] \notin {"none", "approved", "infeasible"}

LEMMA KeysAre ==
    /\ Keys = {"actor", "critic"} \X (1..MaxIters) /\ MaxIters \in Nat \ {0}
    /\ \A k \in Keys : /\ k = <<k[1], k[2]>> /\ k[1] \in {"actor", "critic"}
                       /\ k[2] \in 1..MaxIters
BY LoopAssumption, BoundsAssumption DEF Keys

\* A reason is read as one of the keywords or as none; a forced close as text.
LEMMA VerdictIs ==
    ASSUME GoalWords, NEW step \in {"actor", "critic"}, NEW reason
    PROVE  /\ Verdict(step, reason) \in Contract!Verdicts(step)
           /\ Verdict(step, reason) # "none"
<1> DEFINE words == Keywords[step]
           hits == {n \in DOMAIN words : words[n] \in reason.says}
           first == CHOOSE n \in hits : \A m \in hits : n <= m
<1>1. /\ DOMAIN words \subseteq Nat
      /\ \A n \in DOMAIN words : words[n] \in Contract!Verdicts(step) \ {"none"}
  <2>1. CASE step = "actor"
    <3>1. words = <<"done", "unable">>
      BY <2>1 DEF GoalWords
    <3>2. DOMAIN words = 1..2 /\ words[1] = "done" /\ words[2] = "unable"
      BY <3>1
    <3>3. Contract!Verdicts(step) = {"done", "unable", "complete", ""}
      BY <2>1 DEF Contract!Verdicts
    <3> HIDE DEF words
    <3>4. ASSUME NEW n \in DOMAIN words PROVE n \in Nat /\ (n = 1 \/ n = 2)
      BY <3>2
    <3> QED
      BY <3>2, <3>3, <3>4
  <2>2. CASE step = "critic"
    <3>1. words = <<"approved", "rejected", "infeasible">>
      BY <2>2 DEF GoalWords
    <3>2. /\ DOMAIN words = 1..3 /\ words[1] = "approved" /\ words[2] = "rejected"
          /\ words[3] = "infeasible"
      BY <3>1
    <3>3. Contract!Verdicts(step)
            = {"approved", "rejected", "infeasible", "complete", ""}
      BY <2>2 DEF Contract!Verdicts
    <3> HIDE DEF words
    <3>4. ASSUME NEW n \in DOMAIN words PROVE n \in Nat /\ (n = 1 \/ n = 2 \/ n = 3)
      BY <3>2
    <3> QED
      BY <3>2, <3>3, <3>4
  <2> QED
    BY <2>1, <2>2
<1>2. Verdict(step, reason) = IF hits # {} THEN words[first]
                              ELSE IF reason # Silent THEN "complete" ELSE ""
  BY DEF Verdict
<1> HIDE DEF words
<1>3. hits \subseteq Nat /\ hits \subseteq DOMAIN words
  BY <1>1
<1> HIDE DEF hits
<1>4. hits # {} => first \in hits
  BY <1>3, Least
<1> HIDE DEF first
<1>5. {"complete", ""} \subseteq Contract!Verdicts(step) \ {"none"}
  BY DEF Contract!Verdicts
<1> QED
  BY <1>1, <1>2, <1>3, <1>4, <1>5

LEMMA ForcedIs ==
    ASSUME GoalWords, NEW step \in {"actor", "critic"}
    PROVE  Verdict(step, ForceReason) = "complete"
<1> DEFINE words == Keywords[step]
<1>1. {n \in DOMAIN words : words[n] \in ForceReason.says} = {}
  <2>1. ForceReason.says = {"failed"}
    BY DEF ForceReason
  <2>2. Keywords[step] \in Seq(STRING \ {"failed"})
    BY LoopAssumption, KeywordsAssumption
  <2> QED
    BY <2>1, <2>2
<1>2. ForceReason # Silent
  <2>1. ForceReason.lead # Silent.lead
    BY DEF ForceReason, Silent
  <2> QED
    BY <2>1
<1> QED
  BY <1>1, <1>2 DEF Verdict

\* The contract, said of the beads.
LEMMA Mapped ==
    /\ Contract!cvars = <<Ans, outcome>>
    /\ \A k : Contract!Continues(k) <=> GoesOn(k)
BY DEF Contract!cvars, Contract!Continues, GoesOn, Ans, Says

-----------------------------------------------------------------------------
(* What the steps of a call do to the answers.                             *)

\* The role-steps have beads of their own; a call that has made one has not
\* recorded it; the forced close finds its bead open.
FlowInv ==
    /\ orphans = {}
    /\ call.pc # "artifacts" /\ call.ask # "artifact"
    /\ \A j, k \in Keys : Target(j) = Target(k) => j = k
    /\ call.pc = "record" => /\ bead[call.bead].status = "open"
                             /\ bead[Target(call.key)].status = "missing"
                             /\ \A k \in Keys : recorded[k] # call.bead
    /\ call.pc = "force" => bead[call.bead].status = "open"

\* What the caller is told: the answer, or "failed" for a forced close.
Spoken(k) == /\ Ans[k] # "none"
             /\ \/ result.verdict = Ans[k]
                \/ result.verdict = "failed" /\ Ans[k] = "complete"

\* A call that ends raises or tells the answer of its role-step.
EndsWell(k) == result.by \in Raises \/ (result.by \in Endings /\ Spoken(k))

\* The answer a step of the call adds, if any.
Adds == \E v \in Contract!Verdicts(call.key[1]) \ {"none"} :
            Ans[call.key] = "none" /\ Ans' = [Ans EXCEPT ![call.key] = v]

AnsNext(k) == Says(k, bead'[Target(k)'])

LEMMA AnsPrimed == Ans' = [k \in Keys |-> AnsNext(k)]
BY DEF Ans, AnsNext, Says, Verdict

LEMMA AnsSame ==
    ASSUME UNCHANGED <<bead, recorded>>
    PROVE  Ans' = Ans
BY DEF Ans, Target

\* What every step of a call does.
Does ==
    /\ FlowInv'
    /\ call.pc # "idle" /\ call.key \in Keys
    /\ call'.pc # "idle" => call'.key = call.key
    /\ call'.pc = "idle" => \A k \in Keys : k = call.key => EndsWell(k)'
    /\ Ans' = Ans \/ Adds

Sound == TypeOK /\ MapOK /\ AnswersOK /\ CallOK /\ FlowInv

\* The call moves on and the tracker is left alone.
LEMMA MovesOn ==
    ASSUME Sound, call.pc # "idle", UNCHANGED <<bead, recorded, orphans>>,
           call'.key = call.key, call'.ask # "artifact",
           call'.pc \in {"create", "describe", "turn", "check"}
    PROVE  Does
<1>1. \A k : Target(k)' = Target(k)
  BY TargetKept
<1>2. FlowInv'
  BY <1>1 DEF Sound, FlowInv
<1> QED
  BY <1>2, AnsSame DEF Sound, TypeOK, Does

\* The call raises, or its process dies.
LEMMA GivesUp ==
    ASSUME Sound, call.pc # "idle", UNCHANGED <<bead, recorded, orphans>>,
           call' = Idle, result'.by \in Raises
    PROVE  Does
<1>1. \A k : Target(k)' = Target(k)
  BY TargetKept
<1>2. call'.pc = "idle" /\ call'.ask = "none"
  BY DEF Idle
<1>3. FlowInv'
  BY <1>1, <1>2 DEF Sound, FlowInv
<1>4. \A k : EndsWell(k)'
  BY DEF EndsWell
<1> QED
  BY <1>2, <1>3, <1>4, AnsSame DEF Sound, TypeOK, Does

\* The call returns what its closed bead says.
LEMMA Replies ==
    ASSUME GoalWords, Sound, call.pc # "idle", UNCHANGED <<bead, recorded, orphans>>,
           call.bead = Target(call.key), bead[call.bead].status = "closed",
           NEW by \in Endings, Return(Verdict(call.key[1], bead[call.bead].reason), by)
    PROVE  Does
<1>1. \A k : Target(k)' = Target(k)
  BY TargetKept
<1>2. call'.pc = "idle" /\ call'.ask = "none"
  BY DEF Return, Idle
<1>3. FlowInv'
  BY <1>1, <1>2 DEF Sound, FlowInv
<1>4. call.key \in Keys /\ call.key[1] \in {"actor", "critic"}
  BY KeysAre DEF Sound, TypeOK
<1>5. /\ Ans' = Ans /\ Ans[call.key] = Verdict(call.key[1], bead[call.bead].reason)
      /\ Ans[call.key] # "none"
  BY <1>4, AnsSame, VerdictIs DEF Ans, Says
<1>6. result'.verdict = Ans'[call.key] /\ Ans'[call.key] # "none" /\ result'.by \in Endings
  BY <1>5 DEF Return
<1>7. \A k \in Keys : k = call.key => EndsWell(k)'
  BY <1>6 DEF EndsWell, Spoken
<1> QED
  BY <1>2, <1>3, <1>4, <1>5, <1>7 DEF Does

\* A bead that is not closed and appears or stays open answers nothing.
LEMMA NoNews ==
    ASSUME Sound,
           \A k \in Keys : \/ Target(k)' = Target(k) /\ bead'[Target(k)] = bead[Target(k)]
                           \/ /\ bead[Target(k)].status # "closed"
                              /\ bead'[Target(k)'].status # "closed"
    PROVE  Ans' = Ans
<1>1. ASSUME NEW k \in Keys PROVE AnsNext(k) = Ans[k]
  BY DEF AnsNext, Ans, Says
<1>2. Ans' = [k \in Keys |-> Ans[k]]
  BY <1>1, AnsPrimed
<1> QED
  BY <1>2 DEF Ans

LEMMA ProbeTells ==
    ASSUME GoalWords, Quiet, Sound, Probe PROVE Does
<1>1. /\ call.pc = "probe" /\ call.bead = Target(call.key) /\ call.ask # "artifact"
      /\ UNCHANGED <<bead, recorded, orphans>>
  BY DEF Probe, Sound, CallOK, FlowInv
<1>2. CASE /\ bead[call.bead].status = "closed"
           /\ Return(Verdict(call.key[1], bead[call.bead].reason), "cache")
  <2>1. "cache" \in Endings
    BY DEF Endings, Closers
  <2> QED
    BY <1>1, <1>2, <2>1, Replies
<1>3. CASE ~ (bead[call.bead].status = "closed"
               /\ Return(Verdict(call.key[1], bead[call.bead].reason), "cache"))
  <2>1. call'.pc \in {"describe", "create"} /\ call'.key = call.key
    BY <1>3, ProbeDoes DEF Sound, SameTask
  <2>2. call'.ask = call.ask
    <3>1. call \in CallType
      BY DEF Sound, TypeOK
    <3>2. Probes(call.bead) = {bead[call.bead].status}
      BY DEF Probes, Quiet
    <3> QED
      BY <1>3, <3>1, <3>2 DEF Probe, CallType
  <2> QED
    BY <1>1, <2>1, <2>2, MovesOn
<1> QED
  BY <1>2, <1>3

LEMMA CreateTells ==
    ASSUME GoalWords, Quiet, Sound, CreateOnDolt PROVE Does
<1>1. /\ call.pc = "create" /\ call.key \in Keys /\ call.bead = Target(call.key)
      /\ call.bead \in Beads /\ bead[call.bead].status = "missing"
      /\ UNCHANGED <<recorded, orphans>>
  BY DEF CreateOnDolt, Sound, TypeOK, CallOK, Quiet
<1>2. bead' = [bead EXCEPT ![call.bead] = [status |-> "open", reason |-> NoReason]]
  BY <1>1 DEF CreateOnDolt
<1>3. \A k : Target(k)' = Target(k)
  BY <1>1, TargetKept
<1>4. \A b \in Beads : bead'[b] = IF b = call.bead THEN [status |-> "open", reason |-> NoReason]
                                  ELSE bead[b]
  BY <1>2 DEF Sound, TypeOK
<1>5. Ans' = Ans
  <2>1. \A k \in Keys : Target(k) \in Beads
    BY TargetType DEF Sound, TypeOK
  <2> QED
    BY <1>1, <1>3, <1>4, <2>1, NoNews
<1>6. call'.pc = "describe" /\ call'.key = call.key /\ call'.ask = call.ask
  BY DEF CreateOnDolt, Sound, TypeOK, CallType
<1>7. FlowInv'
  BY <1>1, <1>3, <1>6 DEF Sound, FlowInv
<1> QED
  BY <1>1, <1>5, <1>6, <1>7 DEF Does

\* br's new bead stands for no role-step yet.
LEMMA MintTells ==
    ASSUME GoalWords, Quiet, Sound, CreateOnBr PROVE Does
<1>1. /\ call.pc = "create" /\ call.key \in Keys /\ call.bead = Target(call.key)
      /\ bead[call.bead].status = "missing"
      /\ UNCHANGED <<recorded, orphans>>
  BY DEF CreateOnBr, Sound, TypeOK, CallOK, Quiet
<1>2. PICK b \in Minted : /\ bead[b].status = "missing"
                          /\ bead' = [bead EXCEPT ![b].status = "open"]
                          /\ call' = [call EXCEPT !.pc = "record", !.bead = b]
  BY DEF CreateOnBr
<1>3. b \in Beads /\ b \notin Keys
  BY Ids DEF Beads
<1>4. /\ bead'[b].status = "open"
      /\ \A c \in Beads : c # b => bead'[c] = bead[c]
  BY <1>2, <1>3 DEF Sound, TypeOK
<1>5. \A k : Target(k)' = Target(k)
  BY <1>1, TargetKept
<1>6. \A k \in Keys : Target(k) \in Beads /\ (recorded[k] # NoBead => Target(k) = recorded[k])
  BY TargetType DEF Sound, TypeOK, Target
<1>7. Ans' = Ans
  BY <1>2, <1>4, <1>5, <1>6, NoNews
<1>8. call'.pc = "record" /\ call'.key = call.key /\ call'.bead = b /\ call'.ask = call.ask
  BY <1>2 DEF Sound, TypeOK, CallType
<1>9. \A k \in Keys : recorded[k] # b
  <2>1. b # NoBead
    BY <1>3, Ids
  <2> QED
    BY <1>2, <2>1 DEF Sound, MapOK
\* The role-step's own id stays a bead nobody made.
<1>10. Target(call.key) # b /\ Target(call.key) \in Beads
  BY <1>1, <1>3, <1>6, <1>9 DEF Target
<1>11. FlowInv'
  BY <1>1, <1>4, <1>5, <1>8, <1>9, <1>10 DEF Sound, FlowInv
<1> QED
  BY <1>1, <1>7, <1>8, <1>11 DEF Does

LEMMA RecordTells ==
    ASSUME GoalWords, Quiet, Sound, Record PROVE Does
<1>1. /\ call.pc = "record" /\ call.key \in Keys /\ call.bead \in Minted
      /\ bead[call.bead].status = "open" /\ bead[Target(call.key)].status = "missing"
      /\ \A k \in Keys : recorded[k] # call.bead
      /\ UNCHANGED <<bead, orphans>>
  BY DEF Record, Sound, TypeOK, FlowInv
<1>2. recorded' = [recorded EXCEPT ![call.key] = call.bead]
  BY DEF Record, Quiet
<1>3. call.bead # NoBead /\ call.bead \notin Keys
  BY <1>1, Ids DEF Beads
<1>4. Target(call.key)' = call.bead
  <2>1. recorded'[call.key] = call.bead
    BY <1>1, <1>2 DEF Sound, TypeOK
  <2>2. \A k : k = call.key => Target(k)' = call.bead
    BY <1>3, <2>1 DEF Target
  <2>3. call'.key = call.key
    BY DEF Record, Sound, TypeOK, CallType
  <2> QED
    BY <2>2, <2>3
<1>5. \A k \in Keys : k # call.key => Target(k)' = Target(k)
  BY <1>2 DEF Sound, TypeOK, Target
<1>6. call'.pc = "describe" /\ call'.key = call.key /\ call'.ask = call.ask
  BY DEF Record, Sound, TypeOK, CallType
<1>8. \A k \in Keys : Target(k) # call.bead
  BY <1>1, <1>3 DEF Target
<1>9. Ans' = Ans
  BY <1>1, <1>4, <1>5, <1>6, NoNews
<1>10. \A j, k \in Keys : Target(j)' = Target(k)' => j = k
  BY <1>4, <1>5, <1>6, <1>8 DEF Sound, FlowInv
<1>11. FlowInv'
  BY <1>1, <1>6, <1>10 DEF Sound, FlowInv
<1> QED
  BY <1>1, <1>6, <1>9, <1>11 DEF Does

LEMMA TurnTells ==
    ASSUME GoalWords, Quiet, Sound, Describe \/ Waiting PROVE Does
<1>1. /\ call.pc # "idle" /\ call.ask # "artifact"
      /\ UNCHANGED <<bead, recorded, orphans>>
  BY DEF Describe, Waiting, TurnEnds, FailsOver, TurnRaises, Sound, FlowInv
<1>2. AfterTurn = "check"
  BY <1>1 DEF AfterTurn
<1>3. CASE Describe
  <2>1. call'.pc = "turn" /\ call'.key = call.key /\ call'.ask = "work"
    BY <1>3, DescribeDoes DEF Sound, TurnOpens, SameTask
  <2> QED
    BY <1>1, <2>1, MovesOn
<1>4. CASE TurnEnds \/ FailsOver
  <2>1. call'.pc \in {"turn", "check"} /\ call'.key = call.key /\ call'.ask = call.ask
    BY <1>2, <1>4, TurnEndsDoes, FailsOverDoes DEF Sound, SameTask
  <2> QED
    BY <1>1, <2>1, MovesOn
<1>5. CASE TurnRaises
  <2>1. CASE call' = Idle /\ result'.by \in Raises
    BY <1>1, <2>1, GivesUp
  <2>2. CASE SameTask /\ call'.pc = AfterTurn /\ call'.ask = call.ask
    BY <1>1, <1>2, <2>2, MovesOn DEF SameTask
  <2> QED
    BY <1>5, <2>1, <2>2, TurnRaisesDoes DEF Sound
<1> QED
  BY <1>3, <1>4, <1>5 DEF Waiting

\* With no required artifacts a check returns, nudges or goes on to the
\* forced close, and reads what is there.
LEMMA CheckTells ==
    ASSUME GoalWords, Quiet, Sound, Check PROVE Does
<1>1. /\ call.pc = "check" /\ call.key \in Keys /\ call.bead = Target(call.key)
      /\ call \in CallType /\ call.bead \in Beads
      /\ bead[call.bead].status \in {"open", "closed"}
      /\ UNCHANGED <<bead, recorded, orphans>>
  BY DEF Check, Sound, TypeOK, CallOK
<1>2. Probes(call.bead) = {bead[call.bead].status} /\ call.key[1] \notin Required
  BY DEF Probes, Quiet
<1>3. CASE bead[call.bead].status = "closed"
  <2>1. PICK by \in {"agent", "nudge"} :
            Return(Verdict(call.key[1], bead[call.bead].reason), by)
    BY <1>2, <1>3 DEF Check, CloseSeen
  <2>2. by \in Endings
    BY DEF Endings, Closers
  <2> QED
    BY <1>1, <1>3, <2>1, <2>2, Replies
<1>4. CASE bead[call.bead].status = "open" /\ call.ask = "work"
  <2>1. call' = Asking(call, "nudge")
    BY <1>2, <1>4 DEF Check
  <2>2. call'.key = call.key /\ call'.pc = "turn" /\ call'.ask = "nudge"
    BY <1>1, <2>1, AskType DEF Asks
  <2> QED
    BY <1>1, <2>2, MovesOn
<1>5. CASE bead[call.bead].status = "open" /\ call.ask # "work"
  <2>1. call' = [call EXCEPT !.pc = "force"]
    BY <1>2, <1>5 DEF Check
  <2>2. /\ call'.pc = "force" /\ call'.key = call.key /\ call'.bead = call.bead
        /\ call'.ask = call.ask
    BY <1>1, <2>1 DEF CallType
  <2>3. \A k : Target(k)' = Target(k)
    BY <1>1, TargetKept
  <2>4. FlowInv'
    BY <1>1, <1>5, <2>2, <2>3 DEF Sound, FlowInv
  <2> QED
    BY <1>1, <2>2, <2>4, AnsSame DEF Does
<1> QED
  BY <1>1, <1>3, <1>4, <1>5

\* Closing a role-step's open bead answers that role-step and no other.
LEMMA CloseTells ==
    ASSUME GoalWords, Sound, call.key \in Keys, call.bead = Target(call.key),
           bead[call.bead].status = "open", recorded' = recorded, NEW r,
           bead' = [bead EXCEPT ![call.bead] = [status |-> "closed", reason |-> r]]
    PROVE  /\ Ans' = [Ans EXCEPT ![call.key] = Verdict(call.key[1], r)]
           /\ Ans'[call.key] = Verdict(call.key[1], r)
           /\ Adds
<1> DEFINE v == Verdict(call.key[1], r)
<1>1. \A k : Target(k)' = Target(k)
  BY TargetKept
<1>2. \A k \in Keys : Target(k) \in Beads
  BY TargetType DEF Sound, TypeOK
<1>3. \A b \in Beads : bead'[b] = IF b = call.bead THEN [status |-> "closed", reason |-> r]
                                  ELSE bead[b]
  BY DEF Sound, TypeOK
<1>4. ASSUME NEW k \in Keys, k = call.key PROVE AnsNext(k) = v
  BY <1>1, <1>2, <1>3, <1>4 DEF AnsNext, Says
<1>5. ASSUME NEW k \in Keys, k # call.key PROVE AnsNext(k) = Ans[k]
  <2>1. Target(k) # call.bead
    BY <1>5 DEF Sound, FlowInv
  <2> QED
    BY <1>1, <1>2, <1>3, <2>1 DEF AnsNext, Ans
<1>6. Ans[call.key] = "none"
  BY DEF Ans, Says
<1>7. v \in Contract!Verdicts(call.key[1]) \ {"none"}
  BY KeysAre, VerdictIs
<1> HIDE DEF v
<1>8. Ans' = [Ans EXCEPT ![call.key] = v]
  <2>1. Ans' = [k \in Keys |-> IF k = call.key THEN v ELSE Ans[k]]
    BY <1>4, <1>5, AnsPrimed
  <2> QED
    BY <2>1 DEF Ans
<1>9. Ans'[call.key] = v
  BY <1>8 DEF Ans
<1> QED
  BY <1>6, <1>7, <1>8, <1>9 DEF Adds, v

LEMMA ForceTells ==
    ASSUME GoalWords, Quiet, Sound, ForceClose PROVE Does
<1>1. /\ call.pc = "force" /\ call.key \in Keys /\ call.bead = Target(call.key)
      /\ bead[call.bead].status = "open" /\ UNCHANGED <<recorded, orphans>>
  BY DEF ForceClose, Sound, TypeOK, CallOK, FlowInv
<1>2. bead' = [bead EXCEPT ![call.bead] = [status |-> "closed", reason |-> ForceReason]]
  BY <1>1 DEF ForceClose
<1>3. /\ Ans'[call.key] = Verdict(call.key[1], ForceReason)
      /\ Adds
  BY <1>1, <1>2, CloseTells
<1>4. Ans'[call.key] = "complete"
  BY <1>1, <1>3, ForcedIs, KeysAre
<1>5. /\ call' = Idle
      /\ result' = [key |-> call.key, verdict |-> "failed", by |-> "force"]
  BY DEF ForceClose, Return
<1>6. call'.pc = "idle" /\ call'.ask = "none"
  BY <1>5 DEF Idle
<1>7. \A k : Target(k)' = Target(k)
  BY <1>1, TargetKept
<1>8. FlowInv'
  BY <1>1, <1>6, <1>7 DEF Sound, FlowInv
<1>9. result'.by \in Endings /\ result'.verdict = "failed"
  BY <1>5 DEF Endings
<1>10. \A k \in Keys : k = call.key => EndsWell(k)'
  BY <1>4, <1>9 DEF EndsWell, Spoken
<1> QED
  BY <1>1, <1>3, <1>6, <1>8, <1>10 DEF Does

\* Agents that work for nobody, and required artifacts, there are none of.
LEMMA AgentsTell ==
    ASSUME GoalWords, Quiet, Sound, Agents PROVE Does
<1>1. AgentCloses
  BY DEF Agents, OrphanCloses, AgentWritesArtifact, Sound, FlowInv, Quiet
<1>2. /\ call.pc = "turn" /\ call.key \in Keys /\ call.bead = Target(call.key)
      /\ bead[call.bead].status = "open" /\ UNCHANGED <<recorded, orphans, call>>
  BY <1>1 DEF AgentCloses, Sound, TypeOK, CallOK
<1>3. PICK r \in CloseReasons[call.key[1]] :
          bead' = [bead EXCEPT ![call.bead] = [status |-> "closed", reason |-> r]]
  BY <1>1 DEF AgentCloses
<1>4. Adds
  BY <1>2, <1>3, CloseTells
<1>5. \A k : Target(k)' = Target(k)
  BY <1>2, TargetKept
<1>6. FlowInv'
  BY <1>2, <1>5 DEF Sound, FlowInv
<1> QED
  BY <1>2, <1>4, <1>6 DEF Does

LEMMA FaultsTell ==
    ASSUME GoalWords, Quiet, Sound, Faults PROVE Does
<1>1. ShellFails \/ Crash
  BY DEF Faults, RecordTorn, Quiet
<1>2. /\ call.pc # "idle" /\ call' = Idle
      /\ result' = [key |-> call.key, verdict |-> "", by |-> "error"]
      /\ UNCHANGED <<bead, recorded, orphans>>
  BY <1>1 DEF ShellFails, Crash, Raise, Quiet
<1>3. result'.by \in Raises
  BY <1>2 DEF Raises
<1> QED
  BY <1>2, <1>3, GivesUp

LEMMA StepTells ==
    ASSUME GoalWords, Quiet, Sound, FlowStep \/ Agents \/ Faults PROVE Does
<1>1. ~ CheckArtifacts
  BY DEF CheckArtifacts, Sound, FlowInv
<1> QED
  BY <1>1, ProbeTells, CreateTells, MintTells, RecordTells, TurnTells, CheckTells,
     ForceTells, AgentsTell, FaultsTell DEF FlowStep

-----------------------------------------------------------------------------
(* The order of the answers.                                               *)

\* Every role-step before k was answered, and the loop went on.
Prior(k) ==
    /\ \A j \in 1..MaxIters : j < k[2] => GoesOn(<<"actor", j>>) /\ GoesOn(<<"critic", j>>)
    /\ k[1] = "critic" => GoesOn(<<"actor", k[2]>>)

EndedAt(o) ==
    \/ o = "success" /\ \E i \in 1..MaxIters : Ans[<<"critic", i>>] = "approved"
    \/ o = "abandoned-critic" /\ \E i \in 1..MaxIters : Ans[<<"critic", i>>] = "infeasible"
    \/ o = "abandoned-actor" /\ \E i \in 1..MaxIters : Ans[<<"actor", i>>] = "unable"
    \/ o = "exhausted" /\ GoesOn(<<"critic", MaxIters>>)

Outcomes == {"success", "abandoned-critic", "abandoned-actor", "exhausted"}

Chain == \A k \in Keys : Ans[k] # "none" => Prior(k)

\* The role-step the loop waits for.
Current == <<loop.pc, loop.i>>

LoopInv ==
    /\ loop.pc = "idle" => call.pc = "idle"
    /\ loop.pc # "idle" => /\ Prior(Current)
                           /\ call.pc # "idle" => call.key = Current
                           /\ call.pc = "idle" => EndsWell(Current)
    /\ Chain
    /\ outcome # "none" => EndedAt(outcome)

\* Answers are for good, and so is all that follows from them.
Grows == \A k \in Keys : Ans[k] # "none" => Ans'[k] = Ans[k]

LEMMA Lasting ==
    ASSUME Grows
    PROVE  /\ \A k \in Keys : GoesOn(k) => GoesOn(k)'
           /\ \A k \in Keys : Prior(k) => Prior(k)'
           /\ \A o : EndedAt(o) => EndedAt(o)'
<1>1. \A j \in 1..MaxIters : <<"actor", j>> \in Keys /\ <<"critic", j>> \in Keys
  BY KeysAre
<1>2. ASSUME NEW k \in Keys, GoesOn(k) PROVE GoesOn(k)'
  BY <1>2 DEF Grows, GoesOn
<1>3. ASSUME NEW k \in Keys, Prior(k) PROVE Prior(k)'
  <2>1. k[2] \in 1..MaxIters
    BY KeysAre
  <2>2. ASSUME NEW j \in 1..MaxIters, j < k[2]
        PROVE  GoesOn(<<"actor", j>>)' /\ GoesOn(<<"critic", j>>)'
    BY <1>1, <1>2, <1>3, <2>2 DEF Prior
  <2>3. k[1] = "critic" => GoesOn(<<"actor", k[2]>>)'
    BY <1>1, <1>2, <1>3, <2>1 DEF Prior
  <2> QED
    BY <2>2, <2>3 DEF Prior
<1>4. ASSUME NEW o, EndedAt(o) PROVE EndedAt(o)'
  <2>1. MaxIters \in 1..MaxIters
    BY KeysAre
  <2>2. GoesOn(<<"critic", MaxIters>>) => GoesOn(<<"critic", MaxIters>>)'
    BY <1>1, <1>2, <2>1
  <2>3. \A j \in 1..MaxIters :
            /\ Ans[<<"critic", j>>] # "none" => Ans'[<<"critic", j>>] = Ans[<<"critic", j>>]
            /\ Ans[<<"actor", j>>] # "none" => Ans'[<<"actor", j>>] = Ans[<<"actor", j>>]
    BY <1>1 DEF Grows
  <2> QED
    BY <1>4, <2>2, <2>3 DEF EndedAt
<1> QED
  BY <1>2, <1>3, <1>4

\* Only one role-step can end the loop, so all its runs end alike.
LEMMA OneEnd ==
    ASSUME Chain, NEW o, NEW p, EndedAt(o), EndedAt(p)
    PROVE  o = p
<1> DEFINE Last(k) == Ans[k] # "none" /\ ~ GoesOn(k)
<1>1. /\ MaxIters \in Nat \ {0} /\ MaxIters \in 1..MaxIters
      /\ \A i \in 1..MaxIters : <<"actor", i>> \in Keys /\ <<"critic", i>> \in Keys
  BY KeysAre
<1>2. ASSUME NEW k \in Keys, NEW j \in Keys, Last(k), Ans[j] # "none"
      PROVE  ~ (k[2] < j[2]) /\ ~ (k[2] = j[2] /\ k[1] = "actor" /\ j[1] = "critic")
  <2>1. Prior(j) /\ k = <<k[1], k[2]>> /\ k[1] \in {"actor", "critic"} /\ k[2] \in 1..MaxIters
    BY <1>2, KeysAre DEF Chain
  <2>2. CASE k[2] < j[2]
    <3>1. GoesOn(<<"actor", k[2]>>) /\ GoesOn(<<"critic", k[2]>>)
      BY <2>1, <2>2 DEF Prior
    <3> QED
      BY <1>2, <2>1, <3>1
  <2>3. CASE k[2] = j[2] /\ k[1] = "actor" /\ j[1] = "critic"
    <3>1. GoesOn(<<"actor", k[2]>>)
      BY <2>1, <2>3 DEF Prior
    <3> QED
      BY <1>2, <2>1, <2>3, <3>1
  <2> QED
    BY <2>2, <2>3
<1>3. ASSUME NEW k \in Keys, NEW j \in Keys, Last(k), Last(j) PROVE k = j
  <2>1. /\ k[2] \in Int /\ j[2] \in Int /\ k = <<k[1], k[2]>> /\ j = <<j[1], j[2]>>
        /\ k[1] \in {"actor", "critic"} /\ j[1] \in {"actor", "critic"}
    BY KeysAre
  <2>2. ~ (k[2] < j[2]) /\ ~ (k[2] = j[2] /\ k[1] = "actor" /\ j[1] = "critic")
    BY <1>2, <1>3
  <2>3. ~ (j[2] < k[2]) /\ ~ (j[2] = k[2] /\ j[1] = "actor" /\ k[1] = "critic")
    BY <1>2, <1>3
  <2>4. k[2] = j[2]
    BY <2>1, <2>2, <2>3
  <2>5. k[1] = j[1]
    BY <2>1, <2>2, <2>3, <2>4
  <2> QED
    BY <2>1, <2>4, <2>5
<1>4. ASSUME GoesOn(<<"critic", MaxIters>>), NEW k \in Keys PROVE ~ Last(k)
  <2> DEFINE e == <<"critic", MaxIters>>
  <2>1. e \in Keys /\ Ans[e] # "none" /\ e[1] = "critic" /\ e[2] = MaxIters
    BY <1>1, <1>4 DEF GoesOn
  <2>2. Prior(e)
    BY <2>1 DEF Chain
  <2>3. k = <<k[1], k[2]>> /\ k[1] \in {"actor", "critic"} /\ k[2] \in 1..MaxIters
    BY KeysAre
  <2> HIDE DEF e
  <2>4. CASE k[2] < MaxIters
    <3>1. GoesOn(<<"actor", k[2]>>) /\ GoesOn(<<"critic", k[2]>>)
      BY <2>1, <2>2, <2>3, <2>4 DEF Prior
    <3> QED
      BY <2>3, <3>1
  <2>5. CASE k[2] = MaxIters
    <3>1. GoesOn(<<"actor", MaxIters>>)
      BY <2>1, <2>2 DEF Prior
    <3> QED
      BY <1>4, <2>3, <2>5, <3>1
  <2> QED
    BY <1>1, <2>3, <2>4, <2>5
<1>5. ASSUME NEW q, EndedAt(q)
      PROVE  \/ q = "exhausted" /\ GoesOn(<<"critic", MaxIters>>)
             \/ \E k \in Keys : /\ Last(k)
                                /\ \/ q = "success" /\ Ans[k] = "approved" /\ k[1] = "critic"
                                   \/ q = "abandoned-critic" /\ Ans[k] = "infeasible"
                                        /\ k[1] = "critic"
                                   \/ q = "abandoned-actor" /\ Ans[k] = "unable"
                                        /\ k[1] = "actor"
  <2>1. CASE q = "success"
    <3>1. PICK i \in 1..MaxIters : Ans[<<"critic", i>>] = "approved"
      BY <1>5, <2>1 DEF EndedAt
    <3>2. Last(<<"critic", i>>)
      BY <3>1 DEF GoesOn
    <3> QED
      BY <1>1, <2>1, <3>1, <3>2
  <2>2. CASE q = "abandoned-critic"
    <3>1. PICK i \in 1..MaxIters : Ans[<<"critic", i>>] = "infeasible"
      BY <1>5, <2>2 DEF EndedAt
    <3>2. Last(<<"critic", i>>)
      BY <3>1 DEF GoesOn
    <3> QED
      BY <1>1, <2>2, <3>1, <3>2
  <2>3. CASE q = "abandoned-actor"
    <3>1. PICK i \in 1..MaxIters : Ans[<<"actor", i>>] = "unable"
      BY <1>5, <2>3 DEF EndedAt
    <3>2. Last(<<"actor", i>>)
      BY <3>1 DEF GoesOn
    <3> QED
      BY <1>1, <2>3, <3>1, <3>2
  <2> QED
    BY <1>5, <2>1, <2>2, <2>3 DEF EndedAt
<1> HIDE DEF Last
<1>6. CASE GoesOn(<<"critic", MaxIters>>)
  BY <1>4, <1>5, <1>6
<1>7. CASE ~ GoesOn(<<"critic", MaxIters>>)
  <2>1. PICK k \in Keys : /\ Last(k)
                          /\ \/ o = "success" /\ Ans[k] = "approved" /\ k[1] = "critic"
                             \/ o = "abandoned-critic" /\ Ans[k] = "infeasible"
                                  /\ k[1] = "critic"
                             \/ o = "abandoned-actor" /\ Ans[k] = "unable" /\ k[1] = "actor"
    BY <1>5, <1>7
  <2>2. PICK j \in Keys : /\ Last(j)
                          /\ \/ p = "success" /\ Ans[j] = "approved" /\ j[1] = "critic"
                             \/ p = "abandoned-critic" /\ Ans[j] = "infeasible"
                                  /\ j[1] = "critic"
                             \/ p = "abandoned-actor" /\ Ans[j] = "unable" /\ j[1] = "actor"
    BY <1>5, <1>7
  <2>3. k = j
    BY <1>3, <2>1, <2>2
  <2> QED
    BY <2>1, <2>2, <2>3
<1> QED
  BY <1>6, <1>7

-----------------------------------------------------------------------------
(* Each step of the loop is a step of the contract or none.                *)

LEMMA IsAnswer ==
    ASSUME NEW k \in Keys, Ans[k] = "none", Prior(k),
           NEW v \in Contract!Verdicts(k[1]), Ans' = [Ans EXCEPT ![k] = v],
           outcome' = outcome
    PROVE  Contract!Next
<1>1. k = <<k[1], k[2]>> /\ k[1] \in {"actor", "critic"} /\ k[2] \in 1..MaxIters
  BY KeysAre
<1>2. Contract!Due(k)
  <2>1. CASE k[1] = "critic"
    BY <1>1, <2>1, Mapped DEF Prior, Contract!Due
  <2>2. CASE k[1] = "actor" /\ k[2] = 1
    BY <1>1, <2>2 DEF Contract!Due
  <2>3. CASE k[1] = "actor" /\ k[2] # 1
    <3>1. k[2] > 1 /\ k[2] - 1 \in 1..MaxIters /\ k[2] - 1 < k[2]
      BY <1>1, <2>3, KeysAre
    <3>2. GoesOn(<<"critic", k[2] - 1>>)
      BY <3>1 DEF Prior
    <3> QED
      BY <2>3, <3>1, <3>2, Mapped DEF Contract!Due
  <2> QED
    BY <1>1, <2>1, <2>2, <2>3
<1>3. Contract!Answer(k)
  BY <1>2 DEF Contract!Answer, Ans, Says
<1>4. k \in Contract!RoleSteps
  BY KeysAre DEF Contract!RoleSteps
<1> QED
  BY <1>3, <1>4 DEF Contract!Next

LEMMA IsReport ==
    ASSUME Ans' = Ans, outcome = "none", outcome' \in Outcomes, EndedAt(outcome')
    PROVE  Contract!Next
<1>1. Contract!Ended(outcome')
  BY Mapped DEF EndedAt, Contract!Ended, Ans, Says
<1>2. Contract!Report
  BY <1>1 DEF Contract!Report, Outcomes, Ans, Says
<1> QED
  BY <1>2 DEF Contract!Next

LEMMA IsStutter ==
    ASSUME Ans' = Ans, outcome' = outcome
    PROVE  UNCHANGED Contract!cvars
BY DEF Contract!cvars, Ans, Says

LEMMA CurrentIs ==
    ASSUME LoopTypeOK, loop.pc # "idle"
    PROVE  Current \in Keys /\ Current[1] = loop.pc /\ Current[2] = loop.i
BY KeysAre DEF LoopTypeOK, Current

\* A step of the call is the answer of the role-step the loop waits for.
LEMMA WorkImplements ==
    ASSUME GoalWords, LoopTypeOK, LoopInv, Does, UNCHANGED loopVars
    PROVE  LoopInv' /\ [Contract!Next]_(Contract!cvars)
<1>1. loop.pc # "idle" /\ call.key = Current /\ Prior(Current) /\ loop' = loop
  BY DEF LoopInv, Does, loopVars
<1>2. Current \in Keys
  BY <1>1, CurrentIs
<1>3. outcome' = outcome
  BY DEF loopVars
<1>4. Grows
  BY DEF Does, Adds, Grows, Ans
<1>5. PICK c \in Keys : c = Current
  BY <1>2
<1>6. Current' = c
  BY <1>1, <1>5 DEF Current
<1>7. Prior(c) /\ Prior(c)'
  BY <1>1, <1>4, <1>5, Lasting
<1>8. Chain'
  <2> SUFFICES ASSUME NEW k \in Keys, Ans'[k] # "none" PROVE Prior(k)'
    BY DEF Chain
  <2>1. CASE k = c
    BY <1>7, <2>1
  <2>2. CASE k # c
    <3>1. Ans[k] # "none"
      BY <1>1, <1>5, <2>2 DEF Does, Adds, Ans
    <3> QED
      BY <1>4, <3>1, Lasting DEF LoopInv, Chain
  <2> QED
    BY <2>1, <2>2
<1>9. outcome' # "none" => EndedAt(outcome)'
  <2>1. PICK o : o = outcome
    OBVIOUS
  <2>2. o # "none" => EndedAt(o)'
    BY <1>4, <2>1, Lasting DEF LoopInv
  <2> QED
    BY <1>3, <2>1, <2>2 DEF EndedAt
<1>10. LoopInv'
  <2>1. call'.pc # "idle" => call'.key = c
    BY <1>1, <1>5 DEF Does
  <2>2. call'.pc = "idle" => EndsWell(c)'
    BY <1>1, <1>5 DEF Does
  <2>3. Prior(Current)'
    BY <1>6, <1>7 DEF Prior
  <2>4. call'.pc = "idle" => EndsWell(Current)'
    BY <1>6, <2>2 DEF EndsWell, Spoken
  <2> QED
    BY <1>1, <1>6, <1>8, <1>9, <2>1, <2>3, <2>4 DEF LoopInv
<1>11. CASE Ans' = Ans
  BY <1>3, <1>10, <1>11, IsStutter
<1>12. CASE Adds
  <2>1. PICK v \in Contract!Verdicts(c[1]) : Ans[c] = "none" /\ Ans' = [Ans EXCEPT ![c] = v]
    BY <1>1, <1>5, <1>12 DEF Adds
  <2> QED
    BY <1>3, <1>7, <1>10, <2>1, IsAnswer
<1> QED
  BY <1>11, <1>12 DEF Does

\* The loop calls the next step, which is a stutter of the contract.
LEMMA CallImplements ==
    ASSUME LoopInv, NEW k \in Keys, Call(k), TypeOK, Prior(k),
           loop'.pc = k[1], loop'.i = k[2], outcome' = outcome
    PROVE  LoopInv' /\ UNCHANGED Contract!cvars
<1>1. Ans' = Ans
  BY AnsSame DEF Call
<1>2. Grows
  BY <1>1 DEF Grows
<1>3. call'.pc = "probe" /\ call'.key = k
  BY CallKeepsType
<1>4. k = <<k[1], k[2]>> /\ k[1] # "idle"
  BY KeysAre
<1>5. Current' = k
  BY <1>4 DEF Current
<1>6. Prior(k)'
  BY <1>2, Lasting
<1>7. Prior(Current)'
  BY <1>5, <1>6 DEF Prior
<1>8. Chain'
  <2> SUFFICES ASSUME NEW j \in Keys, Ans'[j] # "none" PROVE Prior(j)'
    BY DEF Chain
  <2> QED
    BY <1>1, <1>2, Lasting DEF LoopInv, Chain
<1>9. outcome' # "none" => EndedAt(outcome)'
  <2>1. PICK o : o = outcome
    OBVIOUS
  <2>2. o # "none" => EndedAt(o)'
    BY <1>2, <2>1, Lasting DEF LoopInv
  <2> QED
    BY <2>1, <2>2 DEF EndedAt
<1>10. LoopInv'
  BY <1>3, <1>4, <1>5, <1>7, <1>8, <1>9 DEF LoopInv
<1> QED
  BY <1>1, <1>10, IsStutter

\* A run ends: if none ended before this is the report, else it says the same.
LEMMA EndImplements ==
    ASSUME LoopInv, NEW o \in Outcomes, EndedAt(o), Conclude(o), call.pc = "idle"
    PROVE  LoopInv' /\ [Contract!Next]_(Contract!cvars)
<1>1. /\ outcome' = o /\ loop' = Stopped /\ call' = call
      /\ UNCHANGED <<bead, recorded>>
  BY DEF Conclude, vars
<1>2. Ans' = Ans
  BY <1>1, AnsSame
<1>3. Grows
  BY <1>2 DEF Grows
<1>4. Chain'
  <2> SUFFICES ASSUME NEW j \in Keys, Ans'[j] # "none" PROVE Prior(j)'
    BY DEF Chain
  <2> QED
    BY <1>2, <1>3, Lasting DEF LoopInv, Chain
<1>5. EndedAt(o)'
  BY <1>3, Lasting
<1>6. EndedAt(outcome)'
  BY <1>1, <1>5 DEF EndedAt
<1>7. loop'.pc = "idle"
  BY <1>1 DEF Stopped
<1>8. LoopInv'
  BY <1>1, <1>4, <1>6, <1>7 DEF LoopInv
<1>9. CASE outcome = "none"
  BY <1>1, <1>2, <1>8, <1>9, IsReport
<1>10. CASE outcome # "none"
  <2>1. outcome = o
    BY <1>10, OneEnd DEF LoopInv
  <2> QED
    BY <1>1, <1>2, <1>8, <2>1, IsStutter
<1> QED
  BY <1>9, <1>10

\* What the loop knows when its step has returned.
LEMMA Heard ==
    ASSUME LoopTypeOK, LoopInv, NEW step \in {"actor", "critic"}, Returned(step)
    PROVE  /\ loop.pc = step /\ loop.i \in 1..MaxIters /\ call.pc = "idle"
           /\ Current = <<step, loop.i>> /\ Current \in Keys
           /\ Prior(Current) /\ Spoken(Current)
<1>1. loop.pc = step /\ call.pc = "idle" /\ result.by \in Endings
  BY DEF Returned
<1>2. loop.pc # "idle" /\ loop.i \in 1..MaxIters
  BY <1>1, BoundsAssumption DEF LoopTypeOK
<1>3. result.by \notin Raises
  BY <1>1 DEF Endings, Closers, Raises
<1> QED
  BY <1>1, <1>2, <1>3, CurrentIs DEF LoopInv, EndsWell, Current

LEMMA ActorImplements ==
    ASSUME LoopTypeOK, LoopInv, ActorGivesUp \/ ActorReports
    PROVE  LoopInv' /\ [Contract!Next]_(Contract!cvars)
<1> DEFINE k == <<"actor", loop.i>>
<1>1. Returned("actor")
  BY DEF ActorGivesUp, ActorReports
<1>2. /\ loop.pc = "actor" /\ loop.i \in 1..MaxIters /\ call.pc = "idle" /\ k \in Keys
      /\ Prior(k) /\ Ans[k] # "none"
      /\ result.verdict = Ans[k] \/ (result.verdict = "failed" /\ Ans[k] = "complete")
  BY <1>1, Heard DEF Spoken
<1>3. CASE ActorGivesUp
  <2>1. Ans[k] = "unable"
    BY <1>2, <1>3 DEF ActorGivesUp
  <2>2. EndedAt("abandoned-actor")
    BY <1>2, <2>1 DEF EndedAt
  <2> QED
    BY <1>2, <1>3, <2>2, EndImplements DEF ActorGivesUp, Outcomes
<1>4. CASE ActorReports
  <2> DEFINE c == <<"critic", loop.i>>
  <2>1. GoesOn(k)
    BY <1>2, <1>4 DEF ActorReports, GoesOn
  <2>2. c \in Keys /\ Prior(c)
    BY <1>2, <2>1, KeysAre DEF Prior
  <2>3. Call(c) /\ loop'.pc = "critic" /\ loop'.i = loop.i /\ outcome' = outcome
    BY <1>4 DEF ActorReports, LoopTypeOK
  <2> HIDE DEF k
  <2>4. c[1] = "critic" /\ c[2] = loop.i
    OBVIOUS
  <2> HIDE DEF c
  <2> QED
    BY <2>2, <2>3, <2>4, CallImplements DEF LoopTypeOK
<1> QED
  BY <1>3, <1>4

LEMMA CriticImplements ==
    ASSUME LoopTypeOK, LoopInv, CriticApproves \/ CriticAbandons \/ CriticRejects
    PROVE  LoopInv' /\ [Contract!Next]_(Contract!cvars)
<1> DEFINE k == <<"critic", loop.i>>
<1>1. Returned("critic")
  BY DEF CriticApproves, CriticAbandons, CriticRejects
<1>2. /\ loop.pc = "critic" /\ loop.i \in 1..MaxIters /\ call.pc = "idle" /\ k \in Keys
      /\ Prior(k) /\ Ans[k] # "none"
      /\ result.verdict = Ans[k] \/ (result.verdict = "failed" /\ Ans[k] = "complete")
  BY <1>1, Heard DEF Spoken
<1>3. CASE CriticApproves
  <2>1. Ans[k] = "approved"
    BY <1>2, <1>3 DEF CriticApproves
  <2>2. EndedAt("success")
    BY <1>2, <2>1 DEF EndedAt
  <2> QED
    BY <1>2, <1>3, <2>2, EndImplements DEF CriticApproves, Outcomes
<1>4. CASE CriticAbandons
  <2>1. Ans[k] = "infeasible"
    BY <1>2, <1>4 DEF CriticAbandons
  <2>2. EndedAt("abandoned-critic")
    BY <1>2, <2>1 DEF EndedAt
  <2> QED
    BY <1>2, <1>4, <2>2, EndImplements DEF CriticAbandons, Outcomes
<1>5. CASE CriticRejects
  <2>1. GoesOn(k)
    BY <1>2, <1>5 DEF CriticRejects, GoesOn
  <2>2. CASE loop.i < MaxIters
    <3> DEFINE a == <<"actor", loop.i + 1>>
    <3>1. loop.i \in Nat /\ loop.i + 1 \in 1..MaxIters
      BY <1>2, <2>2, KeysAre
    <3>2. a \in Keys /\ a[1] = "actor" /\ a[2] = loop.i + 1
      BY <3>1, KeysAre
    <3>3. GoesOn(<<"actor", loop.i>>)
      BY <1>2 DEF Prior
    <3>4. Prior(a)
      <4>1. ASSUME NEW j \in 1..MaxIters, j < loop.i + 1
            PROVE  GoesOn(<<"actor", j>>) /\ GoesOn(<<"critic", j>>)
        <5>1. CASE j < loop.i
          BY <1>2, <5>1 DEF Prior
        <5>2. CASE j = loop.i
          BY <2>1, <3>3, <5>2
        <5> QED
          BY <3>1, <4>1, <5>1, <5>2
      <4> HIDE DEF k
      <4> QED
        BY <3>2, <4>1 DEF Prior
    <3>5. Call(a) /\ loop'.pc = "actor" /\ loop'.i = loop.i + 1 /\ outcome' = outcome
      BY <1>5, <2>2 DEF CriticRejects
    <3> HIDE DEF a, k
    <3> QED
      BY <3>2, <3>4, <3>5, CallImplements DEF LoopTypeOK
  <2>3. CASE ~ (loop.i < MaxIters)
    <3>1. loop.i = MaxIters
      BY <1>2, <2>3, KeysAre
    <3>2. EndedAt("exhausted")
      BY <2>1, <3>1 DEF EndedAt
    <3>3. Conclude("exhausted")
      BY <1>5, <2>3 DEF CriticRejects
    <3> QED
      BY <1>2, <3>2, <3>3, EndImplements DEF Outcomes
  <2> QED
    BY <2>2, <2>3
<1> QED
  BY <1>3, <1>4, <1>5

\* A run that fails leaves the answers to the next, which starts over.
LEMMA RunImplements ==
    ASSUME LoopTypeOK, LoopInv, RunStarts \/ RunFails
    PROVE  LoopInv' /\ [Contract!Next]_(Contract!cvars)
<1>1. CASE RunStarts
  <2> DEFINE k == <<"actor", 1>>
  <2>1. k \in Keys /\ k[1] = "actor" /\ k[2] = 1
    BY KeysAre
  <2>2. Prior(k)
    BY <2>1, KeysAre DEF Prior
  <2>3. Call(k) /\ loop'.pc = "actor" /\ loop'.i = 1 /\ outcome' = outcome
    BY <1>1 DEF RunStarts
  <2> HIDE DEF k
  <2> QED
    BY <2>1, <2>2, <2>3, CallImplements DEF LoopTypeOK
<1>2. CASE RunFails
  <2>1. /\ call.pc = "idle" /\ call' = call /\ loop'.pc = "idle" /\ outcome' = outcome
        /\ UNCHANGED <<bead, recorded>>
    BY <1>2 DEF RunFails, Stopped, vars
  <2>2. Ans' = Ans
    BY <2>1, AnsSame
  <2>3. Grows
    BY <2>2 DEF Grows
  <2>4. Chain'
    <3> SUFFICES ASSUME NEW j \in Keys, Ans'[j] # "none" PROVE Prior(j)'
      BY DEF Chain
    <3> QED
      BY <2>2, <2>3, Lasting DEF LoopInv, Chain
  <2>5. outcome' # "none" => EndedAt(outcome)'
    <3>1. PICK o : o = outcome
      OBVIOUS
    <3>2. o # "none" => EndedAt(o)'
      BY <2>3, <3>1, Lasting DEF LoopInv
    <3> QED
      BY <2>1, <3>1, <3>2 DEF EndedAt
  <2> QED
    BY <2>1, <2>2, <2>4, <2>5, IsStutter DEF LoopInv
<1> QED
  BY <1>1, <1>2

-----------------------------------------------------------------------------
(* The theorems.                                                           *)

\* A step of the loop is a step of agent_step's specification.
LEMMA StepOfCalls ==
    ASSUME LoopTypeOK, [LoopNext]_allVars
    PROVE  [Next]_vars
<1>1. CASE RunStarts
  BY <1>1, KeysAre DEF RunStarts, Next
<1>2. CASE ActorReports
  <2>1. <<"critic", loop.i>> \in Keys
    BY <1>2, Heard, KeysAre, BoundsAssumption DEF ActorReports, Returned, LoopTypeOK
  <2> QED
    BY <1>2, <2>1 DEF ActorReports, Next
<1>3. CASE CriticRejects
  <2>1. CASE loop.i < MaxIters
    <3>1. loop.i \in Nat /\ loop.i + 1 \in 1..MaxIters
      BY <2>1, KeysAre DEF LoopTypeOK
    <3>2. <<"actor", loop.i + 1>> \in Keys
      BY <3>1, KeysAre
    <3> QED
      BY <1>3, <2>1, <3>2 DEF CriticRejects, Next
  <2>2. CASE ~ (loop.i < MaxIters)
    BY <1>3, <2>2 DEF CriticRejects, Conclude
  <2> QED
    BY <2>1, <2>2
<1>4. CASE ActorGivesUp \/ CriticApproves \/ CriticAbandons \/ RunFails
  BY <1>4 DEF ActorGivesUp, CriticApproves, CriticAbandons, RunFails, Conclude
<1>5. CASE (FlowStep \/ Agents \/ Faults) /\ UNCHANGED loopVars
  BY <1>5 DEF Next
<1>6. CASE UNCHANGED allVars
  BY <1>6 DEF allVars
<1> QED
  BY <1>1, <1>2, <1>3, <1>4, <1>5, <1>6 DEF LoopNext, LoopStep

LEMMA LoopType == LoopTypeOK /\ [LoopNext]_allVars => LoopTypeOK'
<1> SUFFICES ASSUME LoopTypeOK, [LoopNext]_allVars PROVE LoopTypeOK'
  OBVIOUS
<1>1. TypeOK'
  BY StepOfCalls, NextType DEF LoopTypeOK
<1>2. /\ loop \in [pc : {"idle", "actor", "critic"}, i : 0..MaxIters]
      /\ loop.pc # "idle" => loop.i > 0
      /\ MaxIters \in Nat \ {0} /\ MaxRuns \in Nat /\ runs \in 0..MaxRuns
      /\ outcome \in {"none"} \cup Outcomes
  BY KeysAre, LoopAssumption DEF LoopTypeOK, Outcomes
<1>3. /\ Stopped \in [pc : {"idle", "actor", "critic"}, i : 0..MaxIters]
      /\ Stopped.pc = "idle"
  BY <1>2 DEF Stopped
<1>4. /\ loop' \in [pc : {"idle", "actor", "critic"}, i : 0..MaxIters]
      /\ loop'.pc # "idle" => loop'.i > 0
      /\ runs' \in 0..MaxRuns
      /\ outcome' \in {"none"} \cup Outcomes
  <2>1. CASE RunStarts
    BY <1>2, <2>1 DEF RunStarts
  <2>2. CASE ActorReports
    BY <1>2, <2>2 DEF ActorReports, Returned
  <2>3. CASE CriticRejects
    BY <1>2, <1>3, <2>3 DEF CriticRejects, Conclude, Outcomes
  <2>4. CASE ActorGivesUp \/ CriticApproves \/ CriticAbandons \/ RunFails
    BY <1>2, <1>3, <2>4
       DEF ActorGivesUp, CriticApproves, CriticAbandons, RunFails, Conclude, Outcomes
  <2>5. CASE UNCHANGED loopVars
    BY <1>2, <2>5 DEF loopVars
  <2>6. UNCHANGED allVars => UNCHANGED loopVars
    BY DEF allVars, loopVars
  <2> QED
    BY <2>1, <2>2, <2>3, <2>4, <2>5, <2>6 DEF LoopNext, LoopStep
<1> QED
  BY <1>1, <1>4 DEF LoopTypeOK, Outcomes

\* Every reachable state of the loop is well typed.
THEOREM LoopTyping == LoopSpec => []LoopTypeOK
<1>1. LoopInit => LoopTypeOK
  BY InitType, LoopAssumption, KeysAre DEF LoopInit, LoopTypeOK, Stopped
<1>2. LoopTypeOK /\ [LoopNext]_allVars => LoopTypeOK'
  BY LoopType
<1> QED
  BY <1>1, <1>2, PTL DEF LoopSpec

\* The inductive invariant of the refinement.
LInv == LoopTypeOK /\ StepInv /\ FlowInv /\ LoopInv

LEMMA LoopStarts ==
    ASSUME Quiet, LoopInit
    PROVE  LInv /\ Contract!Init
<1>1. /\ Init /\ loop = Stopped /\ runs = 0 /\ outcome = "none" /\ call = Idle
      /\ orphans = {} /\ recorded = [k \in Keys |-> NoBead]
      /\ bead = [b \in Beads |-> [status |-> "missing", reason |-> NoReason]]
  BY DEF LoopInit, Init
<1>2. loop.pc = "idle" /\ call.pc = "idle" /\ call.ask = "none"
  BY <1>1 DEF Stopped, Idle
<1>3. \A k \in Keys : Target(k) = k /\ k \in Beads
  BY <1>1 DEF Target, Beads
<1>4. Ans = [k \in Keys |-> "none"]
  BY <1>1, <1>3 DEF Ans, Says
<1>5. LoopTypeOK
  BY <1>1, InitType, LoopAssumption, KeysAre DEF LoopTypeOK, Stopped
<1>6. FlowInv
  BY <1>1, <1>2, <1>3 DEF FlowInv
<1>7. LoopInv
  BY <1>1, <1>2, <1>4 DEF LoopInv, Chain
<1>8. Contract!RoleSteps = Keys
  BY KeysAre DEF Contract!RoleSteps
<1>9. Contract!Init
  BY <1>1, <1>4, <1>8 DEF Contract!Init, Ans, Says
<1> QED
  BY <1>1, <1>5, <1>6, <1>7, <1>9, StepInvInit DEF LInv

\* What the calls rest on, at a step of the loop itself.
LEMMA FlowKept ==
    ASSUME FlowInv, UNCHANGED <<bead, recorded, orphans>>,
           call' = call \/ \E k \in Keys : Call(k)
    PROVE  FlowInv'
<1>1. \A k : Target(k)' = Target(k)
  BY TargetKept
<1>2. CASE call' = call
  BY <1>1, <1>2 DEF FlowInv
<1>3. CASE \E k \in Keys : Call(k)
  <2>1. call'.pc = "probe" /\ call'.ask = "none"
    BY <1>3 DEF Call, Idle
  <2> QED
    BY <1>1, <2>1 DEF FlowInv
<1> QED
  BY <1>2, <1>3

LEMMA LoopSteps ==
    ASSUME GoalWords, Quiet, LInv, [LoopNext]_allVars
    PROVE  LInv' /\ [Contract!Next]_(Contract!cvars)
<1>1. LoopTypeOK' /\ StepInv'
  BY LoopType, StepOfCalls, StepInvStep DEF LInv, LoopTypeOK
<1>2. Sound
  BY DEF Sound, LInv, LoopTypeOK, StepInv, Unsound, Quiet
<1>3. CASE (FlowStep \/ Agents \/ Faults) /\ UNCHANGED loopVars
  BY <1>1, <1>2, <1>3, StepTells, WorkImplements DEF LInv, Does
<1>4. CASE RunStarts \/ LoopStep
  <2>1. LoopInv' /\ [Contract!Next]_(Contract!cvars)
    BY <1>4, ActorImplements, CriticImplements, RunImplements DEF LInv, LoopStep
  <2>2. [Next]_vars
    BY StepOfCalls DEF LInv
  <2>3. \/ UNCHANGED vars
        \/ \E k \in Keys : Call(k)
    <3>1. call.pc = "idle"
      BY <1>4 DEF RunStarts, LoopStep, ActorGivesUp, ActorReports, CriticApproves,
         CriticAbandons, CriticRejects, RunFails, Returned, Call
    <3> QED
      BY <1>2, <2>2, <3>1, StepTells DEF Next, Does
  <2>4. FlowInv'
    BY <2>3, FlowKept DEF LInv, vars, Call
  <2> QED
    BY <1>1, <2>1, <2>4 DEF LInv
<1>5. CASE UNCHANGED allVars
  <2>1. UNCHANGED vars /\ UNCHANGED loopVars
    BY <1>5 DEF allVars, loopVars
  <2>2. Ans' = Ans /\ call' = call /\ UNCHANGED <<bead, recorded, orphans, result>>
    BY <2>1, AnsSame DEF vars
  <2>3. FlowInv'
    BY <2>2, FlowKept DEF LInv
  <2>4. LoopInv'
    BY <2>1, <2>2 DEF LInv, LoopInv, loopVars, Chain, Prior, GoesOn, EndedAt, EndsWell,
       Spoken, Current
  <2> QED
    BY <1>1, <2>1, <2>2, <2>3, <2>4, IsStutter DEF LInv, loopVars
<1> QED
  BY <1>3, <1>4, <1>5 DEF LoopNext

\* goal_loop implements its contract, where probes answer, the id map is
\* written and agents die with their flow: beads are answered in the order of
\* the protocol and for good, and all runs on a seed that end report the one
\* outcome the answers stand for, however many were killed or failed before.
THEOREM ContractKept ==
    ASSUME GoalWords, Quiet
    PROVE  LoopSpec => KeepsContract
<1>1. LoopInit => LInv /\ Contract!Init
  BY LoopStarts
<1>2. LInv /\ [LoopNext]_allVars => LInv' /\ [Contract!Next]_(Contract!cvars)
  BY LoopSteps
<1> QED
  BY <1>1, <1>2, PTL DEF LoopSpec, KeepsContract, Contract!Spec
=============================================================================
