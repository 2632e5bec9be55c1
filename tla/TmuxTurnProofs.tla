---------------------------- MODULE TmuxTurnProofs ----------------------------
(***************************************************************************)
(* For any number of turns, any mix of backends, layouts and settings: the *)
(* state of TmuxTurn is well typed, a turn that ends closes its own pane   *)
(* and in the shared session no other, and what a turn reports as success  *)
(* is its own agent's answer.                                              *)
(***************************************************************************)
EXTENDS TmuxTurn, FiniteSetTheorems, TLAPS

-----------------------------------------------------------------------------
(* Names, targets and closed panes.                                        *)

LEMMA NamesOK ==
    ASSUME TmuxTypeOK, NEW t \in Turns, NEW fork \in BOOLEAN
    PROVE  /\ name[t] \in Names /\ name[t].role \in Roles
           /\ NameOf(t, name[t].role, fork) \in Names
           /\ NameOf(t, name[t].role, fork).role = name[t].role
BY DEF TmuxTypeOK, Names, NameOf

LEMMA ClosedOK ==
    ASSUME TmuxTypeOK, NEW V
    PROVE  Closed(V) \in [Turns -> PaneStates]
BY DEF TmuxTypeOK, Closed, PaneStates

\* A live pane is found under its name.
LEMMA LiveTarget ==
    ASSUME NEW t \in Turns, Live(t)
    PROVE  t \in Target(t)
<1>1. t \in Called(name[t])
  BY DEF Called
<1> QED
  BY <1>1 DEF Target, Resolved

\* What a name resolves to is live, and of its role.
LEMMA ResolvedLive ==
    ASSUME NEW t \in Turns, NEW u \in Resolved(name[t])
    PROVE  u \in Turns /\ Live(u) /\ name[u].role = name[t].role
BY DEF Resolved, Called

LEMMA TargetLive ==
    ASSUME NEW t \in Turns, NEW u \in Target(t)
    PROVE  u \in Turns /\ Live(u) /\ name[u].role = name[t].role
BY ResolvedLive DEF Target

LEMMA TargetScoped ==
    ASSUME scoped, NEW t \in Turns
    PROVE  Target(t) \subseteq {t}
BY DEF Target

-----------------------------------------------------------------------------
(* Types.                                                                  *)

LEMMA InitType == Init => TmuxTypeOK
<1> SUFFICES ASSUME Init PROVE TmuxTypeOK
  OBVIOUS
<1>1. PICK s \in Setups : kind = s.kind /\ scoped = s.scoped /\ locking = s.locking
                          /\ settings = s.settings
  BY DEF Init
<1>2. kind \in [Turns -> Kinds] /\ scoped \in BOOLEAN /\ locking \in BOOLEAN /\ settings \in Settings
  BY <1>1, TmuxTurnAssumption
<1>3. name \in [Turns -> Names]
  BY DEF Init
<1> QED
  BY <1>2, <1>3, TmuxTurnAssumption DEF Init, TmuxTypeOK, PaneStates, PCs, Results

LEMMA BeginType ==
    ASSUME TmuxTypeOK, NEW t \in Turns, NEW fork \in BOOLEAN, Begin(t, fork)
    PROVE  name' \in [Turns -> Names] /\ rivals' \in [Turns -> SUBSET Turns]
<1> DEFINE n == NameOf(t, name[t].role, fork)
<1>1. n \in Names
  BY NamesOK
<1>2. name \in [Turns -> Names] /\ name' = [name EXCEPT ![t] = n]
  BY DEF Begin, TmuxTypeOK
<1>3. name' \in [Turns -> Names]
  <2> HIDE DEF n
  <2> QED
    BY <1>1, <1>2
<1>4. \A u \in Turns : rivals[u] \in SUBSET Turns
  BY DEF TmuxTypeOK
<1>5. Others(t) \in SUBSET Turns
  BY DEF Others
<1> DEFINE of(u) == IF u = t THEN Others(t)
                   ELSE IF u \in Others(t) /\ Active(u) THEN rivals[u] \cup {t} ELSE rivals[u]
<1>6. rivals' = [u \in Turns |-> of(u)]
  BY DEF Begin
<1>7. \A u \in Turns : of(u) \in SUBSET Turns
  BY <1>4, <1>5
<1>8. rivals' \in [Turns -> SUBSET Turns]
  <2> HIDE DEF of
  <2> QED
    BY <1>6, <1>7
<1> QED
  BY <1>3, <1>8

LEMMA EndsType ==
    ASSUME TmuxTypeOK, NEW t \in Turns, NEW how \in Results, Ends(t, how)
    PROVE  result' \in [Turns -> [kind : Results, from : SUBSET Turns]]
<1>1. result \in [Turns -> [kind : Results, from : SUBSET Turns]]
  BY DEF TmuxTypeOK
<1> DEFINE ended == [result[t] EXCEPT !.kind = how]
<1>2. ended \in [kind : Results, from : SUBSET Turns]
  <2>1. result[t] \in [kind : Results, from : SUBSET Turns]
    BY <1>1
  <2> QED
    BY <2>1
<1>3. result' = [result EXCEPT ![t] = ended]
  BY DEF Ends
<1> HIDE DEF ended
<1> QED
  BY <1>1, <1>2, <1>3

LEMMA TakesType ==
    ASSUME TmuxTypeOK, NEW t \in Turns, NEW how \in Results, NEW whose \in SUBSET Turns,
           Takes(t, how, whose)
    PROVE  result' \in [Turns -> [kind : Results, from : SUBSET Turns]]
BY DEF TmuxTypeOK, Takes

LEMMA KillType ==
    ASSUME TmuxTypeOK, NEW t \in Turns, KillSameName(t)
    PROVE  pane' \in [Turns -> PaneStates]
<1>1. pane \in [Turns -> PaneStates] /\ \A u : Closed({u}) \in [Turns -> PaneStates]
  BY ClosedOK DEF TmuxTypeOK
<1> QED
  BY <1>1 DEF KillSameName

LEMMA BeginsType ==
    ASSUME TmuxTypeOK, NEW t \in Turns, NEW fork \in Forks, WriteFiles(t, fork) \/ PrepareTui(t, fork)
    PROVE  TmuxTypeOK'
<1> DEFINE n == NameOf(t, name[t].role, fork)
<1>0. fork \in BOOLEAN /\ n \in Names
  BY NamesOK, TmuxTurnAssumption
<1>1. name' \in [Turns -> Names] /\ rivals' \in [Turns -> SUBSET Turns]
  BY <1>0, BeginType DEF WriteFiles, PrepareTui
<1>2. CASE WriteFiles(t, fork)
  BY <1>0, <1>1, <1>2 DEF WriteFiles, Clear, TmuxTypeOK, agentVars, PCs
<1>3. CASE PrepareTui(t, fork)
  <2>1. settings' \in Settings
    BY <1>3 DEF PrepareTui, HookedSettings, TmuxTypeOK, Settings
  <2>2. knowsSid' \in [Turns -> BOOLEAN]
    BY <1>0, <1>3, TmuxTurnAssumption DEF PrepareTui, TmuxTypeOK
  <2> QED
    BY <1>0, <1>1, <1>3, <2>1, <2>2 DEF PrepareTui, TmuxTypeOK, PCs
<1> QED
  BY <1>2, <1>3

LEMMA SpawnType ==
    ASSUME TmuxTypeOK, NEW t \in Turns, TakeLock(t) \/ Spawn(t)
    PROVE  TmuxTypeOK'
<1> USE DEF TmuxTypeOK, Goto, rest, fileVars, agentVars, PCs
<1>1. CASE TakeLock(t)
  BY <1>1 DEF TakeLock
<1>2. CASE KillOld(t)
  <2>1. pane' \in [Turns -> PaneStates]
    BY <1>2, KillType DEF KillOld
  <2> QED
    BY <1>2, <2>1 DEF KillOld
<1>3. CASE Create(t)
  BY <1>3 DEF Create, NewPane, PaneStates
<1>4. CASE CreateRefused(t)
  <2>1. in' \in [Names -> Turns \cup {NoTurn}]
    BY <1>4 DEF CreateRefused, Unlinked
  <2>2. result' \in [Turns -> [kind : Results, from : SUBSET Turns]]
    BY <1>4, EndsType DEF CreateRefused, Results
  <2>3. faults' \in 0..MaxFaults
    BY <1>4, TmuxTurnAssumption DEF CreateRefused
  <2> QED
    BY <1>4, <2>1, <2>2, <2>3 DEF CreateRefused, Unlocked
<1> QED
  BY <1>1, <1>2, <1>3, <1>4 DEF Spawn

LEMMA PaneType ==
    ASSUME TmuxTypeOK, NEW t \in Turns, PaneStep(t)
    PROVE  TmuxTypeOK'
<1> USE DEF TmuxTypeOK, rest, fileVars, agentVars, PaneStates
<1>1. CASE PaneStarts(t)
  BY <1>1 DEF PaneStarts
<1>2. CASE PaneAnswers(t)
  BY <1>2 DEF PaneAnswers
<1>3. CASE PaneExits(t)
  BY <1>3 DEF PaneExits
<1>4. CASE TuiComesUp(t) \/ TuiExits(t) \/ TuiRefuses(t)
  BY <1>4 DEF TuiComesUp, TuiExits, TuiRefuses
<1>5. CASE TuiStops(t)
  BY <1>5 DEF TuiStops, Answers
<1> QED
  BY <1>1, <1>2, <1>3, <1>4, <1>5 DEF PaneStep

LEMMA OutType ==
    ASSUME TmuxTypeOK, NEW t \in Turns
    PROVE  out[name[t]] \in SUBSET Turns
BY DEF TmuxTypeOK

LEMMA JudgedOK ==
    ASSUME TmuxTypeOK, NEW t \in Turns, Prints(t), NEW zero \in BOOLEAN
    PROVE  Classified(t, zero) \in {"ok", "limited", "full", "error"}
<1>1. kind[t] \in {"claude", "codex", "cursor"}
  BY DEF TmuxTypeOK, Kinds, Prints
<1> QED
  BY <1>1 DEF Classified, ClaudeResult, CodexResult, CursorResult, CommonResult

LEMMA ReadsType ==
    ASSUME TmuxTypeOK, NEW t \in Turns, Prints(t), AwaitRc(t) \/ ReadResult(t)
    PROVE  TmuxTypeOK'
<1>1. pc' \in [Turns -> PCs]
  BY DEF TmuxTypeOK, AwaitRc, SeeRc, Lost, TimeOut, ReadResult, Goto, PCs
<1>2. result' \in [Turns -> [kind : Results, from : SUBSET Turns]]
  <2> DEFINE zero == rc[name[t]] = "zero"
  <2>0. /\ Classified(t, TRUE) \in Results /\ Classified(t, zero) \in Results
        /\ {} \in SUBSET Turns /\ out[name[t]] \in SUBSET Turns
        /\ {"interrupted", "noFile", "timeout"} \subseteq Results
    BY JudgedOK, OutType DEF Results, Answers
  <2>1. CASE SeeRc(t)
    BY <2>1 DEF SeeRc, TmuxTypeOK
  <2>2. CASE Lost(t)
    <3>1. \/ Takes(t, Classified(t, TRUE), out[name[t]]) \/ Takes(t, "interrupted", {})
      BY <2>2 DEF Lost, LostResult
    <3> QED
      BY <3>1, <2>0, TakesType
  <2>3. CASE TimeOut(t)
    BY <2>3, <2>0, EndsType DEF TimeOut
  <2>4. CASE ReadResult(t)
    <3>1. \/ Takes(t, Classified(t, zero), out[name[t]]) \/ Takes(t, "noFile", {})
      BY <2>4 DEF ReadResult
    <3> HIDE DEF zero
    <3> QED
      BY <3>1, <2>0, TakesType
  <2> QED
    BY <2>1, <2>2, <2>3, <2>4 DEF AwaitRc
<1> QED
  BY <1>1, <1>2 DEF TmuxTypeOK, AwaitRc, SeeRc, Lost, TimeOut, ReadResult, rest,
     fileVars, agentVars

LEMMA CleanUpType ==
    ASSUME TmuxTypeOK, NEW t \in Turns, CleanUp(t)
    PROVE  TmuxTypeOK'
<1>1. pane' \in [Turns -> PaneStates]
  BY ClosedOK DEF CleanUp, CleanupTmux
<1>2. in' \in [Names -> Turns \cup {NoTurn}]
  BY DEF CleanUp, Unlinked, TmuxTypeOK
<1>3. stop' \in [Turns -> BOOLEAN] /\ pc' \in [Turns -> PCs]
  BY DEF CleanUp, TmuxTypeOK, Goto, PCs
<1> QED
  BY <1>1, <1>2, <1>3 DEF CleanUp, TmuxTypeOK, rest

LEMMA RaiseType ==
    ASSUME TmuxTypeOK, NEW t \in Turns, NEW from, NEW how \in Results, Raise(t, from, how),
           pane' \in [Turns -> PaneStates], in' \in [Names -> Turns \cup {NoTurn}],
           stop' \in [Turns -> BOOLEAN]
    PROVE  TmuxTypeOK'
<1>1. result' \in [Turns -> [kind : Results, from : SUBSET Turns]]
  BY EndsType DEF Raise
<1>2. pc' \in [Turns -> PCs]
  BY DEF Raise, Goto, TmuxTypeOK, PCs
<1> QED
  BY <1>1, <1>2 DEF Raise, TmuxTypeOK, rest

LEMMA GiveUpType ==
    ASSUME TmuxTypeOK, NEW t \in Turns, NEW from, NEW how \in Results, GiveUp(t, from, how)
    PROVE  TmuxTypeOK'
<1>1. pane' \in [Turns -> PaneStates]
  BY ClosedOK DEF GiveUp, CleanupTmux
<1>2. in' \in [Names -> Turns \cup {NoTurn}]
  BY DEF GiveUp, Unlinked, TmuxTypeOK
<1>3. stop' \in [Turns -> BOOLEAN]
  BY DEF GiveUp, TmuxTypeOK
<1> QED
  BY <1>1, <1>2, <1>3, RaiseType DEF GiveUp

LEMMA TuiType ==
    ASSUME TmuxTypeOK, NEW t \in Turns,
           TuiSeen(t) \/ CheckTui(t) \/ Paste(t) \/ Enter(t) \/ Guard(t) \/ AwaitStop(t)
    PROVE  TmuxTypeOK'
<1>0. /\ {"disappeared", "exited", "unpasted", "wedged", "limited", "full", "gone", "timeout", "ok"}
           \subseteq Results
      /\ {"check", "paste", "enter", "guard", "wait", "clean"} \subseteq PCs
      /\ pane \in [Turns -> PaneStates] /\ in \in [Names -> Turns \cup {NoTurn}]
      /\ stop \in [Turns -> BOOLEAN]
  BY DEF Results, Answers, PCs, TmuxTypeOK
<1>1. CASE TuiSeen(t)
  BY <1>0, <1>1 DEF TuiSeen, TmuxTypeOK, Goto, Unlocked, rest, fileVars, agentVars
<1>2. CASE CheckTui(t)
  <2>1. CASE Raise(t, "check", "disappeared") /\ UNCHANGED <<pane, in, stop>>
    BY <2>1, <1>0, RaiseType
  <2>2. CASE Raise(t, "check", "exited") /\ CleanupTmux(t) /\ UNCHANGED <<in, stop>>
    <3>1. pane' \in [Turns -> PaneStates]
      BY <2>2, ClosedOK DEF CleanupTmux
    <3> QED
      BY <2>2, <3>1, <1>0, RaiseType
  <2>3. CASE /\ Goto(t, "check", "paste")
             /\ UNCHANGED <<rest, pane, lock, settings, result, fileVars, agentVars, faults>>
    BY <2>3, <1>0 DEF TmuxTypeOK, Goto, rest, fileVars, agentVars
  <2> QED
    BY <1>2, <2>1, <2>2, <2>3 DEF CheckTui
<1>3. CASE Paste(t)
  <2>1. CASE Raise(t, "paste", "unpasted") /\ UNCHANGED <<pane, in, stop>>
    BY <2>1, <1>0, RaiseType
  <2>2. CASE /\ Goto(t, "paste", "enter")
             /\ got' = [u \in Turns |-> IF u \in Target(t) /\ pane[u] = "ready"
                                        THEN in[name[t]] ELSE got[u]]
             /\ UNCHANGED <<rest, pane, lock, settings, result, fileVars, answer, stop, late,
                            faults>>
    <3>1. in[name[t]] \in Turns \cup {NoTurn}
      BY DEF TmuxTypeOK
    <3>2. got' \in [Turns -> Turns \cup {NoTurn}]
      BY <3>1, <2>2 DEF TmuxTypeOK
    <3> QED
      BY <2>2, <3>2, <1>0 DEF TmuxTypeOK, Goto, rest, fileVars
  <2> QED
    BY <1>3, <2>1, <2>2 DEF Paste
<1>4. CASE Enter(t)
  <2>1. CASE Raise(t, "enter", "unpasted") /\ UNCHANGED <<pane, in, stop>>
    BY <2>1, <1>0, RaiseType
  <2>2. CASE GiveUp(t, "enter", "wedged")
    BY <2>2, <1>0, GiveUpType
  <2>3. CASE /\ Goto(t, "enter", "guard")
             /\ pane' = [u \in Turns |-> IF u \in Target(t) THEN "working" ELSE pane[u]]
             /\ UNCHANGED <<rest, lock, settings, result, fileVars, agentVars, faults>>
    <3>1. pane' \in [Turns -> PaneStates]
      BY <2>3, <1>0 DEF PaneStates
    <3> QED
      BY <2>3, <3>1, <1>0 DEF TmuxTypeOK, Goto, rest, fileVars, agentVars
  <2>4. CASE /\ Goto(t, "enter", "guard")
             /\ UNCHANGED <<rest, pane, lock, settings, result, fileVars, agentVars, faults>>
    BY <2>4, <1>0 DEF TmuxTypeOK, Goto, rest, fileVars, agentVars
  <2> QED
    BY <1>4, <2>1, <2>2, <2>3, <2>4 DEF Enter
<1>5. CASE Guard(t)
  <2>1. CASE \E u \in Target(t) : pane[u] \in {"limited", "full"} /\ GiveUp(t, "guard", pane[u])
    BY <2>1, <1>0, GiveUpType
  <2>2. CASE /\ Goto(t, "guard", "wait")
             /\ UNCHANGED <<rest, pane, lock, settings, result, fileVars, agentVars, faults>>
    BY <2>2, <1>0 DEF TmuxTypeOK, Goto, rest, fileVars, agentVars
  <2> QED
    BY <1>5, <2>1, <2>2 DEF Guard
<1>6. CASE AwaitStop(t)
  <2>1. pc' \in [Turns -> PCs]
    BY <1>6, <1>0 DEF AwaitStop, Goto, TmuxTypeOK
  <2>2. Found(t) \subseteq Turns
    BY DEF Found, Discovered, TmuxTypeOK
  <2>3. result' \in [Turns -> [kind : Results, from : SUBSET Turns]]
    <3>1. \/ \E u \in Turns : Takes(t, "ok", {u})
          \/ Ends(t, "gone") \/ Ends(t, "timeout")
      BY <1>6, <2>2 DEF AwaitStop
    <3>2. \A u \in Turns : {u} \in SUBSET Turns
      OBVIOUS
    <3> QED
      BY <3>1, <3>2, <1>0, TakesType, EndsType
  <2> QED
    BY <1>6, <2>1, <2>3 DEF AwaitStop, TmuxTypeOK, rest, fileVars, agentVars
<1> QED
  BY <1>1, <1>2, <1>3, <1>4, <1>5, <1>6

LEMMA FaultType ==
    ASSUME TmuxTypeOK, \/ \E t \in Turns : Die(t) \/ Signal(t)
                       \/ Retry \/ Cancel
    PROVE  TmuxTypeOK'
<1>0. Fault => faults' \in 0..MaxFaults
  BY TmuxTurnAssumption DEF Fault, TmuxTypeOK
<1>1. ASSUME NEW t \in Turns, Die(t) PROVE TmuxTypeOK'
  BY <1>0, <1>1 DEF Die, TmuxTypeOK, Unlocked, PCs, rest, fileVars, agentVars
<1>2. ASSUME NEW t \in Turns, Signal(t) PROVE TmuxTypeOK'
  <2>1. result' \in [Turns -> [kind : Results, from : SUBSET Turns]]
    BY <1>2, EndsType DEF Signal, Results
  <2> QED
    BY <1>0, <1>2, <2>1 DEF Signal, TmuxTypeOK, Unlocked, PCs, rest, fileVars, agentVars
<1>3. CASE Retry \/ Cancel
  <2>1. pane' \in [Turns -> PaneStates]
    BY <1>3, ClosedOK DEF Retry, Cancel, KillForIssue, KillIssueSessions, TmuxTypeOK
  <2> QED
    BY <1>0, <1>3, <2>1 DEF Retry, Cancel, TmuxTypeOK, rest, fileVars, agentVars
<1> QED
  BY <1>1, <1>2, <1>3

\* The steps of a turn, whatever its backend.
LEMMA TurnSteps ==
    ASSUME NEW t \in Turns, TurnStep(t)
    PROVE  \/ Prints(t) /\ (\/ \E fork \in Forks : WriteFiles(t, fork)
                            \/ AwaitRc(t) \/ ReadResult(t))
           \/ ~Prints(t) /\ (\/ \E fork \in Forks : PrepareTui(t, fork)
                             \/ TakeLock(t) \/ TuiSeen(t) \/ CheckTui(t) \/ Paste(t)
                             \/ Enter(t) \/ Guard(t) \/ AwaitStop(t))
           \/ Spawn(t) \/ CleanUp(t)
BY DEF TurnStep, ClaudeRun, CodexRun, CursorRun, TuiRun, Prints

LEMMA NextType == TmuxTypeOK /\ [Next]_vars => TmuxTypeOK'
<1> SUFFICES ASSUME TmuxTypeOK, [Next]_vars PROVE TmuxTypeOK'
  OBVIOUS
<1>1. ASSUME NEW t \in Turns, TurnStep(t) PROVE TmuxTypeOK'
  BY <1>1, TurnSteps, BeginsType, SpawnType, ReadsType, CleanUpType, TuiType
<1>2. ASSUME NEW t \in Turns, PaneStep(t) PROVE TmuxTypeOK'
  BY <1>2, PaneType
<1>3. CASE UNCHANGED vars
  BY <1>3 DEF vars, tmuxVars, fileVars, agentVars, TmuxTypeOK
<1> QED
  BY <1>1, <1>2, <1>3, FaultType DEF Next

\* The state of the turns, their panes and their files is well typed.
THEOREM TmuxTyping == Spec => []TmuxTypeOK
<1> QED
  BY InitType, NextType, PTL DEF Spec

-----------------------------------------------------------------------------
(* What a step does. Most are steps of one process that leave the files'   *)
(* contents and the agents alone and at most shut panes: they Settle. The  *)
(* others are named for themselves.                                        *)

Unborn == {"new", "lock", "kill", "create"}
Judged == {"clean", "ended", "dead"}
Excused == {"signalled", "unpasted"}

\* A turn that has no pane yet has none; what is only there in a pane is not there
\* without one. (The inductive part of the theorem on panes, and the ground of the others.)
Fresh ==
    \A t \in Turns :
        /\ pc[t] \in Unborn => pane[t] = "none"
        /\ pane[t] = "none" => ~tee[t] /\ got[t] = NoTurn /\ answer[t] = None
        /\ pc[t] \notin Judged => result[t].kind = None
        /\ stop[t] => ~Prints(t) /\ answer[t] = "ok"
        /\ Prints(t) => pane[t] \in {"none", "starting", "working", "answered", "gone"}
        /\ answer[t] = "limited" => kind[t] = "claude"
        /\ ~Prints(t) /\ answer[t] # None => answer[t] = "ok" /\ pane[t] \in {"answered", "gone"}

Own == UNCHANGED <<scoped, kind, name, rivals, out, rc, tee, got, answer, late>>
Shuts == \A u \in Turns : pane'[u] = pane[u] \/ (Live(u) /\ pane'[u] = "gone")

\* What a result "ok" was seen in.
EarnedByFiles(t) ==
    /\ Prints(t)
    /\ result'[t].from = out[name[t]]
    /\ \/ rc[name[t]] = "zero"
       \/ ~Live(t) /\ Terminal(t)
    /\ kind[t] = "claude" => ~Says(t, "limited")

EarnedBySentinel(t) == ~Prints(t) /\ \E u \in Found(t) : result'[t].from = {u}

Settles(t) ==
    /\ Own /\ Shuts
    /\ \A u \in Turns : stop'[u] => stop[u]
    /\ \A u \in Turns \ {t} : pc'[u] = pc[u] /\ result'[u] = result[u]
    /\ Active(t) /\ pc'[t] # "new"
    /\ pc'[t] \in Unborn => pc[t] \in Unborn
    /\ pc[t] \in Judged => pc'[t] \in Judged
    /\ in' = in \/ (pc'[t] = "ended" /\ in' = Unlinked(t))
    /\ pc'[t] = "ended" => result'[t].kind \in Excused \/ pane'[t] \in {"none", "gone"}
    /\ \/ result'[t] = result[t]
       \/ /\ pc[t] \notin Judged /\ pc'[t] \in Judged
          /\ result'[t].kind = "ok" => /\ pc[t] \in {"wait", "read"} /\ pc'[t] = "clean"
                                       /\ UNCHANGED <<pane, stop>>
                                       /\ EarnedByFiles(t) \/ EarnedBySentinel(t)

\* Retry, Cancel, or nothing.
Sweeps == Own /\ Shuts /\ UNCHANGED <<pc, result, in, stop>>

PasteLands(t) ==
    /\ ~Prints(t) /\ Goto(t, "paste", "enter")
    /\ in[name[t]] # NoTurn
    /\ got' = [u \in Turns |-> IF u \in Target(t) /\ pane[u] = "ready"
                               THEN in[name[t]] ELSE got[u]]
    /\ UNCHANGED <<rest, pane, result, fileVars, answer, stop, late>>

EnterLands(t) ==
    /\ ~Prints(t) /\ Goto(t, "enter", "guard")
    /\ Landed(t)
    /\ pane' = [u \in Turns |-> IF u \in Target(t) THEN "working" ELSE pane[u]]
    /\ UNCHANGED <<rest, result, fileVars, agentVars>>

LEMMA ClosedShuts ==
    ASSUME TmuxTypeOK, NEW V, \A u \in V : u \in Turns /\ Live(u), pane' = Closed(V)
    PROVE  Shuts
BY DEF Closed, Shuts, TmuxTypeOK

LEMMA CleanupShuts ==
    ASSUME TmuxTypeOK, NEW t \in Turns, CleanupTmux(t)
    PROVE  Shuts /\ pane'[t] \in {"none", "gone"}
<1>1. Shuts
  BY ClosedShuts, TargetLive DEF CleanupTmux
<1>2. CASE Live(t)
  BY <1>1, <1>2, LiveTarget DEF CleanupTmux, Closed
<1>3. CASE ~Live(t)
  BY <1>1, <1>3 DEF Shuts, Live
<1> QED
  BY <1>1, <1>2, <1>3

LEMMA NoSession ==
    ASSUME TmuxTypeOK, NEW t \in Turns, ~HasSession(t)
    PROVE  pane[t] \in {"none", "gone"}
BY LiveTarget DEF HasSession, Live

LEMMA RaiseSettles ==
    ASSUME TmuxTypeOK, NEW t \in Turns, NEW from \in {"check", "paste", "enter", "guard"}, NEW how,
           how # "ok", Raise(t, from, how), Shuts, in' = in \/ in' = Unlinked(t),
           \A u \in Turns : stop'[u] => stop[u],
           how \in Excused \/ pane'[t] \in {"none", "gone"}
    PROVE  Settles(t)
BY DEF Raise, Goto, Ends, Settles, Own, rest, Active, Unborn, Judged, TmuxTypeOK

LEMMA GiveUpSettles ==
    ASSUME TmuxTypeOK, NEW t \in Turns, NEW from \in {"check", "paste", "enter", "guard"}, NEW how,
           how # "ok", GiveUp(t, from, how)
    PROVE  Settles(t)
<1>1. Shuts /\ pane'[t] \in {"none", "gone"}
  BY CleanupShuts DEF GiveUp
<1>2. \A u \in Turns : stop'[u] => stop[u]
  BY DEF GiveUp, TmuxTypeOK
<1> QED
  BY <1>1, <1>2, RaiseSettles DEF GiveUp

LEMMA GoSettles ==
    ASSUME TmuxTypeOK, NEW t \in Turns, NEW from \in {"lock", "tui", "check", "enter", "guard", "wait"},
           NEW to \in {"kill", "check", "paste", "guard", "wait", "read"}, Goto(t, from, to),
           to = "kill" => from = "lock",
           UNCHANGED <<rest, pane, result, fileVars, agentVars>>
    PROVE  Settles(t)
BY DEF Goto, Settles, Own, Shuts, rest, fileVars, agentVars, Active, Unborn, Judged, TmuxTypeOK

LEMMA RefusedSettles ==
    ASSUME TmuxTypeOK, Fresh, NEW t \in Turns, CreateRefused(t)
    PROVE  Settles(t)
<1>1. pane'[t] = "none"
  BY DEF CreateRefused, Fresh, Unborn
<1>2. \/ result' = [result EXCEPT ![t] = [@ EXCEPT !.kind = "unbound"]]
      \/ result' = [result EXCEPT ![t] = [@ EXCEPT !.kind = "refused"]]
  BY DEF CreateRefused, Ends
<1>3. result'[t].kind # "ok" /\ \A u \in Turns \ {t} : result'[u] = result[u]
  BY <1>2 DEF TmuxTypeOK
<1> QED
  BY <1>1, <1>3 DEF CreateRefused, Settles, Own, Shuts, rest, agentVars, Active, Unborn, Judged,
     TmuxTypeOK

LEMMA SpawnForms ==
    ASSUME TmuxTypeOK, Fresh, NEW t \in Turns, TakeLock(t) \/ Spawn(t)
    PROVE  Settles(t) \/ Create(t)
<1>1. CASE TakeLock(t)
  BY <1>1, GoSettles DEF TakeLock
<1>2. CASE KillOld(t)
  <2>1. Shuts
    <3>1. CASE UNCHANGED pane
      BY <3>1 DEF Shuts
    <3>2. ASSUME NEW u \in Resolved(name[t]), pane' = Closed({u}) PROVE Shuts
      BY <3>2, ResolvedLive, ClosedShuts
    <3> QED
      BY <1>2, <3>1, <3>2 DEF KillOld, KillSameName
  <2> QED
    BY <1>2, <2>1 DEF KillOld, Goto, Settles, Own, rest, fileVars, agentVars, Active, Unborn,
       Judged, TmuxTypeOK
<1> QED
  BY <1>1, <1>2, RefusedSettles DEF Spawn

\* A result that is not "ok" needs no evidence.
LEMMA EndsSettles ==
    ASSUME TmuxTypeOK, NEW t \in Turns, NEW to \in {"clean", "ended"}, NEW how, how # "ok",
           pc[t] \in {"tui", "wait"}, pc' = [pc EXCEPT ![t] = to], Ends(t, how),
           to = "ended" => how \in Excused,
           UNCHANGED <<rest, pane, fileVars, agentVars>>
    PROVE  Settles(t)
BY DEF Settles, Own, Shuts, Ends, rest, fileVars, agentVars, Active, Unborn, Judged, Excused,
   TmuxTypeOK

LEMMA TakesSettles ==
    ASSUME TmuxTypeOK, NEW t \in Turns, NEW from \in {"wait", "read"}, NEW how, NEW whose,
           Goto(t, from, "clean"), Takes(t, how, whose),
           how = "ok" => EarnedByFiles(t) \/ EarnedBySentinel(t),
           UNCHANGED <<rest, pane, fileVars, agentVars>>
    PROVE  Settles(t)
BY DEF Settles, Own, Shuts, Goto, Takes, rest, fileVars, agentVars, Active, Unborn, Judged,
   Excused, TmuxTypeOK

\* What the output is taken for success for.
LEMMA OkSays ==
    ASSUME NEW t \in Turns, NEW zero \in BOOLEAN, kind[t] \in {"claude", "codex", "cursor"},
           Classified(t, zero) = "ok"
    PROVE  zero /\ (kind[t] = "claude" => ~Says(t, "limited"))
BY DEF Classified, ClaudeResult, CodexResult, CursorResult, CommonResult

LEMMA PrintKind ==
    ASSUME TmuxTypeOK, NEW t \in Turns, Prints(t)
    PROVE  kind[t] \in {"claude", "codex", "cursor"}
BY DEF TmuxTypeOK, Prints, Kinds

LEMMA ReadForms ==
    ASSUME TmuxTypeOK, NEW t \in Turns, Prints(t), AwaitRc(t) \/ ReadResult(t)
    PROVE  Settles(t)
<1> DEFINE zero == rc[name[t]] = "zero"
<1>1. CASE SeeRc(t)
  BY <1>1, GoSettles DEF SeeRc
<1>2. CASE TimeOut(t)
  BY <1>2, EndsSettles DEF TimeOut, Goto
<1>3. CASE Lost(t)
  <2>1. CASE Terminal(t) /\ Takes(t, Classified(t, TRUE), out[name[t]])
    <3>1. result'[t].from = out[name[t]]
      BY <2>1 DEF Takes, TmuxTypeOK
    <3>2. ~Live(t)
      BY <1>3, NoSession DEF Lost, Live
    <3>3. Classified(t, TRUE) = "ok" => (kind[t] = "claude" => ~Says(t, "limited"))
      BY OkSays, PrintKind
    <3>4. Classified(t, TRUE) = "ok" => EarnedByFiles(t)
      BY <2>1, <3>1, <3>2, <3>3 DEF EarnedByFiles
    <3> QED
      BY <1>3, <2>1, <3>4, TakesSettles DEF Lost
  <2>2. CASE Takes(t, "interrupted", {})
    BY <1>3, <2>2, TakesSettles DEF Lost
  <2> QED
    BY <1>3, <2>1, <2>2 DEF Lost, LostResult
<1>4. CASE ReadResult(t)
  <2>1. CASE Takes(t, Classified(t, zero), out[name[t]])
    <3>1. result'[t].from = out[name[t]]
      BY <2>1 DEF Takes, TmuxTypeOK
    <3>2. zero \in BOOLEAN
      OBVIOUS
    <3>3. Classified(t, zero) = "ok" => zero /\ (kind[t] = "claude" => ~Says(t, "limited"))
      BY <3>2, OkSays, PrintKind
    <3>4. Classified(t, zero) = "ok" => EarnedByFiles(t)
      BY <3>1, <3>3 DEF EarnedByFiles
    <3> QED
      BY <1>4, <2>1, <3>4, TakesSettles DEF ReadResult
  <2>2. CASE Takes(t, "noFile", {})
    BY <1>4, <2>2, TakesSettles DEF ReadResult
  <2> QED
    BY <1>4, <2>1, <2>2 DEF ReadResult
<1> QED
  BY <1>1, <1>2, <1>3, <1>4 DEF AwaitRc

LEMMA CleanUpForms ==
    ASSUME TmuxTypeOK, NEW t \in Turns, CleanUp(t)
    PROVE  Settles(t)
<1>1. Shuts /\ pane'[t] \in {"none", "gone"}
  BY CleanupShuts DEF CleanUp
<1>2. \A u \in Turns : stop'[u] => stop[u]
  BY DEF CleanUp, TmuxTypeOK
<1> QED
  BY <1>1, <1>2 DEF CleanUp, Settles, Own, Goto, rest, Active, Unborn, Judged, TmuxTypeOK

LEMMA TuiForms ==
    ASSUME TmuxTypeOK, NEW t \in Turns, ~Prints(t),
           TuiSeen(t) \/ CheckTui(t) \/ Paste(t) \/ Enter(t) \/ Guard(t) \/ AwaitStop(t)
    PROVE  Settles(t) \/ PasteLands(t) \/ EnterLands(t)
<1>0. UNCHANGED pane => Shuts
  BY DEF Shuts
<1>1. CASE TuiSeen(t)
  BY <1>1, GoSettles DEF TuiSeen
<1>2. CASE CheckTui(t)
  <2>1. CASE ~HasSession(t) /\ Raise(t, "check", "disappeared") /\ UNCHANGED <<pane, in, stop>>
    BY <2>1, <1>0, NoSession, RaiseSettles
  <2>2. CASE Raise(t, "check", "exited") /\ CleanupTmux(t) /\ UNCHANGED <<in, stop>>
    BY <2>2, CleanupShuts, RaiseSettles
  <2>3. CASE /\ Goto(t, "check", "paste")
             /\ UNCHANGED <<rest, pane, lock, settings, result, fileVars, agentVars, faults>>
    BY <2>3, GoSettles
  <2> QED
    BY <1>2, <2>1, <2>2, <2>3 DEF CheckTui
<1>3. CASE Paste(t)
  <2>1. CASE Raise(t, "paste", "unpasted") /\ UNCHANGED <<pane, in, stop>>
    BY <2>1, <1>0, RaiseSettles DEF Excused
  <2> QED
    BY <1>3, <2>1 DEF Paste, PasteLands
<1>4. CASE Enter(t)
  <2>1. CASE Raise(t, "enter", "unpasted") /\ UNCHANGED <<pane, in, stop>>
    BY <2>1, <1>0, RaiseSettles DEF Excused
  <2>2. CASE GiveUp(t, "enter", "wedged")
    BY <2>2, GiveUpSettles
  <2>3. CASE /\ Goto(t, "enter", "guard")
             /\ UNCHANGED <<rest, pane, lock, settings, result, fileVars, agentVars, faults>>
    BY <2>3, GoSettles
  <2> QED
    BY <1>4, <2>1, <2>2, <2>3 DEF Enter, EnterLands
<1>5. CASE Guard(t)
  <2>1. CASE \E u \in Target(t) : pane[u] \in {"limited", "full"} /\ GiveUp(t, "guard", pane[u])
    BY <2>1, GiveUpSettles
  <2>2. CASE /\ Goto(t, "guard", "wait")
             /\ UNCHANGED <<rest, pane, lock, settings, result, fileVars, agentVars, faults>>
    BY <2>2, GoSettles
  <2> QED
    BY <1>5, <2>1, <2>2 DEF Guard
<1>6. CASE AwaitStop(t)
  <2>1. ASSUME NEW u \in Found(t), Takes(t, "ok", {u}) PROVE Settles(t)
    <3>1. result'[t].from = {u}
      BY <2>1 DEF Takes, TmuxTypeOK
    <3>2. EarnedBySentinel(t)
      BY <3>1 DEF EarnedBySentinel
    <3> QED
      BY <1>6, <2>1, <3>2, TakesSettles DEF AwaitStop
  <2>2. CASE Ends(t, "gone") \/ Ends(t, "timeout")
    BY <1>6, <2>2, EndsSettles DEF AwaitStop, Goto
  <2> QED
    BY <1>6, <2>1, <2>2 DEF AwaitStop
<1> QED
  BY <1>1, <1>2, <1>3, <1>4, <1>5, <1>6

LEMMA FaultForms ==
    ASSUME TmuxTypeOK, NEW t \in Turns, Die(t) \/ Signal(t)
    PROVE  Settles(t)
<1>1. CASE Die(t)
  BY <1>1 DEF Die, Settles, Own, Shuts, rest, fileVars, agentVars, Active, Unborn, Judged, TmuxTypeOK
<1>2. CASE Signal(t)
  <2>1. PICK to \in {"clean", "ended"} : pc' = [pc EXCEPT ![t] = to]
    BY <1>2 DEF Signal
  <2> QED
    BY <1>2, <2>1, EndsSettles DEF Signal, Excused
<1> QED
  BY <1>1, <1>2

LEMMA SweepForms ==
    ASSUME TmuxTypeOK, Retry \/ Cancel \/ UNCHANGED vars
    PROVE  Sweeps
<1>1. pane' = Closed({t \in Turns : Live(t)}) => Shuts
  BY ClosedShuts
<1>2. UNCHANGED pane => Shuts
  BY DEF Shuts
<1> QED
  BY <1>1, <1>2 DEF Retry, Cancel, KillForIssue, KillIssueSessions, Sweeps, Own, rest, fileVars,
     agentVars, vars, tmuxVars

\* The forms of a step.
StepForm(t) ==
    \/ Settles(t) \/ Create(t) \/ PaneStep(t) \/ PasteLands(t) \/ EnterLands(t)
    \/ \E fork \in Forks : WriteFiles(t, fork) \/ PrepareTui(t, fork)

LEMMA StepForms ==
    ASSUME TmuxTypeOK, Fresh, [Next]_vars
    PROVE  Sweeps \/ \E t \in Turns : StepForm(t)
<1>1. ASSUME NEW t \in Turns, TurnStep(t) PROVE StepForm(t)
  <2>1. CASE Prints(t) /\ (AwaitRc(t) \/ ReadResult(t))
    BY <2>1, ReadForms DEF StepForm
  <2>2. CASE \E fork \in Forks : WriteFiles(t, fork) \/ PrepareTui(t, fork)
    BY <2>2 DEF StepForm
  <2>3. CASE TakeLock(t) \/ Spawn(t)
    BY <2>3, SpawnForms DEF StepForm
  <2>4. CASE ~Prints(t) /\ (TuiSeen(t) \/ CheckTui(t) \/ Paste(t) \/ Enter(t) \/ Guard(t) \/ AwaitStop(t))
    BY <2>4, TuiForms DEF StepForm
  <2>5. CASE CleanUp(t)
    BY <2>5, CleanUpForms DEF StepForm
  <2> QED
    BY <1>1, <2>1, <2>2, <2>3, <2>4, <2>5, TurnSteps
<1>2. ASSUME NEW t \in Turns, PaneStep(t) \/ Die(t) \/ Signal(t) PROVE StepForm(t)
  BY <1>2, FaultForms DEF StepForm
<1> QED
  BY <1>1, <1>2, SweepForms DEF Next

-----------------------------------------------------------------------------
(* Panes.                                                                  *)

\* tmux refuses a second session of one name: outside the shared session a name is one
\* live pane.
OneByName == ~scoped => \A t, u \in Turns : Live(t) /\ Live(u) /\ name[t] = name[u] => t = u

Panes == TmuxTypeOK /\ Fresh /\ OneByName

\* What a turn is aimed at is one pane at most.
LEMMA TargetOne ==
    ASSUME OneByName, NEW t \in Turns, NEW u \in Target(t), NEW v \in Target(t)
    PROVE  u = v
<1>1. CASE scoped
  BY <1>1, TargetScoped
<1>2. CASE ~scoped /\ Target(t) = Called(name[t])
  BY <1>2 DEF Called, OneByName
<1>3. CASE ~scoped /\ Target(t) # Called(name[t])
  <2> DEFINE forks == {x \in Turns : Live(x) /\ name[x].role = name[t].role}
  <2>1. Target(t) = forks /\ ~(Cardinality(forks) > 1)
    BY <1>3 DEF Target, Resolved
  <2>2. IsFiniteSet(forks)
    <3>1. IsFiniteSet(Turns) /\ forks \subseteq Turns
      BY TmuxAssumption
    <3> QED
      BY <3>1, FS_Subset
  <2>3. ASSUME u # v PROVE FALSE
    <3>1. {u} \cup {v} \subseteq forks
      BY <2>1
    <3>2. IsFiniteSet({u}) /\ Cardinality({u}) = 1 /\ v \notin {u}
      BY <2>3, FS_Singleton
    <3>3. /\ IsFiniteSet({u} \cup {v})
          /\ Cardinality({u} \cup {v}) = Cardinality({u}) + 1
      BY <3>2, FS_AddElement
    <3> HIDE DEF forks
    <3>4. 2 <= Cardinality(forks)
      BY <3>1, <3>2, <3>3, <2>2, FS_Subset
    <3>5. Cardinality(forks) \in Nat
      BY <2>2, FS_CardinalityType
    <3> QED
      BY <3>4, <3>5, <2>1
  <2> QED
    BY <2>3
<1> QED
  BY <1>1, <1>2, <1>3

\* Enter goes to the one pane that is ready.
EntersAt(t, u) ==
    /\ u \in Target(t) /\ Live(u) /\ name[u].role = name[t].role
    /\ pane[u] = "ready" /\ got[u] # NoTurn
    /\ pane' = [pane EXCEPT ![u] = "working"]

LEMMA EnterOne ==
    ASSUME TmuxTypeOK, OneByName, NEW t \in Turns, EnterLands(t)
    PROVE  \E u \in Turns : EntersAt(t, u)
<1>1. PICK u \in Target(t) : pane[u] = "ready" /\ got[u] # NoTurn
  BY DEF EnterLands, Landed
<1>2. u \in Turns /\ Live(u) /\ name[u].role = name[t].role /\ Target(t) = {u}
  BY <1>1, TargetLive, TargetOne
<1>3. pane' = [pane EXCEPT ![u] = "working"]
  BY <1>2 DEF EnterLands, TmuxTypeOK
<1> QED
  BY <1>1, <1>2, <1>3 DEF EntersAt

LEMMA InitPanes == Init => Panes /\ NoPaneLeft
<1> SUFFICES ASSUME Init PROVE Panes /\ NoPaneLeft
  OBVIOUS
<1>1. TmuxTypeOK
  BY InitType
<1>2. Fresh /\ OneByName /\ NoPaneLeft
  BY DEF Init, Fresh, OneByName, NoPaneLeft, Live, Unborn, Judged, NoTurn, None
<1> QED
  BY <1>1, <1>2 DEF Panes

LEMMA SweepsFresh ==
    ASSUME Panes, Sweeps
    PROVE  Fresh' /\ OneByName' /\ (NoPaneLeft => NoPaneLeft')
<1> USE DEF Panes, TmuxTypeOK, Sweeps, Own, Shuts, Live
<1>1. Fresh'
  BY DEF Fresh, Prints
<1>2. OneByName'
  BY DEF OneByName
<1>3. NoPaneLeft => NoPaneLeft'
  BY DEF NoPaneLeft
<1> QED
  BY <1>1, <1>2, <1>3

LEMMA SettlesFresh ==
    ASSUME Panes, TmuxTypeOK', NEW t \in Turns, Settles(t)
    PROVE  Fresh' /\ OneByName' /\ (NoPaneLeft => NoPaneLeft')
<1> USE DEF Panes, TmuxTypeOK, Settles, Own, Shuts
<1>1. Fresh'
  BY DEF Fresh, Prints, Live, Judged, Unborn
<1>2. OneByName'
  BY DEF OneByName, Live
<1>3. NoPaneLeft => NoPaneLeft'
  <2> SUFFICES ASSUME NoPaneLeft, NEW u \in Turns, pc'[u] = "ended",
                      result'[u].kind \notin {"signalled", "unpasted"}
               PROVE  pane'[u] \in {"none", "gone"}
    BY DEF NoPaneLeft, Live
  <2>1. CASE u = t
    BY <2>1 DEF Excused
  <2>2. CASE u # t
    BY <2>2 DEF NoPaneLeft, Live
  <2> QED
    BY <2>1, <2>2
<1> QED
  BY <1>1, <1>2, <1>3

LEMMA CreateFresh ==
    ASSUME Panes, NEW t \in Turns, Create(t)
    PROVE  Fresh' /\ OneByName' /\ (NoPaneLeft => NoPaneLeft')
<1> USE DEF Panes, TmuxTypeOK, Create, Goto, NewPane, rest, fileVars, agentVars
<1>1. Fresh'
  BY DEF Fresh, Prints, Judged, Unborn
<1>2. OneByName'
  BY DEF OneByName, Live, Duplicate, Called
<1>3. NoPaneLeft => NoPaneLeft'
  BY DEF NoPaneLeft, Live
<1> QED
  BY <1>1, <1>2, <1>3

LEMMA PaneStepFresh ==
    ASSUME Panes, NEW t \in Turns, PaneStep(t)
    PROVE  Fresh' /\ OneByName' /\ (NoPaneLeft => NoPaneLeft')
<1> USE DEF Panes, TmuxTypeOK, rest, fileVars, agentVars
<1>1. CASE PaneStarts(t)
  BY <1>1 DEF PaneStarts, Fresh, Prints, Judged, Unborn, OneByName, NoPaneLeft, Live
<1>2. CASE PaneAnswers(t)
  BY <1>2 DEF PaneAnswers, Fresh, Prints, Judged, Unborn, OneByName, NoPaneLeft, Live
<1>3. CASE PaneExits(t)
  BY <1>3 DEF PaneExits, Fresh, Prints, Judged, Unborn, OneByName, NoPaneLeft, Live
<1>4. CASE TuiComesUp(t) \/ TuiExits(t) \/ TuiRefuses(t)
  <2>1. /\ \E shown \in {"ready", "held", "gone", "limited", "full"} : pane' = [pane EXCEPT ![t] = shown]
        /\ pane[t] \in {"starting", "ready", "working"} /\ ~Prints(t)
        /\ UNCHANGED <<scoped, kind, name, pc, result, tee, got, answer, stop>>
    BY <1>4 DEF TuiComesUp, TuiExits, TuiRefuses
  <2>2. Fresh'
    BY <2>1 DEF Fresh, Prints, Judged, Unborn
  <2>3. OneByName' /\ (NoPaneLeft => NoPaneLeft')
    BY <2>1 DEF OneByName, NoPaneLeft, Live
  <2> QED
    BY <2>2, <2>3
<1>5. CASE TuiStops(t)
  <2>1. pane' = [pane EXCEPT ![t] = "answered"] /\ Live(t) /\ ~Prints(t)
    BY <1>5 DEF TuiStops, Live
  <2>2. Fresh'
    <3>1. /\ answer' = [answer EXCEPT ![t] = "ok"] /\ stop' = [stop EXCEPT ![t] = TRUE]
          /\ UNCHANGED <<kind, pc, result, tee, got>>
      BY <1>5 DEF TuiStops
    <3>2. Fresh /\ pane[t] # "none" /\ pc[t] \notin Unborn
      BY <1>5 DEF TuiStops, Fresh
    <3>3. \A u \in Turns \ {t} : /\ pane'[u] = pane[u] /\ answer'[u] = answer[u]
                                 /\ stop'[u] = stop[u]
      BY <2>1, <3>1
    <3>4. pane'[t] = "answered" /\ answer'[t] = "ok" /\ "ok" # "limited"
      BY <2>1, <3>1
    <3> QED
      BY <2>1, <3>1, <3>2, <3>3, <3>4 DEF Fresh, Prints
  <2>3. OneByName' /\ (NoPaneLeft => NoPaneLeft')
    BY <1>5, <2>1 DEF TuiStops, OneByName, NoPaneLeft, Live
  <2> QED
    BY <2>2, <2>3
<1> QED
  BY <1>1, <1>2, <1>3, <1>4, <1>5 DEF PaneStep

LEMMA PasteFresh ==
    ASSUME Panes, NEW t \in Turns, PasteLands(t)
    PROVE  Fresh' /\ OneByName' /\ (NoPaneLeft => NoPaneLeft')
BY DEF Panes, TmuxTypeOK, PasteLands, Goto, rest, fileVars, Fresh, Prints, Judged, Unborn, OneByName,
   NoPaneLeft, Live

LEMMA EnterFresh ==
    ASSUME Panes, NEW t \in Turns, EnterLands(t)
    PROVE  Fresh' /\ OneByName' /\ (NoPaneLeft => NoPaneLeft')
<1>1. PICK u \in Turns : EntersAt(t, u)
  BY EnterOne DEF Panes
<1>2. pane' = [pane EXCEPT ![u] = "working"] /\ pane[u] = "ready"
  BY <1>1 DEF EntersAt
<1>3. /\ UNCHANGED <<scoped, kind, name, result, tee, got, answer, stop>>
      /\ pc' = [pc EXCEPT ![t] = "guard"] /\ pc[t] = "enter"
  BY DEF EnterLands, Goto, rest, fileVars, agentVars
<1>4. Fresh'
  BY <1>2, <1>3 DEF Panes, TmuxTypeOK, Fresh, Prints, Judged, Unborn
<1>5. OneByName' /\ (NoPaneLeft => NoPaneLeft')
  BY <1>2, <1>3 DEF Panes, TmuxTypeOK, OneByName, NoPaneLeft, Live
<1> QED
  BY <1>4, <1>5

LEMMA BeginsFresh ==
    ASSUME Panes, NEW t \in Turns, NEW fork \in Forks, WriteFiles(t, fork) \/ PrepareTui(t, fork)
    PROVE  Fresh' /\ OneByName' /\ (NoPaneLeft => NoPaneLeft')
<1>0. /\ pc[t] = "new" /\ \A u \in Turns \ {t} : name'[u] = name[u] /\ pc'[u] = pc[u]
      /\ pc'[t] \in {"kill", "lock"} /\ pane[t] = "none"
      /\ UNCHANGED <<scoped, kind, pane, result, got, answer, stop>>
      /\ \A u \in Turns : tee'[u] => tee[u]
  BY DEF Panes, TmuxTypeOK, WriteFiles, PrepareTui, Begin, agentVars, Fresh, Unborn
<1>1. Fresh'
  BY <1>0 DEF Panes, Fresh, Prints, Judged, Unborn
<1>2. OneByName'
  BY <1>0 DEF Panes, OneByName, Live
<1>3. NoPaneLeft => NoPaneLeft'
  BY <1>0 DEF NoPaneLeft, Live
<1> QED
  BY <1>1, <1>2, <1>3

LEMMA NextPanes == Panes /\ NoPaneLeft /\ [Next]_vars => (Panes /\ NoPaneLeft)'
<1> SUFFICES ASSUME Panes, NoPaneLeft, [Next]_vars PROVE (Panes /\ NoPaneLeft)'
  OBVIOUS
<1>1. TmuxTypeOK'
  BY NextType DEF Panes
<1>2. Sweeps \/ \E t \in Turns : StepForm(t)
  BY StepForms DEF Panes
<1>3. Fresh' /\ OneByName' /\ NoPaneLeft'
  <2>1. ASSUME NEW t \in Turns, StepForm(t) PROVE Fresh' /\ OneByName' /\ NoPaneLeft'
    BY <2>1, <1>1, SettlesFresh, CreateFresh, PaneStepFresh, PasteFresh, EnterFresh, BeginsFresh
       DEF StepForm
  <2> QED
    BY <1>2, <2>1, SweepsFresh
<1> QED
  BY <1>1, <1>3 DEF Panes

LEMMA PanesInv == Spec => [](Panes /\ NoPaneLeft)
BY InitPanes, NextPanes, PTL DEF Spec

\* A turn that has ended has left no pane, but where it raised out of reach of its cleanup.
THEOREM PaneGone == Spec => []NoPaneLeft
BY PanesInv, PTL

\* The step that ends a turn past its check is its own, and shuts what the turn is aimed
\* at, if anything.
LEMMA EndingStep ==
    ASSUME TmuxTypeOK, [Next]_vars, NEW t \in Turns,
           pc[t] \in {"clean", "enter", "guard", "check"}, pc'[t] = "ended"
    PROVE  UNCHANGED pane \/ CleanupTmux(t)
<1>1. ASSUME NEW v \in Turns, TurnStep(v) PROVE UNCHANGED pane \/ CleanupTmux(t)
  <2>1. CASE Spawn(v) \/ TakeLock(v) \/ TuiSeen(v)
    BY <2>1 DEF Spawn, KillOld, Create, CreateRefused, TakeLock, TuiSeen, Goto, TmuxTypeOK
  <2>2. CASE AwaitRc(v) \/ ReadResult(v) \/ AwaitStop(v)
    BY <2>2 DEF AwaitRc, SeeRc, Lost, TimeOut, ReadResult, AwaitStop
  <2>3. CASE \E fork \in Forks : WriteFiles(v, fork) \/ PrepareTui(v, fork)
    BY <2>3 DEF WriteFiles, PrepareTui
  <2>4. CASE CleanUp(v)
    BY <2>4 DEF CleanUp, Goto, TmuxTypeOK
  <2>5. CASE CheckTui(v)
    BY <2>5 DEF CheckTui, Raise, Goto, TmuxTypeOK
  <2>6. CASE Paste(v)
    BY <2>6 DEF Paste
  <2>7. CASE Enter(v)
    BY <2>7 DEF Enter, GiveUp, Raise, Goto, TmuxTypeOK
  <2>8. CASE Guard(v)
    BY <2>8 DEF Guard, GiveUp, Raise, Goto, TmuxTypeOK
  <2> QED
    BY <1>1, <2>1, <2>2, <2>3, <2>4, <2>5, <2>6, <2>7, <2>8, TurnSteps
<1>2. ASSUME NEW v \in Turns, PaneStep(v) PROVE FALSE
  BY <1>2 DEF PaneStep, PaneStarts, PaneAnswers, PaneExits, TuiComesUp, TuiExits, TuiRefuses, TuiStops
<1>3. ASSUME NEW v \in Turns, Die(v) \/ Signal(v) PROVE UNCHANGED pane
  BY <1>3 DEF Die, Signal
<1>4. CASE Retry \/ Cancel \/ UNCHANGED vars
  BY <1>4 DEF Retry, Cancel, vars
<1> QED
  BY <1>1, <1>2, <1>3, <1>4 DEF Next

\* In the shared session a turn that ends shuts no pane but its own.
THEOREM PeersKept == Spec => PeersSpared
<1> DEFINE Spares ==
      \A t \in Turns : pc[t] \in {"clean", "enter", "guard", "check"} /\ pc'[t] = "ended" /\ scoped
          => \A u \in Turns \ {t} : pane'[u] = pane[u]
<1>1. TmuxTypeOK /\ [Next]_vars => Spares
  <2> SUFFICES ASSUME TmuxTypeOK, [Next]_vars, NEW t \in Turns,
                      pc[t] \in {"clean", "enter", "guard", "check"}, pc'[t] = "ended", scoped,
                      NEW u \in Turns \ {t}
               PROVE  pane'[u] = pane[u]
    OBVIOUS
  <2>1. UNCHANGED pane \/ CleanupTmux(t)
    BY EndingStep
  <2>2. Target(t) \subseteq {t}
    BY TargetScoped
  <2> QED
    BY <2>1, <2>2 DEF CleanupTmux, Closed, TmuxTypeOK
<1> QED
  BY <1>1, TmuxTyping, PTL DEF Spec, PeersSpared

-----------------------------------------------------------------------------
(* Answers. The history names every turn of the role that could have been  *)
(* in the way; without one, a turn's files and its pane are its own.       *)

\* Who is under way beside a turn, or has left a pane, is in its history; so is whoever
\* of the role wrote a sentinel since the turn looks for one.
Remembered ==
    \A t \in Turns :
        /\ Active(t) => Others(t) \subseteq rivals[t]
        /\ \A u \in rivals[t] : u # t /\ pc[u] # "new"
        /\ Active(t) /\ ~Prints(t) =>
              \A u \in late[t] \ {t} : name[u].role = name[t].role => u \in rivals[t]

\* A prompt lies under its turn's name, and is read by an agent of the turn's role.
Handed ==
    /\ \A n \in Names : in[n] # NoTurn => name[in[n]] = n /\ pc[in[n]] # "new"
    /\ \A t \in Turns : got[t] # NoTurn => name[got[t]].role = name[t].role /\ pc[got[t]] # "new"

\* The files of a turn that has no namesake tell how far its pane is.
Told(t) ==
    LET n == name[t] IN
    /\ out[n] \subseteq {t}
    /\ pane[t] \in {"none", "starting", "working"} => out[n] = {}
    /\ pane[t] # "gone" => rc[n] = None
    /\ pane[t] \in {"working", "answered"} => got[t] = t
    /\ pane[t] = "working" => tee[t]
    /\ pane[t] = "answered" => out[n] = {t}
    /\ out[n] = {t} => got[t] = t /\ answer[t] # None
    /\ rc[n] # None => out[n] = {t}
    /\ rc[n] = "zero" => answer[t] \in {"ok", "limited"}

OwnFiles ==
    \A t \in Turns : Active(t) /\ Namesakes(t) = {} =>
        /\ in[name[t]] = t
        /\ Prints(t) => Told(t)

\* So does the pane of a turn of the TUI that has no rival.
Shown(t) ==
    /\ got[t] \in {NoTurn, t}
    /\ pane[t] \in {"working", "answered", "limited", "full"} => got[t] = t
    /\ answer[t] # None => got[t] = t

OwnPane == \A t \in Turns : Active(t) /\ ~Prints(t) /\ rivals[t] = {} => Shown(t)

\* OwnAnswer, and that nothing can change it any more.
Undisturbed(t) == (IF Prints(t) THEN Namesakes(t) ELSE rivals[t]) = {}

Kept ==
    \A t \in Turns : result[t].kind = "ok" /\ Undisturbed(t) =>
        /\ result[t].from = {t} /\ got[t] = t
        /\ pane[t] \in {"answered", "gone"}
        /\ Prints(t) => answer[t] = "ok"

AnswerInv == Panes /\ Remembered /\ Handed /\ OwnFiles /\ OwnPane /\ Kept

LEMMA InitAnswer == Init => AnswerInv
<1> SUFFICES ASSUME Init PROVE AnswerInv
  OBVIOUS
<1>1. Panes
  BY InitPanes
<1>2. Remembered /\ Handed /\ OwnFiles /\ OwnPane
  BY DEF Init, Remembered, Handed, OwnFiles, OwnPane, Active
<1>3. Kept
  BY DEF Init, Kept, None
<1> QED
  BY <1>1, <1>2, <1>3 DEF AnswerInv

\* Whoever is or was beside a turn without namesakes has another name.
LEMMA OtherName ==
    ASSUME TmuxTypeOK, Remembered, NEW t \in Turns, Active(t), Namesakes(t) = {},
           NEW u \in Turns \ {t}, Active(u) \/ Live(u)
    PROVE  name[u] # name[t]
BY DEF Remembered, Others, Namesakes

\* And beside one without rivals, another role.
LEMMA OtherRole ==
    ASSUME TmuxTypeOK, Remembered, NEW t \in Turns, Active(t), rivals[t] = {},
           NEW u \in Turns \ {t}, Active(u) \/ Live(u)
    PROVE  name[u].role # name[t].role
BY DEF Remembered, Others

\* What all steps have in common by which no turn begins.
Ages ==
    /\ UNCHANGED <<scoped, kind, name, rivals>>
    /\ \A t \in Turns : /\ Active(t)' => Active(t)
                        /\ pc'[t] = "new" <=> pc[t] = "new"
                        /\ Live(t)' => Live(t) \/ Active(t)

LEMMA StepAges ==
    ASSUME TmuxTypeOK, OneByName,
           \/ Sweeps
           \/ \E t \in Turns : Settles(t) \/ Create(t) \/ PaneStep(t) \/ PasteLands(t) \/ EnterLands(t)
    PROVE  Ages
<1>1. CASE Sweeps
  BY <1>1 DEF Sweeps, Own, Shuts, Ages, Active, Live
<1>2. ASSUME NEW t \in Turns, Settles(t) PROVE Ages
  BY <1>2 DEF Settles, Own, Shuts, Ages, Active, Live, TmuxTypeOK
<1>3. ASSUME NEW t \in Turns, Create(t) PROVE Ages
  BY <1>3 DEF Create, Goto, NewPane, rest, Ages, Active, Live, TmuxTypeOK
<1>4. ASSUME NEW t \in Turns, PaneStep(t) PROVE Ages
  <2>1. UNCHANGED <<scoped, kind, name, rivals, pc>> /\ \A u \in Turns : Live(u)' => Live(u)
    BY <1>4 DEF PaneStep, PaneStarts, PaneAnswers, PaneExits, TuiComesUp, TuiExits, TuiRefuses,
       TuiStops, rest, Live, TmuxTypeOK
  <2> QED
    BY <2>1 DEF Ages, Active
<1>5. ASSUME NEW t \in Turns, PasteLands(t) PROVE Ages
  BY <1>5 DEF PasteLands, Goto, rest, Ages, Active, Live, TmuxTypeOK
<1>6. ASSUME NEW t \in Turns, EnterLands(t) PROVE Ages
  <2>1. PICK u \in Turns : EntersAt(t, u)
    BY <1>6, EnterOne
  <2> QED
    BY <1>6, <2>1 DEF EntersAt, EnterLands, Goto, rest, Ages, Active, Live, TmuxTypeOK
<1> QED
  BY <1>1, <1>2, <1>3, <1>4, <1>5, <1>6

-----------------------------------------------------------------------------
(* The history and the prompts.                                            *)

LEMMA AgesOthers ==
    ASSUME Ages, NEW t \in Turns
    PROVE  Others(t)' \subseteq Others(t)
BY DEF Ages, Others

LEMMA LateStep ==
    ASSUME TmuxTypeOK,
           \/ Sweeps
           \/ \E t \in Turns : Settles(t) \/ Create(t) \/ PaneStep(t) \/ PasteLands(t) \/ EnterLands(t)
    PROVE  \A t \in Turns : \A u \in late'[t] : u \in late[t] \/ (u \in Turns /\ Live(u))
<1>1. CASE UNCHANGED late
  BY <1>1
<1>2. ASSUME NEW t \in Turns, PaneStep(t) PROVE UNCHANGED late \/ TuiStops(t)
  BY <1>2 DEF PaneStep, PaneStarts, PaneAnswers, PaneExits, TuiComesUp, TuiExits, TuiRefuses, agentVars
<1>3. ASSUME NEW t \in Turns, TuiStops(t)
      PROVE  \A v \in Turns : \A u \in late'[v] : u \in late[v] \/ (u \in Turns /\ Live(u))
  BY <1>3 DEF TuiStops, Live, TmuxTypeOK
<1> QED
  BY <1>1, <1>2, <1>3 DEF Sweeps, Settles, Own, Create, PasteLands, EnterLands, agentVars

LEMMA AgesRemembered ==
    ASSUME TmuxTypeOK, Remembered, Ages,
           \A t \in Turns : \A u \in late'[t] : u \in late[t] \/ (u \in Turns /\ Live(u))
    PROVE  Remembered'
<1> SUFFICES ASSUME NEW t \in Turns
             PROVE  /\ Active(t)' => Others(t)' \subseteq rivals[t]
                    /\ \A u \in rivals[t] : u # t /\ pc'[u] # "new"
                    /\ Active(t)' /\ ~Prints(t) =>
                         \A u \in late'[t] \ {t} : name[u].role = name[t].role => u \in rivals[t]
  BY DEF Remembered, Ages, Prints
<1>1. Active(t)' => Others(t)' \subseteq rivals[t]
  BY AgesOthers DEF Remembered, Ages
<1>2. \A u \in rivals[t] : u # t /\ pc'[u] # "new"
  BY DEF Remembered, Ages, TmuxTypeOK
<1>3. ASSUME Active(t)', ~Prints(t), NEW u \in late'[t] \ {t}, name[u].role = name[t].role
      PROVE  u \in rivals[t]
  <2>1. Active(t)
    BY <1>3 DEF Ages
  <2>2. CASE u \in late[t]
    BY <1>3, <2>1, <2>2 DEF Remembered
  <2>3. CASE u \in Turns /\ Live(u)
    BY <1>3, <2>1, <2>3 DEF Remembered, Others
  <2> QED
    BY <1>3, <2>2, <2>3
<1> QED
  BY <1>1, <1>2, <1>3

\* What a turn finds and leaves when it begins.
Begins(t, n) ==
    /\ pc[t] = "new" /\ pane[t] = "none" /\ n.role = name[t].role
    /\ pc' = [pc EXCEPT ![t] = IF Prints(t) THEN "kill" ELSE "lock"]
    /\ name' = [name EXCEPT ![t] = n]
    /\ in' = [in EXCEPT ![n] = t]
    /\ \A u \in Turns \ {t} : /\ rivals[u] \subseteq rivals'[u] /\ rivals'[u] \subseteq rivals[u] \cup {t}
                              /\ u \in Others(t) /\ Active(u) => t \in rivals'[u]
    /\ rivals'[t] = Others(t)
    /\ Prints(t) => out' = [out EXCEPT ![n] = {}] /\ rc' = [rc EXCEPT ![n] = None]
    /\ ~Prints(t) => UNCHANGED <<out, rc>> /\ late'[t] = {}
    /\ \A u \in Turns : name[u] # n /\ tee[u] => tee'[u]
    /\ \A u \in Turns \ {t} : late'[u] = late[u]
    /\ UNCHANGED <<scoped, kind, pane, result, got, answer, stop>>

LEMMA BeginsForm ==
    ASSUME Panes, NEW t \in Turns, NEW fork \in Forks, WriteFiles(t, fork) \/ PrepareTui(t, fork)
    PROVE  \E n \in Names : Begins(t, n)
<1> DEFINE n == NameOf(t, name[t].role, fork)
<1>0. TmuxTypeOK /\ fork \in BOOLEAN
  BY TmuxTurnAssumption DEF Panes
<1>1. n \in Names /\ n.role = name[t].role
  BY <1>0, NamesOK
<1>2. Begin(t, fork)
  BY DEF WriteFiles, PrepareTui
<1>3. pc[t] = "new" /\ pane[t] = "none" /\ name' = [name EXCEPT ![t] = n]
  BY <1>2 DEF Begin, Panes, Fresh, Unborn, TmuxTypeOK
<1>4. /\ rivals'[t] = Others(t)
      /\ \A u \in Turns \ {t} : /\ rivals[u] \subseteq rivals'[u] /\ rivals'[u] \subseteq rivals[u] \cup {t}
                                /\ u \in Others(t) /\ Active(u) => t \in rivals'[u]
  BY <1>2 DEF Begin
<1>5. /\ in' = [in EXCEPT ![n] = t]
      /\ pc' = [pc EXCEPT ![t] = IF Prints(t) THEN "kill" ELSE "lock"]
      /\ Prints(t) => out' = [out EXCEPT ![n] = {}] /\ rc' = [rc EXCEPT ![n] = None]
      /\ UNCHANGED <<scoped, kind, pane, result, got, answer, stop>>
  BY DEF WriteFiles, PrepareTui, Clear, agentVars
<1>6. ~Prints(t) => UNCHANGED <<out, rc>> /\ late'[t] = {}
  BY <1>0 DEF WriteFiles, PrepareTui, TmuxTypeOK
<1>7. \A u \in Turns : name[u] # n /\ tee[u] => tee'[u]
  BY <1>0 DEF WriteFiles, PrepareTui, TmuxTypeOK
<1>8. \A u \in Turns \ {t} : late'[u] = late[u]
  BY <1>0 DEF WriteFiles, PrepareTui, TmuxTypeOK, agentVars
<1> HIDE DEF n
<1> QED
  BY <1>1, <1>3, <1>4, <1>5, <1>6, <1>7, <1>8 DEF Begins

LEMMA BeginsRemembered ==
    ASSUME Panes, Remembered, NEW t \in Turns, NEW n \in Names, Begins(t, n)
    PROVE  Remembered'
<1> SUFFICES ASSUME NEW u \in Turns
             PROVE  /\ Active(u)' => Others(u)' \subseteq rivals'[u]
                    /\ \A v \in rivals'[u] : v # u /\ pc'[v] # "new"
                    /\ Active(u)' /\ ~Prints(u)' =>
                         \A v \in late'[u] \ {u} : name'[v].role = name'[u].role => v \in rivals'[u]
  BY DEF Remembered
<1> USE DEF Panes, TmuxTypeOK
<1>0. /\ \A v \in Turns : name'[v].role = name[v].role /\ (Live(v)' <=> Live(v))
      /\ \A v \in Turns \ {t} : (Active(v)' <=> Active(v)) /\ pc'[v] = pc[v]
      /\ ~Live(t) /\ ~Active(t) /\ Active(t)' /\ pc'[t] # "new"
  BY DEF Begins, Live, Active
<1>1. CASE u = t
  <2>1. Others(t)' = Others(t)
    BY <1>0 DEF Others
  <2>2. \A v \in Others(t) : v # t /\ pc[v] # "new"
    BY DEF Others, Active, Live, Fresh, Unborn
  <2>3. ~Prints(t)' => late'[t] = {}
    BY DEF Begins, Prints
  <2> QED
    BY <1>0, <1>1, <2>1, <2>2, <2>3 DEF Begins, Others
<1>2. CASE u # t
  <2>0. /\ rivals[u] \subseteq rivals'[u] /\ rivals'[u] \subseteq rivals[u] \cup {t}
        /\ u \in Others(t) /\ Active(u) => t \in rivals'[u]
        /\ late'[u] = late[u] /\ UNCHANGED kind
    <3> HIDE DEF Panes, TmuxTypeOK
    <3>1. u \in Turns \ {t}
      BY <1>2
    <3> QED
      BY <3>1 DEF Begins
  <2>1. Active(u)' => Others(u)' \subseteq rivals'[u]
    <3> SUFFICES ASSUME Active(u)', NEW v \in Others(u)' PROVE v \in rivals'[u]
      OBVIOUS
    <3>1. CASE v = t
      <4>1. name[t].role = name[u].role /\ Active(u)
        BY <1>0, <1>2, <3>1 DEF Others
      <4> QED
        BY <1>2, <2>0, <3>1, <4>1 DEF Others
    <3>2. CASE v # t
      <4>1. v \in Others(u) /\ Active(u)
        BY <1>0, <1>2, <3>2 DEF Others
      <4> QED
        BY <2>0, <4>1 DEF Remembered
    <3> QED
      BY <3>1, <3>2
  <2>2. \A v \in rivals'[u] : v # u /\ pc'[v] # "new"
    BY <1>0, <1>2, <2>0 DEF Remembered
  <2>3. Active(u)' /\ ~Prints(u)' =>
           \A v \in late'[u] \ {u} : name'[v].role = name'[u].role => v \in rivals'[u]
    BY <1>0, <1>2, <2>0 DEF Remembered, Prints
  <2> QED
    BY <2>1, <2>2, <2>3
<1> QED
  BY <1>1, <1>2

LEMMA BeginsHanded ==
    ASSUME Panes, Handed, NEW t \in Turns, NEW n \in Names, Begins(t, n)
    PROVE  Handed'
<1> USE DEF Panes, TmuxTypeOK
<1>0. /\ \A v \in Turns : name'[v].role = name[v].role
      /\ \A v \in Turns \ {t} : pc'[v] = pc[v] /\ name'[v] = name[v]
      /\ pc[t] = "new" /\ pc'[t] # "new" /\ name'[t] = n /\ NoTurn \notin Turns
  BY TmuxAssumption DEF Begins, NoTurn
<1>1. \A m \in Names : in'[m] # NoTurn => name'[in'[m]] = m /\ pc'[in'[m]] # "new"
  BY <1>0 DEF Begins, Handed
<1>2. \A u \in Turns : got'[u] # NoTurn => name'[got'[u]].role = name'[u].role /\ pc'[got'[u]] # "new"
  BY <1>0 DEF Begins, Handed
<1> QED
  BY <1>1, <1>2 DEF Handed

LEMMA UnlinkedHanded ==
    ASSUME TmuxTypeOK, Handed, Ages, UNCHANGED got, NEW t \in Turns, in' = in \/ in' = Unlinked(t)
    PROVE  Handed'
<1>1. \A n \in Names : in'[n] # NoTurn => in'[n] = in[n]
  BY DEF Unlinked, TmuxTypeOK
<1>2. \A n \in Names : in[n] # NoTurn => in[n] \in Turns
  BY DEF TmuxTypeOK
<1>3. \A u \in Turns : got[u] # NoTurn => got[u] \in Turns
  BY DEF TmuxTypeOK
<1> QED
  BY <1>1, <1>2, <1>3 DEF Handed, Ages

LEMMA StepHanded ==
    ASSUME Panes, Handed,
           \/ Sweeps
           \/ \E t \in Turns : Settles(t) \/ Create(t) \/ PaneStep(t) \/ PasteLands(t) \/ EnterLands(t)
    PROVE  Handed'
<1>0. Ages /\ TmuxTypeOK
  BY StepAges DEF Panes
<1>1. CASE Sweeps
  <2>1. UNCHANGED <<in, got>>
    BY <1>1 DEF Sweeps, Own
  <2> QED
    BY <2>1, <1>0 DEF Handed, Ages, TmuxTypeOK
<1>2. ASSUME NEW t \in Turns, Settles(t) PROVE Handed'
  BY <1>0, <1>2, UnlinkedHanded DEF Settles, Own
<1>3. ASSUME NEW t \in Turns, Create(t) \/ EnterLands(t) PROVE Handed'
  BY <1>0, <1>3, UnlinkedHanded DEF Create, EnterLands, fileVars, agentVars
<1>4. ASSUME NEW t \in Turns, PaneStep(t), UNCHANGED got PROVE Handed'
  BY <1>0, <1>4, UnlinkedHanded DEF PaneStep, PaneStarts, PaneAnswers, PaneExits, TuiComesUp,
     TuiExits, TuiRefuses, TuiStops, fileVars
<1>5. ASSUME NEW t \in Turns, PaneStarts(t) PROVE Handed'
  <2>1. UNCHANGED in /\ got' = [got EXCEPT ![t] = in[name[t]]]
    BY <1>5 DEF PaneStarts
  <2>2. name[t] \in Names
    BY <1>0 DEF TmuxTypeOK
  <2>3. \A u \in Turns : got'[u] # NoTurn =>
           got'[u] \in Turns /\ name[got'[u]].role = name[u].role /\ pc[got'[u]] # "new"
    BY <1>0, <2>1, <2>2 DEF Handed, TmuxTypeOK
  <2>4. \A n \in Names : in[n] # NoTurn => in[n] \in Turns
    BY <1>0 DEF TmuxTypeOK
  <2> QED
    BY <1>0, <2>1, <2>3, <2>4 DEF Handed, Ages
<1>6. ASSUME NEW t \in Turns, PasteLands(t) PROVE Handed'
  <2>1. /\ UNCHANGED in /\ name[t] \in Names
        /\ got' = [u \in Turns |-> IF u \in Target(t) /\ pane[u] = "ready" THEN in[name[t]] ELSE got[u]]
    BY <1>0, <1>6 DEF PasteLands, fileVars, TmuxTypeOK
  <2>2. \A u \in Target(t) : name[u].role = name[t].role
    BY TargetLive
  <2>3. \A u \in Turns : got'[u] # NoTurn =>
           got'[u] \in Turns /\ name[got'[u]].role = name[u].role /\ pc[got'[u]] # "new"
    BY <1>0, <2>1, <2>2 DEF Handed, TmuxTypeOK
  <2>4. \A n \in Names : in[n] # NoTurn => in[n] \in Turns
    BY <1>0 DEF TmuxTypeOK
  <2> QED
    BY <1>0, <2>1, <2>3, <2>4 DEF Handed, Ages
<1>7. ASSUME NEW t \in Turns, PaneStep(t) PROVE PaneStarts(t) \/ UNCHANGED got
  BY <1>7 DEF PaneStep, PaneAnswers, PaneExits, TuiComesUp, TuiExits, TuiRefuses, TuiStops, agentVars
<1> QED
  BY <1>1, <1>2, <1>3, <1>4, <1>5, <1>6, <1>7

-----------------------------------------------------------------------------
(* The files.                                                              *)

Ground == Panes /\ Remembered /\ Handed

\* To show after a step by which no turn begins: what is claimed of a turn that is under
\* way and has no namesake, from the same of it before.
LEMMA AgesFiles ==
    ASSUME OwnFiles, Ages,
           ASSUME NEW t \in Turns, Active(t), Active(t)', Namesakes(t) = {}, in[name[t]] = t,
                  Prints(t) => Told(t)
           PROVE  in'[name[t]] = t /\ (Prints(t) => Told(t)')
    PROVE  OwnFiles'
<1> SUFFICES ASSUME NEW t \in Turns, Active(t)', Namesakes(t)' = {}
             PROVE  in'[name[t]] = t /\ (Prints(t) => Told(t)')
  BY DEF OwnFiles, Ages, Prints
<1>1. Active(t) /\ Namesakes(t) = {}
  BY DEF Ages, Namesakes
<1> QED
  BY <1>1 DEF OwnFiles

\* The files stay, the panes stay or go.
LEMMA ToldShuts ==
    ASSUME Panes, NEW t \in Turns, Told(t), Shuts, UNCHANGED <<name, out, rc, tee, got, answer>>
    PROVE  Told(t)'
BY DEF Panes, TmuxTypeOK, Told, Shuts, Live

LEMMA SettlesFiles ==
    ASSUME Ground, OwnFiles, NEW u \in Turns, Settles(u)
    PROVE  OwnFiles'
<1> USE DEF Ground
<1>1. Ages /\ TmuxTypeOK
  BY StepAges DEF Panes
<1>2. ASSUME NEW t \in Turns, Active(t), Active(t)', Namesakes(t) = {}, in[name[t]] = t,
             Prints(t) => Told(t)
      PROVE  in'[name[t]] = t /\ (Prints(t) => Told(t)')
  <2>1. Prints(t) => Told(t)'
    BY <1>2, ToldShuts DEF Settles, Own
  <2>2. in'[name[t]] = in[name[t]]
    <3>1. CASE u = t
      BY <1>2, <3>1 DEF Settles, Active
    <3>2. CASE u # t
      <4>1. name[u] # name[t]
        BY <1>1, <1>2, <3>2, OtherName DEF Settles
      <4> QED
        BY <4>1, <1>1 DEF Settles, Unlinked, TmuxTypeOK
    <3> QED
      BY <3>1, <3>2
  <2> QED
    BY <1>2, <2>1, <2>2
<1> QED
  BY <1>1, <1>2, AgesFiles

LEMMA SweepsFiles ==
    ASSUME Ground, OwnFiles, Sweeps
    PROVE  OwnFiles'
<1>1. Ages
  BY StepAges DEF Ground, Panes
<1>2. ASSUME NEW t \in Turns, Active(t), Active(t)', Namesakes(t) = {}, in[name[t]] = t,
             Prints(t) => Told(t)
      PROVE  in'[name[t]] = t /\ (Prints(t) => Told(t)')
  BY <1>2, ToldShuts DEF Sweeps, Own, Ground
<1> QED
  BY <1>1, <1>2, AgesFiles

LEMMA CreateFiles ==
    ASSUME Ground, OwnFiles, NEW u \in Turns, Create(u)
    PROVE  OwnFiles'
<1>1. Ages
  BY StepAges DEF Ground, Panes
<1>2. ASSUME NEW t \in Turns, Active(t), Active(t)', Namesakes(t) = {}, in[name[t]] = t,
             Prints(t) => Told(t)
      PROVE  in'[name[t]] = t /\ (Prints(t) => Told(t)')
  <2>1. pane[u] = "none" /\ pane' = [pane EXCEPT ![u] = "starting"]
        /\ UNCHANGED <<name, in, out, rc, tee, got, answer>>
    BY DEF Create, Goto, NewPane, rest, fileVars, agentVars, Ground, Panes, Fresh, Unborn
  <2> QED
    BY <1>2, <2>1 DEF Told, Ground, Panes, TmuxTypeOK
<1> QED
  BY <1>1, <1>2, AgesFiles

LEMMA PasteFiles ==
    ASSUME Ground, OwnFiles, NEW u \in Turns, PasteLands(u)
    PROVE  OwnFiles'
<1>1. Ages
  BY StepAges DEF Ground, Panes
<1>2. ASSUME NEW t \in Turns, Active(t), Active(t)', Namesakes(t) = {}, in[name[t]] = t,
             Prints(t) => Told(t)
      PROVE  in'[name[t]] = t /\ (Prints(t) => Told(t)')
  <2>1. UNCHANGED <<name, pane, in, out, rc, tee, answer>>
    BY DEF PasteLands, rest, fileVars
  <2>2. Prints(t) => got'[t] = got[t]
    BY DEF PasteLands, Ground, Panes, Fresh
  <2> QED
    BY <1>2, <2>1, <2>2 DEF Told
<1> QED
  BY <1>1, <1>2, AgesFiles

LEMMA EnterFiles ==
    ASSUME Ground, OwnFiles, NEW u \in Turns, EnterLands(u)
    PROVE  OwnFiles'
<1>1. Ages
  BY StepAges DEF Ground, Panes
<1>2. ASSUME NEW t \in Turns, Active(t), Active(t)', Namesakes(t) = {}, in[name[t]] = t,
             Prints(t) => Told(t)
      PROVE  in'[name[t]] = t /\ (Prints(t) => Told(t)')
  <2>1. UNCHANGED <<name, got, in, out, rc, tee, answer>>
    BY DEF EnterLands, rest, fileVars, agentVars
  <2>2. PICK v \in Turns : EntersAt(u, v)
    BY EnterOne DEF Ground, Panes
  <2>3. Prints(t) => pane'[t] = pane[t]
    BY <2>2 DEF EntersAt, Ground, Panes, Fresh, TmuxTypeOK
  <2> QED
    BY <1>2, <2>1, <2>3 DEF Told
<1> QED
  BY <1>1, <1>2, AgesFiles

LEMMA PaneStartsFiles ==
    ASSUME Ground, OwnFiles, NEW u \in Turns, PaneStarts(u)
    PROVE  OwnFiles'
<1> USE DEF Ground, Panes
<1>1. Ages
  BY StepAges DEF PaneStep
<1>2. ASSUME NEW t \in Turns, Active(t), Active(t)', Namesakes(t) = {}, in[name[t]] = t,
             Prints(t) => Told(t)
      PROVE  in'[name[t]] = t /\ (Prints(t) => Told(t)')
  <2>1. /\ Live(u) /\ pane[u] = "starting"
        /\ got' = [got EXCEPT ![u] = in[name[u]]] /\ tee' = [tee EXCEPT ![u] = TRUE]
        /\ out' = [out EXCEPT ![name[u]] = {}] /\ pane' = [pane EXCEPT ![u] = "working"]
        /\ UNCHANGED <<name, in, rc, answer>>
    BY DEF PaneStarts, Live, rest
  <2>2. CASE u = t
    BY <1>2, <2>1, <2>2 DEF Told, TmuxTypeOK
  <2>3. CASE u # t
    <3>1. name[u] # name[t]
      BY <1>2, <2>1, <2>3, OtherName
    <3> QED
      BY <1>2, <2>1, <2>3, <3>1 DEF Told, TmuxTypeOK
  <2> QED
    BY <2>2, <2>3
<1> QED
  BY <1>1, <1>2, AgesFiles

LEMMA PaneAnswersFiles ==
    ASSUME Ground, OwnFiles, NEW u \in Turns, PaneAnswers(u)
    PROVE  OwnFiles'
<1> USE DEF Ground, Panes
<1>1. Ages
  BY StepAges DEF PaneStep
<1>2. ASSUME NEW t \in Turns, Active(t), Active(t)', Namesakes(t) = {}, in[name[t]] = t,
             Prints(t) => Told(t)
      PROVE  in'[name[t]] = t /\ (Prints(t) => Told(t)')
  <2>1. /\ Live(u) /\ pane[u] = "working" /\ Prints(u)
        /\ \E a \in Answers : answer' = [answer EXCEPT ![u] = a]
        /\ out' = IF tee[u] THEN [out EXCEPT ![name[u]] = @ \cup {u}] ELSE out
        /\ pane' = [pane EXCEPT ![u] = "answered"]
        /\ UNCHANGED <<name, in, rc, got, tee>>
    BY DEF PaneAnswers, Live, rest
  <2>2. CASE u = t
    <3>1. answer'[t] # None
      BY <2>1, <2>2 DEF TmuxTypeOK, Answers, None
    <3>2. out[name[t]] = {} /\ tee[t] /\ got[t] = t /\ rc[name[t]] = None
      BY <1>2, <2>1, <2>2 DEF Told
    <3>3. out'[name[t]] = {t} /\ pane'[t] = "answered"
      BY <2>1, <2>2, <3>2 DEF TmuxTypeOK
    <3> QED
      BY <1>2, <2>1, <3>1, <3>2, <3>3 DEF Told, None
  <2>3. CASE u # t
    <3>1. name[u] # name[t]
      BY <1>2, <2>1, <2>3, OtherName
    <3>2. /\ out'[name[t]] = out[name[t]] /\ pane'[t] = pane[t] /\ answer'[t] = answer[t]
      BY <2>1, <2>3, <3>1 DEF TmuxTypeOK
    <3> QED
      BY <1>2, <2>1, <3>2 DEF Told
  <2> QED
    BY <2>2, <2>3
<1> QED
  BY <1>1, <1>2, AgesFiles

LEMMA PaneExitsFiles ==
    ASSUME Ground, OwnFiles, NEW u \in Turns, PaneExits(u)
    PROVE  OwnFiles'
<1> USE DEF Ground, Panes
<1>1. Ages
  BY StepAges DEF PaneStep
<1>2. ASSUME NEW t \in Turns, Active(t), Active(t)', Namesakes(t) = {}, in[name[t]] = t,
             Prints(t) => Told(t)
      PROVE  in'[name[t]] = t /\ (Prints(t) => Told(t)')
  <2>1. /\ Live(u) /\ pane[u] = "answered" /\ Prints(u)
        /\ rc' = [rc EXCEPT ![name[u]] = IF answer[u] \in {"ok", "limited"} THEN "zero" ELSE "nonzero"]
        /\ pane' = [pane EXCEPT ![u] = "gone"]
        /\ UNCHANGED <<name, in, out, got, tee, answer>>
    BY DEF PaneExits, Live, rest, agentVars
  <2>2. CASE u = t
    BY <1>2, <2>1, <2>2 DEF Told, TmuxTypeOK
  <2>3. CASE u # t
    <3>1. name[u] # name[t]
      BY <1>2, <2>1, <2>3, OtherName
    <3>2. rc'[name[t]] = rc[name[t]] /\ pane'[t] = pane[t]
      BY <2>1, <2>3, <3>1 DEF TmuxTypeOK
    <3> QED
      BY <1>2, <2>1, <3>2 DEF Told
  <2> QED
    BY <2>2, <2>3
<1> QED
  BY <1>1, <1>2, AgesFiles

LEMMA TuiPaneFiles ==
    ASSUME Ground, OwnFiles, NEW u \in Turns,
           TuiComesUp(u) \/ TuiExits(u) \/ TuiRefuses(u) \/ TuiStops(u)
    PROVE  OwnFiles'
<1> USE DEF Ground, Panes
<1>1. Ages
  BY StepAges DEF PaneStep
<1>2. ASSUME NEW t \in Turns, Active(t), Active(t)', Namesakes(t) = {}, in[name[t]] = t,
             Prints(t) => Told(t)
      PROVE  in'[name[t]] = t /\ (Prints(t) => Told(t)')
  <2>1. /\ ~Prints(u) /\ UNCHANGED <<name, in, out, rc, got, tee>>
        /\ \A v \in Turns \ {u} : pane'[v] = pane[v] /\ answer'[v] = answer[v]
    BY DEF TuiComesUp, TuiExits, TuiRefuses, TuiStops, rest, fileVars, agentVars, TmuxTypeOK
  <2> QED
    BY <1>2, <2>1 DEF Told
<1> QED
  BY <1>1, <1>2, AgesFiles

LEMMA BeginsFiles ==
    ASSUME Ground, OwnFiles, NEW u \in Turns, NEW n \in Names, Begins(u, n)
    PROVE  OwnFiles'
<1> USE DEF Ground, Panes, TmuxTypeOK
<1> SUFFICES ASSUME NEW t \in Turns, Active(t)', Namesakes(t)' = {}
             PROVE  in'[name'[t]] = t /\ (Prints(t)' => Told(t)')
  BY DEF OwnFiles
<1>1. CASE u = t
  <2>1. name'[t] = n /\ in'[n] = t /\ pane'[t] = "none"
    BY <1>1 DEF Begins
  <2>2. ASSUME Prints(t)' PROVE out'[n] = {} /\ rc'[n] = None
    BY <1>1, <2>2 DEF Begins, Prints
  <2> QED
    BY <2>1, <2>2 DEF Told, None
<1>2. CASE u # t
  <2>1. /\ name'[t] = name[t] /\ pane'[t] = pane[t] /\ got'[t] = got[t] /\ answer'[t] = answer[t]
        /\ UNCHANGED kind /\ Active(t)
    BY <1>2 DEF Begins, Active
  <2>2. Namesakes(t) = {}
    <3>1. rivals[t] \subseteq rivals'[t]
      BY <1>2 DEF Begins
    <3>2. \A v \in rivals[t] : name'[v] = name[v]
      BY DEF Begins, Remembered
    <3> QED
      BY <2>1, <3>1, <3>2 DEF Namesakes
  <2>3. n # name[t]
    <3> SUFFICES ASSUME n = name[t] PROVE FALSE
      OBVIOUS
    <3>1. t \in Others(u)
      BY <1>2, <2>1 DEF Others, Begins
    <3>2. u \in rivals'[t] /\ name'[u] = n
      BY <1>2, <2>1, <3>1 DEF Begins
    <3> QED
      BY <2>1, <3>2 DEF Namesakes
  <2>4. in'[name[t]] = in[name[t]] /\ out'[name[t]] = out[name[t]] /\ rc'[name[t]] = rc[name[t]]
        /\ (tee[t] => tee'[t])
    BY <2>3 DEF Begins
  <2>5. in[name[t]] = t /\ (Prints(t) => Told(t))
    BY <2>1, <2>2 DEF OwnFiles
  <2> QED
    BY <2>1, <2>4, <2>5 DEF Told, Prints
<1> QED
  BY <1>1, <1>2

-----------------------------------------------------------------------------
(* The panes of the TUI.                                                   *)

LEMMA AgesPane ==
    ASSUME OwnPane, Ages,
           ASSUME NEW t \in Turns, Active(t), ~Prints(t), rivals[t] = {}, Shown(t)
           PROVE  Shown(t)'
    PROVE  OwnPane'
<1> SUFFICES ASSUME NEW t \in Turns, Active(t)', ~Prints(t), rivals[t] = {}
             PROVE  Shown(t)'
  BY DEF OwnPane, Ages, Prints
<1>1. Active(t)
  BY DEF Ages
<1> QED
  BY <1>1 DEF OwnPane

LEMMA ShownShuts ==
    ASSUME Panes, NEW t \in Turns, Shown(t), Shuts, UNCHANGED <<got, answer>>
    PROVE  Shown(t)'
BY DEF Panes, TmuxTypeOK, Shown, Shuts

LEMMA PastePane ==
    ASSUME Ground, OwnFiles, OwnPane, NEW u \in Turns, PasteLands(u)
    PROVE  OwnPane'
<1> USE DEF Ground, Panes
<1>1. Ages
  BY StepAges
<1>2. ASSUME NEW t \in Turns, Active(t), ~Prints(t), rivals[t] = {}, Shown(t)
      PROVE  Shown(t)'
  <2>1. /\ got'[t] = IF t \in Target(u) /\ pane[t] = "ready" THEN in[name[u]] ELSE got[t]
        /\ UNCHANGED <<pane, answer>> /\ Active(u)
    BY DEF PasteLands, Goto, Active
  <2>2. CASE t \in Target(u) /\ pane[t] = "ready"
    <3>1. u = t
      BY <1>2, <2>1, <2>2, TargetLive, OtherRole
    <3>2. in[name[t]] = t
      BY <1>2 DEF OwnFiles, Namesakes
    <3> QED
      BY <1>2, <2>1, <2>2, <3>1, <3>2 DEF Shown
  <2> QED
    BY <1>2, <2>1, <2>2 DEF Shown
<1> QED
  BY <1>1, <1>2, AgesPane

LEMMA EnterPane ==
    ASSUME Ground, OwnPane, NEW u \in Turns, EnterLands(u)
    PROVE  OwnPane'
<1> USE DEF Ground, Panes
<1>1. Ages
  BY StepAges
<1>2. ASSUME NEW t \in Turns, Active(t), ~Prints(t), rivals[t] = {}, Shown(t)
      PROVE  Shown(t)'
  <2>1. PICK v \in Turns : EntersAt(u, v)
    BY EnterOne
  <2>2. UNCHANGED <<got, answer>>
    BY DEF EnterLands, agentVars
  <2>3. CASE v = t
    BY <1>2, <2>1, <2>2, <2>3 DEF EntersAt, Shown
  <2>4. CASE v # t
    BY <1>2, <2>1, <2>2, <2>4 DEF EntersAt, Shown, TmuxTypeOK
  <2> QED
    BY <2>3, <2>4
<1> QED
  BY <1>1, <1>2, AgesPane

LEMMA PaneStepPane ==
    ASSUME Ground, OwnPane, NEW u \in Turns, PaneStep(u)
    PROVE  OwnPane'
<1> USE DEF Ground, Panes
<1>1. Ages
  BY StepAges
<1>2. ASSUME NEW t \in Turns, Active(t), ~Prints(t), rivals[t] = {}, Shown(t)
      PROVE  Shown(t)'
  <2>1. ASSUME t # u
        PROVE  pane'[t] = pane[t] /\ got'[t] = got[t] /\ answer'[t] = answer[t]
    BY <2>1 DEF PaneStep, PaneStarts, PaneAnswers, PaneExits, TuiComesUp, TuiExits, TuiRefuses,
       TuiStops, agentVars, TmuxTypeOK
  <2>2. ASSUME t = u
        PROVE  /\ got'[t] = got[t]
               /\ \/ pane'[t] \in {"ready", "held", "gone"} /\ answer'[t] = answer[t]
                  \/ pane[t] = "working"
    BY <1>2, <2>2 DEF PaneStep, PaneStarts, PaneAnswers, PaneExits, TuiComesUp, TuiExits, TuiRefuses,
       TuiStops, agentVars, TmuxTypeOK
  <2> QED
    BY <1>2, <2>1, <2>2 DEF Shown
<1> QED
  BY <1>1, <1>2, AgesPane

LEMMA BeginsPane ==
    ASSUME Ground, OwnPane, NEW u \in Turns, NEW n \in Names, Begins(u, n)
    PROVE  OwnPane'
<1> SUFFICES ASSUME NEW t \in Turns, Active(t)', ~Prints(t)', rivals'[t] = {}
             PROVE  Shown(t)'
  BY DEF OwnPane
<1>1. UNCHANGED <<kind, pane, got, answer>>
  BY DEF Begins
<1>2. CASE t = u
  BY <1>1, <1>2 DEF Begins, Shown, Ground, Panes, Fresh
<1>3. CASE t # u
  <2>1. Active(t) /\ rivals[t] = {}
    BY <1>3 DEF Begins, Active, Ground, Panes, TmuxTypeOK
  <2> QED
    BY <1>1, <2>1 DEF OwnPane, Shown, Prints
<1> QED
  BY <1>2, <1>3

LEMMA StepPane ==
    ASSUME Ground, OwnFiles, OwnPane,
           \/ Sweeps
           \/ \E t \in Turns : \/ Settles(t) \/ Create(t) \/ PaneStep(t) \/ PasteLands(t)
                              \/ EnterLands(t)
                              \/ \E n \in Names : Begins(t, n)
    PROVE  OwnPane'
<1>1. ASSUME Sweeps \/ \E t \in Turns : Settles(t) PROVE OwnPane'
  <2>1. Shuts /\ UNCHANGED <<got, answer>>
    BY <1>1 DEF Sweeps, Settles, Own
  <2>2. Ages
    BY <1>1, StepAges DEF Ground, Panes
  <2> QED
    BY <2>1, <2>2, AgesPane, ShownShuts DEF Ground
<1>2. ASSUME NEW t \in Turns, Create(t) PROVE OwnPane'
  <2>1. UNCHANGED <<got, answer>> /\ pane' = [pane EXCEPT ![t] = "starting"]
    BY <1>2 DEF Create, NewPane, agentVars
  <2>2. Ages
    BY <1>2, StepAges DEF Ground, Panes
  <2>3. ASSUME NEW u \in Turns, Shown(u) PROVE Shown(u)'
    BY <2>1, <2>3 DEF Shown, Ground, Panes, TmuxTypeOK
  <2> QED
    BY <2>2, <2>3, AgesPane
<1> QED
  BY <1>1, <1>2, PaneStepPane, PastePane, EnterPane, BeginsPane

-----------------------------------------------------------------------------
(* The results.                                                            *)

\* A result is "ok" before or after its turn is read.
LEMMA UndisturbedBefore ==
    ASSUME TmuxTypeOK, Remembered, NEW t \in Turns, UNCHANGED kind, Undisturbed(t)',
           rivals[t] \subseteq rivals'[t], name'[t] = name[t], \A u \in rivals[t] : name'[u] = name[u]
    PROVE  Undisturbed(t)
<1>1. CASE Prints(t)
  BY <1>1 DEF Undisturbed, Namesakes, Prints
<1>2. CASE ~Prints(t)
  BY <1>2 DEF Undisturbed, Prints
<1> QED
  BY <1>1, <1>2

\* With its files to itself, a turn takes for success what its agent answered.
LEMMA FilesTellTrue ==
    ASSUME Ground, NEW t \in Turns, Told(t), Prints(t), result'[t].from = out[name[t]],
           rc[name[t]] = "zero" \/ (~Live(t) /\ Terminal(t)),
           kind[t] = "claude" => ~Says(t, "limited")
    PROVE  /\ result'[t].from = {t} /\ got[t] = t /\ answer[t] = "ok"
           /\ pane[t] \in {"answered", "gone"}
<1>1. out[name[t]] = {t} /\ answer[t] \in {"ok", "limited"}
  BY DEF Told, Terminal, Says, None
<1>2. answer[t] # "limited"
  BY <1>1 DEF Says, Ground, Panes, Fresh
<1>3. pane[t] \in {"none", "gone"}
  BY DEF Told, Live, None
<1>4. pane[t] # "none"
  BY <1>1 DEF Ground, Panes, Fresh, None
<1> QED
  BY <1>1, <1>2, <1>3, <1>4 DEF Told

\* With its role to itself, a turn of the TUI finds its own sentinel only.
LEMMA SentinelIsOwn ==
    ASSUME Ground, OwnPane, NEW t \in Turns, Active(t), ~Prints(t), rivals[t] = {}, NEW u \in Found(t)
    PROVE  u = t /\ got[t] = t /\ pane[t] \in {"answered", "gone"}
<1>1. u = t /\ stop[t]
  <2>1. CASE knowsSid[t]
    BY <2>1 DEF Found
  <2>2. CASE ~knowsSid[t]
    <3>1. /\ u \in late[t] /\ u \in Turns /\ stop[u] /\ got[u] # NoTurn
          /\ name[got[u]].role = name[t].role
      BY <2>2 DEF Found, Discovered, Ground, Panes, TmuxTypeOK
    <3>2. name[u].role = name[t].role
      BY <3>1 DEF Ground, Handed
    <3> QED
      BY <3>1, <3>2 DEF Ground, Remembered
  <2> QED
    BY <2>1, <2>2
<1>2. answer[t] = "ok"
  BY <1>1 DEF Ground, Panes, Fresh
<1>3. pane[t] \in {"answered", "gone"}
  BY <1>2 DEF Ground, Panes, Fresh, None
<1>4. got[t] = t
  BY <1>2 DEF OwnPane, Shown, None
<1> QED
  BY <1>1, <1>3, <1>4

\* The forms of a step, with what a turn finds when it begins.
AnyForm ==
    \/ Sweeps
    \/ \E t \in Turns : \/ Settles(t) \/ Create(t) \/ PaneStep(t) \/ PasteLands(t) \/ EnterLands(t)
                       \/ \E n \in Names : Begins(t, n)

LEMMA AnyFormAges ==
    ASSUME TmuxTypeOK, OneByName, AnyForm
    PROVE  Ages \/ \E t \in Turns : \E n \in Names : Begins(t, n)
BY StepAges DEF AnyForm

\* An agent that has answered does nothing more.
LEMMA AnsweredStays ==
    ASSUME Ground, AnyForm, NEW t \in Turns, pane[t] \in {"answered", "gone"}
    PROVE  /\ got'[t] = got[t] /\ answer'[t] = answer[t]
           /\ pane'[t] \in {"answered", "gone"}
<1> USE DEF Ground, Panes
<1>1. ASSUME Sweeps \/ \E u \in Turns : Settles(u)
      PROVE  got'[t] = got[t] /\ answer'[t] = answer[t] /\ pane'[t] \in {"answered", "gone"}
  <2>1. Shuts /\ UNCHANGED <<got, answer>>
    BY <1>1 DEF Sweeps, Settles, Own
  <2> QED
    BY <2>1 DEF Shuts
<1>2. ASSUME NEW u \in Turns, Create(u)
      PROVE  got'[t] = got[t] /\ answer'[t] = answer[t] /\ pane'[t] \in {"answered", "gone"}
  <2>1. t # u
    BY <1>2 DEF Create, Goto, Fresh, Unborn
  <2> QED
    BY <1>2, <2>1 DEF Create, NewPane, agentVars, TmuxTypeOK
<1>3. ASSUME NEW u \in Turns, PaneStep(u)
      PROVE  got'[t] = got[t] /\ answer'[t] = answer[t] /\ pane'[t] \in {"answered", "gone"}
  BY <1>3 DEF PaneStep, PaneStarts, PaneAnswers, PaneExits, TuiComesUp, TuiExits, TuiRefuses,
     TuiStops, agentVars, TmuxTypeOK
<1>4. ASSUME NEW u \in Turns, PasteLands(u)
      PROVE  got'[t] = got[t] /\ answer'[t] = answer[t] /\ pane'[t] \in {"answered", "gone"}
  BY <1>4 DEF PasteLands
<1>5. ASSUME NEW u \in Turns, EnterLands(u)
      PROVE  got'[t] = got[t] /\ answer'[t] = answer[t] /\ pane'[t] \in {"answered", "gone"}
  <2>1. PICK v \in Turns : EntersAt(u, v)
    BY <1>5, EnterOne
  <2> QED
    BY <1>5, <2>1 DEF EnterLands, EntersAt, agentVars, TmuxTypeOK
<1>6. ASSUME NEW u \in Turns, NEW n \in Names, Begins(u, n)
      PROVE  got'[t] = got[t] /\ answer'[t] = answer[t] /\ pane'[t] \in {"answered", "gone"}
  BY <1>6 DEF Begins
<1> QED
  BY <1>1, <1>2, <1>3, <1>4, <1>5, <1>6 DEF AnyForm

\* Only a step of its own changes what a turn came to.
LEMMA ResultForm ==
    ASSUME AnyForm, NEW t \in Turns, result'[t] # result[t]
    PROVE  Settles(t)
<1>1. ~Sweeps
  BY DEF Sweeps
<1>2. ASSUME NEW u \in Turns, Create(u) \/ PaneStep(u) \/ PasteLands(u) \/ EnterLands(u)
      PROVE  FALSE
  BY <1>2 DEF Create, PaneStep, PaneStarts, PaneAnswers, PaneExits, TuiComesUp, TuiExits,
     TuiRefuses, TuiStops, PasteLands, EnterLands
<1>3. ASSUME NEW u \in Turns, NEW n \in Names, Begins(u, n) PROVE FALSE
  BY <1>3 DEF Begins
<1>4. ASSUME NEW u \in Turns \ {t}, Settles(u) PROVE FALSE
  BY <1>4 DEF Settles
<1> QED
  BY <1>1, <1>2, <1>3, <1>4 DEF AnyForm

LEMMA AnyUndisturbed ==
    ASSUME Ground, AnyForm, NEW t \in Turns, Undisturbed(t)',
           result[t].kind = "ok" \/ pc[t] # "new"
    PROVE  UNCHANGED kind /\ Undisturbed(t)
<1> USE DEF Ground, Panes
<1>1. ASSUME NEW u \in Turns, NEW n \in Names, Begins(u, n) PROVE UNCHANGED kind /\ Undisturbed(t)
  <2>1. t # u
    BY <1>1 DEF Begins, Fresh, Judged, None
  <2>2. rivals[t] \subseteq rivals'[t] /\ UNCHANGED kind /\ name'[t] = name[t]
    BY <1>1, <2>1 DEF Begins, TmuxTypeOK
  <2>3. \A v \in rivals[t] : name'[v] = name[v]
    BY <1>1 DEF Begins, Remembered, TmuxTypeOK
  <2> QED
    BY <2>2, <2>3, UndisturbedBefore
<1>2. CASE Ages
  <2>1. UNCHANGED <<kind, name, rivals>>
    BY <1>2 DEF Ages
  <2> QED
    BY <2>1, UndisturbedBefore
<1> QED
  BY <1>1, <1>2, AnyFormAges

LEMMA StepKept ==
    ASSUME AnswerInv, AnyForm
    PROVE  Kept'
<1> USE DEF AnswerInv
<1>0. TmuxTypeOK /\ Ground
  BY DEF Ground, Panes
<1> SUFFICES ASSUME NEW t \in Turns, result'[t].kind = "ok", Undisturbed(t)'
             PROVE  /\ result'[t].from = {t} /\ got'[t] = t
                    /\ pane'[t] \in {"answered", "gone"}
                    /\ Prints(t)' => answer'[t] = "ok"
  BY DEF Kept
<1>1. CASE result'[t] = result[t]
  <2>1. UNCHANGED kind /\ Undisturbed(t)
    BY <1>0, <1>1, AnyUndisturbed
  <2>2. /\ result[t].from = {t} /\ got[t] = t /\ pane[t] \in {"answered", "gone"}
        /\ Prints(t) => answer[t] = "ok"
    BY <1>1, <2>1 DEF Kept
  <2>3. /\ got'[t] = got[t] /\ pane'[t] \in {"answered", "gone"} /\ answer'[t] = answer[t]
    BY <1>0, <2>2, AnsweredStays
  <2> QED
    BY <1>1, <2>1, <2>2, <2>3 DEF Prints
<1>2. CASE result'[t] # result[t]
  <2>1. Settles(t)
    BY <1>2, ResultForm
  <2>2. /\ Active(t) /\ UNCHANGED <<pane, got, answer>>
        /\ EarnedByFiles(t) \/ EarnedBySentinel(t)
    BY <1>2, <2>1 DEF Settles, Own
  <2>3. UNCHANGED kind /\ Undisturbed(t)
    BY <1>0, <2>2, AnyUndisturbed DEF Active
  <2>4. CASE EarnedByFiles(t)
    <3>1. Prints(t) /\ Told(t)
      BY <2>2, <2>3, <2>4 DEF EarnedByFiles, Undisturbed, OwnFiles
    <3> QED
      BY <1>0, <2>2, <2>4, <3>1, FilesTellTrue DEF EarnedByFiles
  <2>5. CASE EarnedBySentinel(t)
    <3>1. ~Prints(t) /\ rivals[t] = {}
      BY <2>3, <2>5 DEF EarnedBySentinel, Undisturbed
    <3>2. PICK u \in Found(t) : result'[t].from = {u}
      BY <2>5 DEF EarnedBySentinel
    <3> QED
      BY <1>0, <2>2, <2>3, <3>1, <3>2, SentinelIsOwn DEF Prints
  <2> QED
    BY <2>2, <2>4, <2>5
<1> QED
  BY <1>1, <1>2

LEMMA StepFiles ==
    ASSUME Ground, OwnFiles, AnyForm
    PROVE  OwnFiles'
<1>1. ASSUME NEW t \in Turns, PaneStep(t) PROVE OwnFiles'
  BY <1>1, PaneStartsFiles, PaneAnswersFiles, PaneExitsFiles, TuiPaneFiles DEF PaneStep
<1> QED
  BY <1>1, SweepsFiles, SettlesFiles, CreateFiles, PasteFiles, EnterFiles, BeginsFiles DEF AnyForm

LEMMA NextAnswer == AnswerInv /\ NoPaneLeft /\ [Next]_vars => AnswerInv'
<1> SUFFICES ASSUME AnswerInv, NoPaneLeft, [Next]_vars PROVE AnswerInv'
  OBVIOUS
<1> USE DEF AnswerInv
<1>0. TmuxTypeOK /\ Fresh /\ OneByName /\ Ground
  BY DEF Ground, Panes
<1>1. AnyForm
  BY <1>0, StepForms, BeginsForm DEF AnyForm, StepForm
<1>2. Panes'
  BY NextPanes
<1>3. Remembered' /\ Handed'
  <2>1. ASSUME NEW t \in Turns, NEW n \in Names, Begins(t, n) PROVE Remembered' /\ Handed'
    BY <2>1, BeginsRemembered, BeginsHanded
  <2>2. ASSUME \/ Sweeps
               \/ \E t \in Turns : \/ Settles(t) \/ Create(t) \/ PaneStep(t) \/ PasteLands(t)
                                  \/ EnterLands(t)
        PROVE  Remembered' /\ Handed'
    BY <1>0, <2>2, StepAges, LateStep, AgesRemembered, StepHanded
  <2> QED
    BY <1>1, <2>1, <2>2 DEF AnyForm
<1>4. OwnFiles' /\ OwnPane'
  BY <1>0, <1>1, StepFiles, StepPane DEF AnyForm
<1>5. Kept'
  BY <1>1, StepKept
<1> QED
  BY <1>2, <1>3, <1>4, <1>5

\* A turn that reports success has the answer of its own agent to its own prompt, unless
\* another of its name (of its role, for the TUI) was in the way.
THEOREM AnswerIsOwn == Spec => []OwnAnswer
<1>1. Spec => []AnswerInv
  BY InitAnswer, NextAnswer, PanesInv, PTL DEF Spec
<1>2. AnswerInv => OwnAnswer
  BY DEF AnswerInv, Kept, OwnAnswer, Undisturbed
<1> QED
  BY <1>1, <1>2, PTL
=============================================================================
