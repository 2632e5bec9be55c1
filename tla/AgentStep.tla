------------------------------ MODULE AgentStep ------------------------------
(***************************************************************************)
(* agent_step (prefect_orchestration/agent_step.py): one agent turn        *)
(* against one bead, for a formula that calls it step after step, is       *)
(* killed and runs again.  A role-step <<step, n>> is named by the         *)
(* convention id <seed>-<step>-iter<n>; on dolt that id is the bead, on br *)
(* the backend mints its own id, which iter-bead-ids.json remembers.       *)
(*                                                                         *)
(* The text of a closed bead, its close reason and its notes, is           *)
(* abstracted to the keyword it leads with and the set of words in either. *)
(* It is what the bead has when it is closed: nothing is noted later.  A   *)
(* session id is a number that is only compared.                           *)
(***************************************************************************)
EXTENDS Integers, Sequences, FiniteSets

CONSTANTS
    Steps,          \* step names; each step has a role, hence a session
    MaxIters,       \* iterations of a step
    Keywords,       \* verdict_keywords of a step, in order
    CloseReasons,   \* the reasons, with the notes, an agent may close a step's bead with
    Required,       \* steps called with required_artifacts
    Backends,       \* the beads backends a rig may use
    Survive,        \* TRUE: an agent may outlive its killed flow process
    Pool,           \* OAuth slots in the token file
    MaxCalls,       \* bound: calls of agent_step
    ProbeFaults,    \* TRUE: `bd show` may time out and read as "not found"
    MapFaults,      \* TRUE: a write of iter-bead-ids.json may fail or tear
    Resurrects      \* TRUE: `bd create --id` of a closed bead reopens it

Keys == Steps \X (1..MaxIters)
Minted == {"minted"} \X (1..MaxCalls)
Beads == Keys \cup Minted
NoBead == <<"none", 0>>
Slots == 0..(Pool - 1)
Sessions == 0..5                \* 0: no session
NoReason == [lead |-> "none", says |-> {}]
Silent == [lead |-> "", says |-> {}]
ForceReason == [lead |-> "agent did not close bead", says |-> {"failed"}]
Reasons == {NoReason, ForceReason} \cup UNION {CloseReasons[s] : s \in Steps}

ASSUME StepsAssumption == Steps \subseteq STRING /\ "minted" \notin Steps
ASSUME KeywordsAssumption == Keywords \in [Steps -> Seq(STRING \ {"failed"})]
ASSUME ReasonsAssumption ==
    \A s \in Steps : CloseReasons[s] \cap {NoReason, ForceReason} = {}
ASSUME BoundsAssumption ==
    MaxIters \in Nat \ {0} /\ Pool \in Nat \ {0} /\ MaxCalls \in Nat
ASSUME SwitchesAssumption ==
    /\ Required \subseteq Steps
    /\ Backends \subseteq {"dolt", "br"}
    /\ {Survive, ProbeFaults, MapFaults, Resurrects} \subseteq BOOLEAN

VARIABLES
    backend,    \* the rig's beads backend, fixed
    bead,       \* bead -> [status, reason]
    recorded,   \* iter-bead-ids.json: convention id -> minted id
    artifact,   \* role-steps whose required artifacts exist
    store,      \* RoleSessionStore: role -> session id
    last,       \* history: role -> session id of its last completed turn
    slot,       \* PO_CLAUDE_OAUTH_TOKEN_INDEX
    call,       \* the agent_step call in progress
    orphans,    \* <<key, bead>> of agents that outlived their flow process
    calls,      \* calls made so far
    result,     \* what the last call returned or raised
    answers     \* history: verdicts returned for each role-step

vars == <<backend, bead, recorded, artifact, store, last, slot, call,
          orphans, calls, result, answers>>

Idle == [pc |-> "idle", key |-> NoBead, bead |-> NoBead, ask |-> "none",
         sid |-> 0, outer |-> 0, left |-> 0, tried |-> {}, seen |-> NoReason,
         blind |-> FALSE]
Pcs == {"idle", "probe", "create", "record", "describe", "turn", "check",
        "artifacts", "force"}
Asks == {"none", "work", "nudge", "artifact"}
Closers == {"agent", "nudge", "artifact-nudge", "cache"}
Endings == Closers \cup {"artifact-nudge-failed", "force"}
Raises == {"rate-limit", "error"}

\* _result_from_closed_bead: the first keyword of the caller's order that
\* occurs anywhere in the reason or the notes; else "complete" if either has
\* any text.
Verdict(step, reason) ==
    LET words == Keywords[step]
        hits == {n \in DOMAIN words : words[n] \in reason.says}
    IN  IF hits # {} THEN words[CHOOSE n \in hits : \A m \in hits : n <= m]
        ELSE IF reason # Silent THEN "complete" ELSE ""

\* The bead a role-step is looked up under: the recorded id, else its own.
Target(k) == IF recorded[k] # NoBead THEN recorded[k] ELSE k

\* _read_bead_status, through _bd_show: what a probe of b may read.
Probes(b) == {bead[b].status} \cup (IF ProbeFaults THEN {"missing"} ELSE {})

Init ==
    /\ backend \in Backends
    /\ bead = [b \in Beads |-> [status |-> "missing", reason |-> NoReason]]
    /\ recorded = [k \in Keys |-> NoBead]
    /\ artifact = {}
    /\ store = [s \in Steps |-> 0]
    /\ last = [s \in Steps |-> 0]
    /\ slot = 0
    /\ call = Idle
    /\ orphans = {}
    /\ calls = 0
    /\ result = [key |-> NoBead, verdict |-> "", by |-> "none"]
    /\ answers = [k \in Keys |-> {}]

-----------------------------------------------------------------------------
(* How a call ends.                                                        *)

Return(verdict, by) ==
    /\ result' = [key |-> call.key, verdict |-> verdict, by |-> by]
    /\ answers' = [answers EXCEPT ![call.key] = @ \cup {verdict}]
    /\ call' = Idle

Raise(why) ==
    /\ result' = [key |-> call.key, verdict |-> "", by |-> why]
    /\ call' = Idle
    /\ UNCHANGED answers

\* Mutant of Asking: the last slot is never tried.
Asking_ShortBudget(c, ask) == [c EXCEPT !.pc = "turn", !.ask = ask, !.sid = c.outer,
                                        !.left = IF Pool > 2 THEN Pool - 2 ELSE 0,
                                        !.tried = {}]

\* A turn is asked for through the session object the caller holds; the
\* failover budget is one less than the slots.
Asking(c, ask) == [c EXCEPT !.pc = "turn", !.ask = ask, !.sid = c.outer,
                            !.left = Pool - 1, !.tried = {}]

-----------------------------------------------------------------------------
(* Before the turn.                                                        *)

\* The entry of agent_step, up to the first probe.
Call(k) ==
    /\ call.pc = "idle"
    /\ calls < MaxCalls
    /\ calls' = calls + 1
    /\ call' = [Idle EXCEPT !.pc = "probe", !.key = k,
                            !.bead = Target(k)]
    /\ UNCHANGED <<backend, bead, recorded, artifact, store, last, slot,
                   orphans, result, answers>>

\* Mutant of Probe: no fast path, a closed bead is set up like a missing one.
Probe_NoCache ==
    /\ call.pc = "probe"
    /\ \E st \in Probes(call.bead) :
          call' = [call EXCEPT !.pc = IF st = "open" THEN "describe" ELSE "create",
                               !.blind = st = "missing" /\ bead[call.bead].status # st]
    /\ UNCHANGED <<backend, bead, recorded, artifact, store, last, slot,
                   orphans, calls, result, answers>>

\* Fast path: a closed bead answers from its reason and nothing else runs.
\* Else the bead is created if it is missing.
Probe ==
    /\ call.pc = "probe"
    /\ \E st \in Probes(call.bead) :
          \/ /\ st = "closed"
             /\ Return(Verdict(call.key[1], bead[call.bead].reason), "cache")
          \/ /\ st = "open"
             /\ call' = [call EXCEPT !.pc = "describe"]
             /\ UNCHANGED <<result, answers>>
          \/ /\ st = "missing"
             /\ call' = [call EXCEPT !.pc = "create",
                                     !.blind = bead[call.bead].status # "missing"]
             /\ UNCHANGED <<result, answers>>
    /\ UNCHANGED <<backend, bead, recorded, artifact, store, last, slot,
                   orphans, calls>>

\* Mutant of CreateOnDolt: "already exists" is not told from a new bead.
CreateOnDolt_Overwrites ==
    /\ call.pc = "create" /\ backend = "dolt"
    /\ bead' = [bead EXCEPT ![call.bead] = [status |-> "open", reason |-> NoReason]]
    /\ call' = [call EXCEPT !.pc = "describe"]
    /\ UNCHANGED <<backend, recorded, artifact, store, last, slot, orphans,
                   calls, result, answers>>

\* bd honours the id: an existing bead is reported and kept, though a closed
\* one may come back to life.
CreateOnDolt ==
    /\ call.pc = "create" /\ backend = "dolt"
    /\ LET fresh == [status |-> "open", reason |-> NoReason]
       IN  IF bead[call.bead].status = "missing" \/
                 (Resurrects /\ bead[call.bead].status = "closed")
           THEN bead' = [bead EXCEPT ![call.bead] = fresh]
           ELSE UNCHANGED bead
    /\ call' = [call EXCEPT !.pc = "describe"]
    /\ UNCHANGED <<backend, recorded, artifact, store, last, slot, orphans,
                   calls, result, answers>>

\* br mints an id, which the call adopts and then records.
CreateOnBr ==
    /\ call.pc = "create" /\ backend = "br"
    /\ \E b \in Minted :
          /\ bead[b].status = "missing"
          /\ \A c \in Minted : bead[c].status = "missing" => b[2] <= c[2]
          /\ bead' = [bead EXCEPT ![b].status = "open"]
          /\ call' = [call EXCEPT !.pc = "record", !.bead = b]
    /\ UNCHANGED <<backend, recorded, artifact, store, last, slot, orphans,
                   calls, result, answers>>

\* iter_bead_ids.record; a write error is swallowed.
Record ==
    /\ call.pc = "record"
    /\ \/ recorded' = [recorded EXCEPT ![call.key] = call.bead]
       \/ MapFaults /\ UNCHANGED recorded
    /\ call' = [call EXCEPT !.pc = "describe"]
    /\ UNCHANGED <<backend, bead, artifact, store, last, slot, orphans,
                   calls, result, answers>>

\* Killed inside write_text: the truncated file reads as no map at all.
RecordTorn ==
    /\ MapFaults /\ call.pc = "record"
    /\ recorded' = [k \in Keys |-> NoBead]
    /\ call' = Idle
    /\ result' = [key |-> call.key, verdict |-> "", by |-> "error"]
    /\ UNCHANGED <<backend, bead, artifact, store, last, slot, orphans,
                   calls, answers>>

\* The task is stamped on the bead and the session built from the store.
Describe ==
    /\ call.pc = "describe"
    /\ call' = Asking([call EXCEPT !.outer = store[call.key[1]]], "work")
    /\ UNCHANGED <<backend, bead, recorded, artifact, store, last, slot,
                   orphans, calls, result, answers>>

\* A bd shellout times out or fails: create, the stamp, the forced close.
ShellFails ==
    /\ call.pc \in {"create", "describe", "force"}
    /\ Raise("error")
    /\ UNCHANGED <<backend, bead, recorded, artifact, store, last, slot,
                   orphans, calls>>

-----------------------------------------------------------------------------
(* The turn: what the agent does while the flow waits for it.  One that    *)
(* asks for a human (`bd human`) leaves its bead open: no step looks at    *)
(* the flag it sets.                                                       *)

\* `bd close --reason`
AgentCloses ==
    /\ call.pc = "turn" /\ bead[call.bead].status = "open"
    /\ \E r \in CloseReasons[call.key[1]] :
          bead' = [bead EXCEPT ![call.bead] = [status |-> "closed", reason |-> r]]
    /\ UNCHANGED <<backend, recorded, artifact, store, last, slot, call,
                   orphans, calls, result, answers>>

AgentWritesArtifact ==
    /\ call.pc = "turn" /\ call.key[1] \in Required
    /\ artifact' = artifact \cup {call.key}
    /\ UNCHANGED <<backend, bead, recorded, store, last, slot, call,
                   orphans, calls, result, answers>>

\* An agent whose flow process was killed finishes its bead on its own.
OrphanCloses ==
    /\ \E o \in orphans :
          /\ bead[o[2]].status = "open"
          /\ \E r \in CloseReasons[o[1][1]] :
                bead' = [bead EXCEPT ![o[2]] = [status |-> "closed", reason |-> r]]
    /\ UNCHANGED <<backend, recorded, artifact, store, last, slot, call,
                   orphans, calls, result, answers>>

-----------------------------------------------------------------------------
(* _prompt_with_oauth_failover, its try/except and the finally that        *)
(* persists the session of the object the caller holds.                    *)

\* Mutant of AfterTurn: the agent is nudged until it closes its bead.
AfterTurn_NudgesOn == IF call.ask = "artifact" THEN "artifacts"
                      ELSE IF call.ask = "nudge" /\ bead[call.bead].status = "open"
                      THEN "turn" ELSE "check"

AfterTurn == IF call.ask = "artifact" THEN "artifacts" ELSE "check"

\* Mutant of Persisted: the role keeps the first session it ever had.
Persisted_FirstOnly(sid) ==
    IF store[call.key[1]] # 0 THEN store[call.key[1]] ELSE sid

\* _persist_session writes an id only when there is one.
Persisted(sid) == IF sid # 0 THEN sid ELSE store[call.key[1]]

\* The turn completes under the session's id or a new one.  The work and the
\* nudge hand the possibly rebuilt session back to the caller; the artifact
\* nudge drops it, and only an object no failover replaced has the new id.
TurnEnds ==
    /\ call.pc = "turn"
    /\ LET s == call.key[1]
           used == {call.sid, call.outer, store[s], last[s], 0}
       IN  \E new \in Sessions :
              /\ \/ new = call.sid /\ new # 0
                 \/ new \notin used /\ \A n \in Sessions \ used : new <= n
              /\ LET outer == IF call.ask # "artifact" \/ call.tried = {}
                              THEN new ELSE call.outer
                 IN  /\ store' = [store EXCEPT ![s] = Persisted(outer)]
                     /\ call' = [call EXCEPT !.pc = AfterTurn, !.outer = outer,
                                             !.sid = 0, !.tried = {}, !.left = 0]
              /\ last' = [last EXCEPT ![s] = new]
    /\ UNCHANGED <<backend, bead, recorded, artifact, slot, orphans, calls,
                   result, answers>>

\* RateLimitError with budget left: persist, rotate, rebuild from the store.
FailsOver ==
    /\ call.pc = "turn" /\ call.left > 0
    /\ slot' = (slot + 1) % Pool
    /\ store' = [store EXCEPT ![call.key[1]] = Persisted(call.sid)]
    /\ call' = [call EXCEPT !.left = @ - 1, !.tried = @ \cup {slot},
                            !.sid = Persisted(call.sid)]
    /\ UNCHANGED <<backend, bead, recorded, artifact, last, orphans, calls,
                   result, answers>>

\* The turn raises for good: a rate limit with no budget left, or any other
\* error.  The step fails with it, but a nudge swallows it.
TurnRaises ==
    /\ call.pc = "turn"
    /\ \E why \in Raises :
          /\ why = "rate-limit" => call.left = 0
          /\ IF call.ask = "work"
             THEN Raise(why)
             ELSE /\ call' = [call EXCEPT !.pc = AfterTurn, !.sid = 0, !.tried = {},
                                          !.left = 0]
                  /\ UNCHANGED <<result, answers>>
    /\ store' = [store EXCEPT ![call.key[1]] = Persisted(call.outer)]
    /\ UNCHANGED <<backend, bead, recorded, artifact, last, slot, orphans,
                   calls>>

-----------------------------------------------------------------------------
(* The convergence ladder.                                                 *)

\* result_for_closed_state: a close counts once the artifacts are there; one
\* nudge asks for them.
CloseSeen(by) ==
    IF call.key[1] \in Required /\ call.key \notin artifact
    THEN /\ call' = Asking([call EXCEPT !.seen = bead[call.bead].reason], "artifact")
         /\ UNCHANGED <<result, answers>>
    ELSE Return(Verdict(call.key[1], bead[call.bead].reason), by)

\* Closed by the agent; else one nudge; then the forced close.
Check ==
    /\ call.pc = "check"
    /\ \E st \in Probes(call.bead) :
          \/ st = "closed" /\ CloseSeen(IF call.ask = "work" THEN "agent" ELSE "nudge")
          \/ /\ st # "closed"
             /\ call' = IF call.ask = "work"
                        THEN Asking(call, "nudge")
                        ELSE [call EXCEPT !.pc = "force"]
             /\ UNCHANGED <<result, answers>>
    /\ UNCHANGED <<backend, bead, recorded, artifact, store, last, slot,
                   orphans, calls>>

\* After the artifact nudge the verdict is that of the close seen before it.
CheckArtifacts ==
    /\ call.pc = "artifacts"
    /\ IF call.key \in artifact
       THEN Return(Verdict(call.key[1], call.seen), "artifact-nudge")
       ELSE Return("failed", "artifact-nudge-failed")
    /\ UNCHANGED <<backend, bead, recorded, artifact, store, last, slot,
                   orphans, calls>>

\* close_issue: "already closed" counts as done and keeps the reason.
ForceClose ==
    /\ call.pc = "force"
    /\ bead' = IF bead[call.bead].status = "closed" THEN bead
               ELSE [bead EXCEPT ![call.bead] =
                        [status |-> "closed", reason |-> ForceReason]]
    /\ Return("failed", "force")
    /\ UNCHANGED <<backend, recorded, artifact, store, last, slot, orphans,
                   calls>>

-----------------------------------------------------------------------------
\* The flow's process is killed; in a turn, its agent may live on.
Crash ==
    /\ call.pc # "idle"
    /\ \/ Survive /\ call.pc = "turn" /\ orphans' = orphans \cup {<<call.key, call.bead>>}
       \/ UNCHANGED orphans
    /\ result' = [key |-> call.key, verdict |-> "", by |-> "error"]
    /\ call' = Idle
    /\ UNCHANGED <<backend, bead, recorded, artifact, store, last, slot,
                   calls, answers>>

Waiting == TurnEnds \/ FailsOver \/ TurnRaises
FlowStep == Probe \/ CreateOnDolt \/ CreateOnBr \/ Record \/ Describe \/ Waiting
            \/ Check \/ CheckArtifacts \/ ForceClose
Agents == AgentCloses \/ AgentWritesArtifact \/ OrphanCloses
Faults == RecordTorn \/ ShellFails \/ Crash

Next == (\E k \in Keys : Call(k)) \/ FlowStep \/ Agents \/ Faults

Spec == Init /\ [][Next]_vars

\* The flow's own code runs, and a turn ends: the backend's wall-clock budget
\* (DEFAULT_AGENT_TIMEOUT_S) turns a wedged one into an error.
FairSpec == Spec /\ WF_vars(FlowStep)

-----------------------------------------------------------------------------
(* Correctness.                                                            *)

Verdicts == {"complete", "", "failed"} \cup
            UNION {{Keywords[s][n] : n \in DOMAIN Keywords[s]} : s \in Steps}

CallType ==
    [pc : Pcs, key : Keys \cup {NoBead}, bead : Beads \cup {NoBead}, ask : Asks,
     sid : Sessions, outer : Sessions, left : Slots, tried : SUBSET Slots,
     seen : Reasons, blind : BOOLEAN]

\* The type invariant; a call that is not idle has a key and a bead, and one
\* that records a bead has a minted one.
TypeOK ==
    /\ backend \in Backends
    /\ bead \in [Beads -> [status : {"missing", "open", "closed"}, reason : Reasons]]
    /\ recorded \in [Keys -> Minted \cup {NoBead}]
    /\ artifact \subseteq Keys
    /\ store \in [Steps -> Sessions] /\ last \in [Steps -> Sessions]
    /\ slot \in Slots
    /\ call \in CallType
    /\ call.pc # "idle" => call.key \in Keys /\ call.bead \in Beads
    /\ call.pc = "record" => call.bead \in Minted
    /\ orphans \subseteq Keys \X Beads
    /\ calls \in 0..MaxCalls
    /\ result \in [key : Keys \cup {NoBead}, verdict : Verdicts,
                   by : {"none"} \cup Endings \cup Raises]
    /\ answers \in [Keys -> SUBSET Verdicts]

\* "Re-runs of a partially-completed pipeline skip already-done work": a
\* role-step that a call has answered is worked on again only if this call's
\* own probe timed out on a bead that exists, or an earlier fault of the
\* store lost the bead itself (br mints another; bd reopens it).
AnsweredStepsRest ==
    call.pc = "turn" /\ call.ask = "work" /\ answers[call.key] # {} =>
        \/ call.blind
        \/ backend = "br" /\ (MapFaults \/ ProbeFaults)
        \/ Resurrects /\ ProbeFaults

\* Crashes, orphaned agents, nudges, forced closes and cached replays never
\* make a role-step answer two different verdicts, "failed" aside: what one
\* call accepted every later call accepts.  On br, and where bd reopens
\* closed beads, this needs probes that do not time out.
VerdictStable ==
    \/ backend = "br" /\ (MapFaults \/ ProbeFaults)
    \/ Resurrects /\ ProbeFaults
    \/ \A k \in Keys : \A v, w \in answers[k] \ {"failed"} : v = w

\* A step fails with a rate limit only when every OAuth slot has been limited
\* during its turn: the budget and the rotation modulo the count agree.
AllSlotsTried ==
    [][call.pc = "turn" /\ call'.pc = "idle" /\ result'.by = "rate-limit"
          => call.tried \cup {slot} = Slots]_vars

\* The role resumes where it stopped: a step that ran its ladder leaves in
\* the store the session of the role's last completed turn, through failover,
\* nudges and their failures.  (The artifact nudge is the exception.)
SessionKept ==
    call.pc = "idle" /\ result.by \in {"agent", "nudge", "force"} =>
        store[result.key[1]] = last[result.key[1]]

\* Every call returns or raises: one nudge, one artifact nudge and a bounded
\* failover, whatever the agent does ("so callers don't busy-loop").
StepEnds == call.pc # "idle" ~> call.pc = "idle"

=============================================================================
