------------------------------- MODULE BeadWatch -------------------------------
(***************************************************************************)
(* watch() of beads_meta.py: block until one of some beads changes. It     *)
(* compares each snapshot with the one before; a snapshot is a `bd show`   *)
(* per bead, and a call that times out leaves the bead out. Beads change   *)
(* between any two calls.                                                  *)
(***************************************************************************)
EXTENDS BeadGraph

CONSTANTS
    Watchers,    \* a start says what each of them watches
    MaxEdits     \* bound: edits and changes of status other than closing

ASSUME WatchAssumption == MaxEdits \in Nat

VARIABLES
    stamp,   \* updated_at of the beads
    view     \* of a watcher: what it watches and for what, its snapshots, its events

watchVars == <<graphVars, stamp, view>>

WatchEvents == {"close", "status", "any"}
WatchPCs == {"begin", "initial", "asleep", "snap", "done", "unknown", "unsupported"}
NoRow == [status |-> Unread, stamp |-> 0]
Rows == [status : Statuses \cup {Unread}, stamp : 0..MaxEdits + Cardinality(Beads)]
BeadEvent == [bead : Beads, kind : {"close", "status", "mutate"}]

Viewing == [ids : SUBSET Beads, event : WatchEvents, timed : BOOLEAN, at : WatchPCs,
            todo : SUBSET Beads, prev : [Beads -> Rows], cur : [Beads -> Rows],
            events : SUBSET BeadEvent, cancelled : BOOLEAN, expired : BOOLEAN]

Idle(asked) ==
    [ids |-> asked.ids, event |-> asked.event, timed |-> asked.timed, at |-> "begin", todo |-> {},
     prev |-> [b \in Beads |-> NoRow], cur |-> [b \in Beads |-> NoRow],
     events |-> {}, cancelled |-> FALSE, expired |-> FALSE]

WatchInit ==
    /\ \E start \in Starts :
          /\ GraphInit(start)
          /\ view = [w \in Watchers |-> Idle(start.asked[w])]
    /\ stamp = [b \in Beads |-> 0]

-----------------------------------------------------------------------------

ViewAt(w, pc) == view[w].at = pc
View(w, rec) == view' = [view EXCEPT ![w] = rec]
Beadless == UNCHANGED <<rig, graph, status, walk, stamp>>

\* Without a `bd` on PATH, whatever the rig's backend, watching is not supported.
StartWatch(w) ==
    /\ ViewAt(w, "begin")
    /\ View(w, [view[w] EXCEPT !.at = IF rig.bd THEN "initial" ELSE "unsupported",
                                !.todo = view[w].ids])
    /\ UNCHANGED faults /\ Beadless

\* _bd_show of one bead of the snapshot.
Snapshot(w, b) ==
    /\ view[w].at \in {"initial", "snap"} /\ b \in view[w].todo
    /\ LET row == [status |-> status[b], stamp |-> stamp[b]] IN
       \/ /\ View(w, [view[w] EXCEPT !.todo = @ \ {b}, !.cur[b] = IF Available THEN row ELSE NoRow])
          /\ UNCHANGED faults
       \/ View(w, [view[w] EXCEPT !.todo = @ \ {b}, !.cur[b] = NoRow]) /\ Fault
    /\ Beadless

\* A bead that is not in the first snapshot is an error.
FirstSnapshot(w) ==
    /\ ViewAt(w, "initial") /\ view[w].todo = {}
    /\ View(w, [view[w] EXCEPT
           !.at = IF \E b \in view[w].ids : view[w].cur[b] = NoRow THEN "unknown" ELSE "asleep",
           !.prev = view[w].cur])
    /\ UNCHANGED faults /\ Beadless

Stopped(w) == view[w].cancelled \/ view[w].expired

\* Cancelled or out of time: no events. Else the next snapshot.
Wake(w) ==
    /\ ViewAt(w, "asleep")
    /\ \/ Stopped(w) /\ View(w, [view[w] EXCEPT !.at = "done"])
       \/ ~Stopped(w) /\ View(w, [view[w] EXCEPT !.at = "snap", !.todo = view[w].ids])
    /\ UNCHANGED faults /\ Beadless

\* Mutant: the change is looked for in the row's stamp only when everything is watched.
EventsOf_ByStamp(w, b) ==
    IF view[w].event = "any" /\ view[w].prev[b].stamp # view[w].cur[b].stamp
    THEN {[bead |-> b, kind |-> "mutate"]} ELSE {}

\* The change of one bead, if it is of the kind that is watched for. A bead that is in one
\* of the two snapshots only is passed over.
EventsOf(w, b) ==
    LET before == view[w].prev[b]
        after  == view[w].cur[b]
        event  == view[w].event
    IN  IF before = NoRow \/ after = NoRow THEN {}
        ELSE IF after.status = "closed" /\ before.status # "closed" THEN {[bead |-> b, kind |-> "close"]}
        ELSE IF event # "close" /\ after.status # before.status THEN {[bead |-> b, kind |-> "status"]}
        ELSE IF event = "any" /\ after.stamp # before.stamp THEN {[bead |-> b, kind |-> "mutate"]}
        ELSE {}

Compare(w) ==
    /\ ViewAt(w, "snap") /\ view[w].todo = {}
    /\ LET events == UNION {EventsOf(w, b) : b \in view[w].ids} IN
       View(w, [view[w] EXCEPT !.prev = view[w].cur, !.events = events,
                                !.at = IF events = {} THEN "asleep" ELSE "done"])
    /\ UNCHANGED faults /\ Beadless

WatchStep(w) ==
    \/ StartWatch(w) \/ FirstSnapshot(w) \/ Wake(w) \/ Compare(w)
    \/ \E b \in Beads : Snapshot(w, b)

-----------------------------------------------------------------------------

Awake(w) == view[w].at \in {"initial", "asleep", "snap"}

Cancel(w) ==
    /\ Awake(w) /\ ~view[w].cancelled
    /\ View(w, [view[w] EXCEPT !.cancelled = TRUE])
    /\ UNCHANGED faults /\ Beadless

Deadline(w) ==
    /\ view[w].timed /\ view[w].at \in {"asleep", "snap"} /\ ~view[w].expired
    /\ View(w, [view[w] EXCEPT !.expired = TRUE])
    /\ UNCHANGED faults /\ Beadless

Edits == MapThenSumSet(LAMBDA b : stamp[b], Beads)

\* A bead is closed; its stamp moves.
CloseBead(b) ==
    /\ Closes(b)
    /\ stamp' = [stamp EXCEPT ![b] = @ + 1]
    /\ UNCHANGED view

\* Notes and metadata are written, a bead is blocked or unblocked. Nobody reopens a bead
\* while it is walked or watched.
Edit(b) ==
    /\ Edits < MaxEdits
    /\ stamp' = [stamp EXCEPT ![b] = @ + 1]
    /\ \E s \in {"open", "blocked"} :
          status' = [status EXCEPT ![b] = IF @ = "closed" THEN @ ELSE s]
    /\ UNCHANGED <<rig, graph, walk, faults, view>>

WatchNext ==
    \/ \E w \in Walkers : WalkStep(w) /\ UNCHANGED <<stamp, view>>
    \/ \E w \in Watchers : WatchStep(w) \/ Cancel(w) \/ Deadline(w)
    \/ \E b \in Beads : CloseBead(b) \/ Edit(b)

WatchSpec == WatchInit /\ [][WatchNext]_watchVars

\* watch() loops on its own.
WatchFairSpec == WatchSpec /\ \A w \in Watchers : WF_watchVars(WatchStep(w))

-----------------------------------------------------------------------------
(* Properties.                                                             *)

WatchTypeOK ==
    /\ GraphTypeOK
    /\ stamp \in [Beads -> 0..MaxEdits + Cardinality(Beads)]
    /\ view \in [Watchers -> Viewing]

Ended(w) == view[w].at \in {"done", "unknown", "unsupported"}

\* Once a bead that a watch saw open has been closed for good, the watch returns, be it
\* without an event because it was cancelled or its time was up (beads_meta.py:1298).
\* Excused is a call that timed out: the bead is left out of that snapshot, and the next
\* comparison has nothing to compare with.
CloseIsSeen ==
    \A w \in Watchers : \A b \in Beads :
        (/\ view[w].at = "asleep" /\ b \in view[w].ids
         /\ view[w].prev[b].status \in {"open", "blocked"} /\ status[b] = "closed" /\ faults = 0)
        ~> (Ended(w) \/ faults > 0)

=============================================================================
