------------------------------- MODULE BeadGraph -------------------------------
(***************************************************************************)
(* The walks over the bead graph in beads_meta.py: the seed bead of an     *)
(* issue (resolve_seed_bead), the beads below a root (list_subgraph), the  *)
(* children of an epic by number, by edges or by both (list_epic_children),*)
(* a list given by the caller (collect_explicit_children), and the order   *)
(* that topo_sort_blocks brings them in. A walk is a sequence of `bd`      *)
(* calls: beads are closed in between, and a call may time out, which      *)
(* reads like an empty answer.                                             *)
(***************************************************************************)
EXTENDS Integers, SequencesExt, FiniteSetsExt

CONSTANTS
    Beads,       \* numbers: their order is that of the ids
    Rigs,        \* backends of a rig, and which of the binaries are on PATH
    Walkers,
    Starts,      \* what the tracker holds (parents, blockers and status of each bead, the
                 \* root's children by number), and which walk each walker makes
    MaxHops,     \* resolve_seed_bead's max_hops
    MaxFaults    \* bound: calls that time out

NoBead == -1
Edges == {"parent-child", "blocks"}

VARIABLES
    rig, graph,
    status,   \* of the beads
    walk,     \* of a walker: what it does, where it stands, what it has
    faults

graphVars == <<rig, graph, status, walk, faults>>

Statuses == {"open", "blocked", "closed"}
Unread == "unread"
Kinds == {"seed", "subgraph", "ids", "deps", "both", "explicit"}
Tasks == [kind : Kinds, root : Beads, ids : SUBSET Beads, closedToo : BOOLEAN, rootToo : BOOLEAN]

ASSUME BeadGraphAssumption ==
    /\ Beads \subseteq Nat /\ IsFiniteSet(Beads)
    /\ \A r \in Rigs : r.backend \in {"dolt", "br"} /\ r.bd \in BOOLEAN /\ r.br \in BOOLEAN
    /\ \A s \in Starts : /\ s.graph.parents \in [Beads -> SUBSET Beads]
                          /\ s.graph.blockers \in [Beads -> SUBSET Beads]
                          /\ s.graph.numbered \in Seq(Beads \cup {NoBead})
                          /\ s.status \in [Beads -> Statuses]
                          /\ s.tasks \in [Walkers -> Tasks]
    /\ MaxHops \in Nat \ {0} /\ MaxFaults \in Nat

WalkPCs == {"begin", "seed", "root", "bfs", "blockers", "probe", "show", "sort",
            "done", "unknown", "cycle", "raised"}

\* todo: edges still to be asked for; found, deps: the nodes so far and their blockers;
\* own: the nodes of the part of the walk that is under way; layers: of the result.
Walking == [task : Tasks, at : WalkPCs, todo : Seq(Beads \X Edges), seen : SUBSET Beads,
            found : [Beads -> Statuses \cup {Unread}], own : SUBSET Beads, ask : SUBSET Beads,
            deps : [Beads -> SUBSET Beads], next : Nat \ {0}, misses : 0..3,
            cur : Beads, hops : 0..MaxHops, layers : [Beads -> Int]]

Begun(task) ==
    [task |-> task, at |-> "begin", todo |-> <<>>, seen |-> {task.root},
     found |-> [b \in Beads |-> Unread], own |-> {}, ask |-> {},
     deps |-> [b \in Beads |-> {}], next |-> 1, misses |-> 0,
     cur |-> task.root, hops |-> 0, layers |-> [b \in Beads |-> -1]]

GraphInit(start) ==
    /\ rig \in Rigs /\ graph = start.graph /\ status = start.status
    /\ walk = [w \in Walkers |-> Begun(start.tasks[w])]
    /\ faults = 0

-----------------------------------------------------------------------------
(* The tracker's answers.                                                  *)

\* Is BINARY[backend] on PATH? Without it every call reads like an empty one.
Available == IF rig.backend = "br" THEN rig.br ELSE rig.bd

\* The probe of numbered children, the walk to the seed and watch() ask for `bd` by name,
\* and a `bd` that is run in a br rig finds no database there.
BdFinds == rig.bd /\ rig.backend = "dolt"

Above(b, edge) == IF edge = "parent-child" THEN graph.parents[b] ELSE graph.blockers[b]

\* Mutant: the direction of the listing is turned round.
Dependents_Down(b, edge) == IF Available THEN Above(b, edge) ELSE {}

\* `bd dep list --direction=up`: what depends on b.
Dependents(b, edge) == IF Available THEN {x \in Beads : b \in Above(x, edge)} ELSE {}

\* --direction=down.
Depends(b, edge) == IF Available THEN Above(b, edge) ELSE {}

\* `bd show --json` lists every dependency, whatever its type.
Listed(b) == graph.parents[b] \cup graph.blockers[b]

Fault == faults < MaxFaults /\ faults' = faults + 1
Fine == UNCHANGED faults
Tracker == UNCHANGED <<rig, graph, status>>

At(w, pc) == walk[w].at = pc
Set(w, rec) == walk' = [walk EXCEPT ![w] = rec]
Task(w) == walk[w].task

-----------------------------------------------------------------------------
(* resolve_seed_bead.                                                      *)

\* Mutant: the first of the rows, in whichever order they come.
FirstParent_Any(P) == P

\* Of several parents the one with the least id.
FirstParent(P) == {Min(P)}

\* One hop.
SeedStep(w, parents) ==
    LET k == walk[w] IN
    IF parents = {} THEN Set(w, [k EXCEPT !.at = "done"])
    ELSE \E p \in FirstParent(parents) :
           IF p \in k.seen THEN Set(w, [k EXCEPT !.at = "raised"])
           ELSE Set(w, [k EXCEPT !.cur = p, !.seen = @ \cup {p}, !.hops = @ + 1])

\* A call that times out reads like a bead without parents.
Climb(w) ==
    /\ At(w, "seed")
    /\ \/ walk[w].hops = MaxHops /\ Set(w, [walk[w] EXCEPT !.at = "raised"]) /\ Fine
       \/ walk[w].hops < MaxHops /\ SeedStep(w, Depends(walk[w].cur, "parent-child")) /\ Fine
       \/ walk[w].hops < MaxHops /\ Set(w, [walk[w] EXCEPT !.at = "done"]) /\ Fault
    /\ Tracker

\* build_registry: a walk that raised leaves the issue its own seed.
Seed(w) == IF At(w, "done") THEN walk[w].cur ELSE Task(w).root

-----------------------------------------------------------------------------
(* The beginnings.                                                         *)

\* The queue's entries for a row of beads: each with its edge types in turn.
EdgesOf(rows) ==
    [i \in 1..2 * Len(rows) |->
        <<rows[(i + 1) \div 2], IF i % 2 = 1 THEN "parent-child" ELSE "blocks">>]

Begin(w) ==
    /\ At(w, "begin")
    /\ LET k == walk[w] IN
       CASE k.task.kind = "seed" -> Set(w, [k EXCEPT !.at = IF rig.bd THEN "seed" ELSE "done"])
         [] k.task.kind = "ids" -> Set(w, [k EXCEPT !.at = IF rig.bd THEN "probe" ELSE "sort"])
         [] k.task.kind = "explicit" -> Set(w, [k EXCEPT !.at = "show", !.ask = k.task.ids])
         [] OTHER -> Set(w, [k EXCEPT !.at = IF k.task.rootToo THEN "root" ELSE "bfs",
                                      !.todo = EdgesOf(<<k.task.root>>)])
    /\ Fine /\ Tracker

-----------------------------------------------------------------------------
(* list_subgraph.                                                          *)

\* include_root: the root's row, unless it is closed and closed ones are not wanted.
ShowRoot(w) ==
    /\ At(w, "root")
    /\ LET k == walk[w]
           b == k.task.root
           there == Available /\ (k.task.closedToo \/ status[b] # "closed")
       IN  \/ Set(w, [k EXCEPT !.at = "bfs", !.found[b] = IF there THEN status[b] ELSE @]) /\ Fine
           \/ Set(w, [k EXCEPT !.at = "bfs"]) /\ Fault
    /\ Tracker

\* Mutant: the walk stops at a bead that is closed.
Onward_OpenOnly(new) == {b \in new : status[b] # "closed"}

\* The walk goes on from every new bead, a closed one too.
Onward(new) == new

\* One call for the head of the queue. Rows come in any order.
Expand(w) ==
    /\ At(w, "bfs") /\ walk[w].todo # <<>>
    /\ LET k == walk[w]
           left == Tail(k.todo)
           new == Dependents(Head(k.todo)[1], Head(k.todo)[2]) \ k.seen
       IN  \/ /\ \E rows \in SetToSeqs(Onward(new)) :
                    Set(w, [k EXCEPT !.todo = left \o EdgesOf(rows), !.seen = @ \cup new,
                                     !.found = [x \in Beads |-> IF x \in new THEN status[x] ELSE @[x]]])
              /\ Fine
           \/ Set(w, [k EXCEPT !.todo = left]) /\ Fault
    /\ Tracker

\* What was found, without the closed ones unless they are wanted.
Kept(k) == {b \in Beads : k.found[b] # Unread /\ (k.task.closedToo \/ k.found[b] # "closed")}

AfterNodes(kind) == IF kind = "both" THEN "probe" ELSE "sort"

Filter(w) ==
    /\ At(w, "bfs") /\ walk[w].todo = <<>>
    /\ Set(w, [walk[w] EXCEPT !.at = "blockers", !.own = Kept(walk[w]), !.ask = Kept(walk[w])])
    /\ Fine /\ Tracker

\* What a node waits for among the nodes of this walk, node by node.
AskBlockers(w) ==
    /\ At(w, "blockers") /\ walk[w].ask # {}
    /\ LET k == walk[w]
           b == Min(k.ask)
       IN  \/ /\ Set(w, [k EXCEPT !.ask = @ \ {b}, !.deps[b] = Depends(b, "blocks") \cap k.own])
              /\ Fine
           \/ Set(w, [k EXCEPT !.ask = @ \ {b}]) /\ Fault
    /\ Tracker

BlockersAsked(w) ==
    /\ At(w, "blockers") /\ walk[w].ask = {}
    /\ Set(w, [walk[w] EXCEPT !.at = AfterNodes(Task(w).kind)])
    /\ Fine /\ Tracker

-----------------------------------------------------------------------------
(* _dot_suffix_children and the union of list_epic_children.               *)

Numbered(n) ==
    IF BdFinds /\ n <= Len(graph.numbered) THEN graph.numbered[n] ELSE NoBead

\* own collects the numbered children, to restrict their dependencies to in the end.
Probe(w) ==
    /\ At(w, "probe") /\ walk[w].misses < 3
    /\ LET k == walk[w]
           b == Numbered(k.next)
           further == [k EXCEPT !.next = @ + 1]
           missed == [further EXCEPT !.misses = @ + 1]
       IN  \/ b = NoBead /\ Set(w, missed) /\ Fine
           \/ b # NoBead /\ Set(w, missed) /\ Fault
           \/ /\ b # NoBead /\ Fine
              /\ Set(w, [further EXCEPT !.misses = 0,
                                        !.ask = @ \cup (IF status[b] = "open" THEN {b} ELSE {})])
    /\ Tracker

\* Each part has its dependencies cut down to its own nodes before they are united.
Unite(w) ==
    /\ At(w, "probe") /\ walk[w].misses = 3
    /\ LET k == walk[w] IN
       Set(w, [k EXCEPT
           !.at = "sort", !.own = @ \cup k.ask, !.ask = {},
           !.deps = [b \in Beads |-> IF b \in k.ask THEN @[b] \cup (Listed(b) \cap k.ask) ELSE @[b]]])
    /\ Fine /\ Tracker

-----------------------------------------------------------------------------
(* collect_explicit_children.                                              *)

Show(w) ==
    /\ At(w, "show") /\ walk[w].ask # {}
    /\ LET k == walk[w]
           b == Min(k.ask)
       IN  \/ /\ Set(w, [k EXCEPT !.ask = @ \ {b}, !.found[b] = IF Available THEN status[b] ELSE @])
              /\ Fine
           \/ Set(w, [k EXCEPT !.ask = @ \ {b}]) /\ Fault
    /\ Tracker

\* An id that is not there, or is closed, refuses the whole list.
Shown(w) ==
    /\ At(w, "show") /\ walk[w].ask = {}
    /\ LET k == walk[w]
           ids == k.task.ids
       IN  IF ids # {} /\ \A b \in ids : k.found[b] \notin {Unread, "closed"}
           THEN Set(w, [k EXCEPT !.at = "blockers", !.own = ids, !.ask = ids])
           ELSE Set(w, [k EXCEPT !.at = "unknown"])
    /\ Fine /\ Tracker

-----------------------------------------------------------------------------
(* topo_sort_blocks.                                                       *)

\* Mutant: a node is ready as soon as one of its blockers is placed.
Ready_One(k, placed) == {b \in k.own : k.deps[b] = {} \/ k.deps[b] \cap placed # {}}

\* Mutant: a node is ready if it has no blocker at all.
Ready_Free(k, placed) == {b \in k.own : k.deps[b] = {}}

\* What may come once `placed` has come.
Ready(k, placed) == {b \in k.own : k.deps[b] \cap k.own \subseteq placed}

\* The nodes of the first n layers.
Placed(k) ==
    LET upTo[n \in 0..Cardinality(Beads)] ==
            IF n = 0 THEN {} ELSE upTo[n - 1] \cup Ready(k, upTo[n - 1])
    IN  upTo

Sort(w) ==
    /\ At(w, "sort")
    /\ LET k == walk[w]
           placed == Placed(k)
           last == Cardinality(Beads)
       IN  IF placed[last] # k.own THEN Set(w, [k EXCEPT !.at = "cycle"])
           ELSE Set(w, [k EXCEPT
                    !.at = "done",
                    !.layers = [b \in Beads |-> IF b \in k.own
                                  THEN Min({n \in 1..last : b \in placed[n]}) ELSE -1]])
    /\ Fine /\ Tracker

-----------------------------------------------------------------------------

\* An agent or an operator closes a bead.
Closes(b) ==
    /\ status[b] # "closed"
    /\ status' = [status EXCEPT ![b] = "closed"]
    /\ UNCHANGED <<rig, graph, walk, faults>>

WalkStep(w) ==
    \/ Begin(w) \/ Climb(w) \/ ShowRoot(w) \/ Expand(w) \/ AskBlockers(w) \/ Show(w) \/ Filter(w)
    \/ BlockersAsked(w) \/ Probe(w) \/ Unite(w) \/ Shown(w) \/ Sort(w)

-----------------------------------------------------------------------------
(* Properties.                                                             *)

GraphTypeOK ==
    /\ rig \in Rigs /\ graph \in {s.graph : s \in Starts}
    /\ status \in [Beads -> Statuses]
    /\ walk \in [Walkers -> Walking]
    /\ faults \in 0..MaxFaults

Over(w) == At(w, "done")

\* Issues of one tree keep their sessions on one bead: an issue and its parent resolve to
\* the same seed (beads_meta.py:835). Excused are a call that timed out, a walk that raised,
\* and a rig that `bd` does not serve.
SeedShared ==
    \A v, w \in Walkers :
        (/\ Task(v).kind = "seed" /\ Task(w).kind = "seed" /\ Over(v) /\ Over(w)
         /\ faults = 0 /\ Available /\ rig.bd
         /\ graph.parents[Task(v).root] # {}
         /\ Task(w).root = Min(graph.parents[Task(v).root]))
        => Seed(v) = Seed(w)

\* Every node comes after the nodes that block it.
Ordered(w) ==
    \A b \in walk[w].own : \A a \in graph.blockers[b] \cap walk[w].own :
        walk[w].layers[a] < walk[w].layers[b]

\* A node comes after every node that blocks it (beads_meta.py:982), if no call timed out
\* and the nodes come from one source: of two, each has its block_deps cut down to its own
\* nodes before they are united (Unite).
BlockersFirst ==
    \A w \in Walkers : Over(w) /\ faults = 0 /\ Task(w).kind # "both" => Ordered(w)

\* A set of beads that has every bead one edge of either type below one of them.
Complete(S) == \A b \in Beads : Listed(b) \cap S # {} => b \in S

\* Below the root: what every such set around the root has.
Below(root) == {b \in Beads : \A S \in SUBSET Beads : root \in S /\ Complete(S) => b \in S}

\* The open tail of a half-finished graph is found (beads_meta.py:911): every bead below
\* the root that is still open is a node, if no call timed out, whatever is closed meanwhile.
OpenTailFound ==
    \A w \in Walkers :
        Over(w) /\ Task(w).kind \in {"subgraph", "deps", "both"} /\ faults = 0 /\ Available =>
            \A b \in Below(Task(w).root) \ {Task(w).root} :
                status[b] # "closed" => b \in walk[w].own

\* Nothing is collected that is not below the root (beads_meta.py:906), whichever calls time
\* out: agents are never sent to beads of another epic.
OnlyBelow ==
    \A w \in Walkers :
        Task(w).kind \in {"subgraph", "deps"} => walk[w].own \subseteq Below(Task(w).root)

\* What a bead of this walk may be held up by: with numbers, whatever `bd show` lists.
Holds(k, b) == IF k.task.kind \in {"ids", "both"} THEN Listed(b) ELSE graph.blockers[b]

\* A walk is refused for a cycle only if there is one (beads_meta.py:986): some of its
\* nodes each wait for another of them.
CyclesAreReal ==
    \A w \in Walkers :
        At(w, "cycle") => \E C \in SUBSET walk[w].own :
                             C # {} /\ \A b \in C : Holds(walk[w], b) \cap C # {}

=============================================================================
