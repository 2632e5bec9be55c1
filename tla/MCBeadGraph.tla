------------------------------ MODULE MCBeadGraph ------------------------------
(***************************************************************************)
(* An epic 0 and three beads: a few graphs, and two seed walks, one walk   *)
(* over children, or one watch of two beads.                               *)
(***************************************************************************)
EXTENDS BeadWatch, TLC

CONSTANTS w1, w2, v1

Edged(f) == [b \in Beads |-> IF b \in DOMAIN f THEN f[b] ELSE {}]
Graph(parents, blockers, numbered) ==
    [parents |-> Edged(parents), blockers |-> Edged(blockers), numbered |-> numbered]

Epic == 1 :> {0} @@ 2 :> {0} @@ 3 :> {0}

\* A chain of blockers in an epic with gaps in its numbers; a child with two parents; beads
\* that only block each other; a cycle of blockers; a cycle of parents; a child
\* of two trees; a chain of parents; a child without a number that a numbered bead without
\* a parent blocks.
Gaps     == Graph(Epic, 2 :> {1} @@ 3 :> {2}, <<1, NoBead, 2, NoBead, NoBead, NoBead, 3>>)
Parents  == Graph(1 :> {0} @@ 2 :> {1} @@ 3 :> {0, 2}, 3 :> {1}, <<1, NoBead, NoBead, 2, 3>>)
Blocking == Graph(1 :> {0}, 2 :> {1} @@ 3 :> {1, 2}, <<2, 3>>)
Cycle    == Graph(Epic, 1 :> {3} @@ 2 :> {1} @@ 3 :> {2}, <<1, 2, 3>>)
Ring     == Graph(1 :> {2} @@ 2 :> {1} @@ 3 :> {2}, 3 :> {0}, <<>>)
Forest   == Graph(1 :> {0} @@ 3 :> {1, 2}, 3 :> {0}, <<>>)
Line     == Graph(1 :> {0} @@ 2 :> {1} @@ 3 :> {2}, 3 :> {0}, <<>>)
Mixed    == Graph(1 :> {0}, 1 :> {2}, <<2>>)

Rig(backend, bd, br) == [backend |-> backend, bd |-> bd, br |-> br]
MCRigs == {Rig("dolt", TRUE, FALSE), Rig("br", TRUE, TRUE), Rig("br", FALSE, TRUE)}

Walk(kind, root) == [kind |-> kind, root |-> root, ids |-> {}, closedToo |-> FALSE, rootToo |-> FALSE]
NoWalk == Walk("explicit", 0)
NoWatch == v1 :> [ids |-> {}, event |-> "close", timed |-> FALSE]
AllOpen == [b \in Beads |-> "open"]

Start(g, s, a, b, asked) == [graph |-> g, status |-> s, tasks |-> w1 :> a @@ w2 :> b, asked |-> asked]

Seeks == {Start(g, AllOpen, Walk("seed", a), Walk("seed", b), NoWatch) :
             g \in {Forest, Ring, Line}, a \in {2, 3}, b \in {0, 1, 2}}
Children == {Walk(kind, 0) : kind \in {"ids", "deps", "both"}}
            \cup {[Walk("subgraph", 0) EXCEPT !.closedToo = c, !.rootToo = TRUE] : c \in BOOLEAN}
            \cup {[NoWalk EXCEPT !.ids = {1, 2, 3}]}
Collects == {Start(g, [AllOpen EXCEPT ![2] = s], a, NoWalk, NoWatch) :
                g \in {Gaps, Parents, Blocking, Cycle}, s \in Statuses, a \in Children}
Subtrees == {Start(Forest, AllOpen, Walk(kind, 1), NoWalk, NoWatch) : kind \in {"subgraph", "deps"}}
            \cup {Start(Mixed, AllOpen, Walk("both", 0), NoWalk, NoWatch)}
Watches == {Start(Line, [AllOpen EXCEPT ![2] = s], NoWalk, NoWalk, v1 :> asked) :
               s \in {"open", "closed"},
               asked \in [ids : {{1, 2}}, event : WatchEvents, timed : {FALSE}]
                         \cup [ids : {{1}}, event : {"close"}, timed : {TRUE}]}

MCStarts == Seeks \cup Collects \cup Subtrees \cup Watches

\* Bounds: a start has its two seekers, its one walker or its watcher move; what is not
\* watched is not edited; a bead is closed during a walk, and seekers look at no status.
Kind == walk[w1].task.kind
Changed == {b \in Beads : stamp[b] # 0}

Small ==
    /\ view[v1].ids # {} => (\A w \in Walkers : At(w, "begin")) /\ Changed \subseteq view[v1].ids
    /\ view[v1].ids = {} => /\ ViewAt(v1, "begin")
                            /\ \A b \in Changed : status[b] = "closed"
                            /\ Cardinality(Changed) <= IF Kind = "seed" THEN 0 ELSE 1
                            /\ Kind # "seed" => At(w2, "begin")

\* Asserted of every state that is reached.
Typed == Assert(WatchTypeOK, "ill-typed")
=============================================================================
