-------------------------------- MODULE MCFeed --------------------------------
(***************************************************************************)
(* Two `prompt` runs of one label, or one run and a `po watch` over it.    *)
(***************************************************************************)
EXTENDS Feed, TLC

CONSTANTS p1, p2

Rig(backend, bd, br, prefixed) == [backend |-> backend, bd |-> bd, br |-> br, prefixed |-> prefixed]
MCPrefixed == Rig("dolt", TRUE, FALSE, TRUE)
MCServed == Rig("br", TRUE, TRUE, FALSE)
MCRigs == {Rig("dolt", TRUE, FALSE, FALSE), MCPrefixed, MCServed, Rig("br", TRUE, FALSE, FALSE)}

Plain == [label |-> "l", fresh |-> FALSE, bead |-> TRUE, close |-> TRUE, dry |-> FALSE]
Fresh == [Plain EXCEPT !.fresh = TRUE]
Both(a, b) == [p \in Runs |-> IF p = p1 THEN a ELSE b]
MCAsks == {Both(Fresh, Fresh), Both(Plain, Plain), Both([Plain EXCEPT !.bead = FALSE], Plain),
           Both([Fresh EXCEPT !.close = FALSE], [Plain EXCEPT !.dry = TRUE])}

MCWatched ==
    LET plain == [run |-> p1, inRig |-> TRUE, token |-> "handle", replay |-> FALSE]
    IN  {plain, [plain EXCEPT !.replay = TRUE], [plain EXCEPT !.inRig = FALSE],
         [plain EXCEPT !.token = "flow id"]}

\* Bounds: the tracker counts its ids up; a second run moves only where nothing is watched;
\* what is watched is a plain run, from its turn on, with a bead that is stamped and claimed
\* or without one; where it is replayed, asked for from elsewhere, has tasks or leaves notes,
\* nothing fails.
Watches == feed.pc # "begin"
Paired == run[p2].pc # "new" \/ second # 0
Notes == \E h \in Handles : dir[h].files["notes.md"] > 0

Small ==
    /\ \A g, h \in Handles : g.kind = "given" /\ h.kind = "given" /\ g.n < h.n /\ bead[h] # NoBead
          => bead[g] # NoBead
    /\ feed.pc # "refused"
    /\ Watches =>
          /\ ~Paired /\ asked[p2] = Plain /\ rig \notin {MCPrefixed, MCServed}
          /\ run[p1].pc \notin {"new", "prepare", "stamp", "tag", "claim", "ask"}
          /\ run[p1].bead => bead[Handle(p1)].dir /\ bead[Handle(p1)].by = p1
          /\ feed.asked.replay => rig.backend = "dolt"
          /\ feed.asked.replay \/ ~feed.asked.inRig \/ Notes \/ task # [k \in Tasks |-> Unknown]
                => mishaps = 0
          /\ task # [k \in Tasks |-> Unknown] => ~Notes
    /\ Paired =>
          /\ feed.asked = [run |-> p1, inRig |-> TRUE, token |-> "handle", replay |-> FALSE]
          /\ asked # Both(Fresh, Fresh) => rig \notin {MCPrefixed, MCServed} /\ second = 0
          /\ \A p \in Runs : flow[p].state \in {"Running", "Completed", "Failed"}
          /\ ~Notes /\ \A h \in Handles : ~dir[h].moved

\* Asserted of every state that is reached.
Typed == Assert(FeedTypeOK, "ill-typed")
=============================================================================
