---------------------------- MODULE RoleSessions ----------------------------
(***************************************************************************)
(* The role-to-session-id store of a seed bead (role_sessions.py) and how  *)
(* RoleRegistry reads and writes it. Three tiers: metadata of the seed     *)
(* bead, role-sessions.json in the seed's run directory, and a legacy      *)
(* metadata.json that is only read.                                        *)
(*                                                                         *)
(* set() is four requests: does the seed bead exist, stamp it, and, when   *)
(* either fails, load the JSON file and replace it.                        *)
(***************************************************************************)
EXTENDS Naturals, Sequences, FiniteSets

CONSTANTS
    Roles,       \* role names
    BdKey,       \* the spelling of a role as a bead metadata key ("-" is "_")
    Sids,        \* session ids
    StoreFaults  \* may bd time out and a file write fail

NoSid == 0

ASSUME RoleSessionsAssumption ==
    /\ DOMAIN BdKey = Roles
    /\ Sids \subseteq Nat \ {NoSid}
    /\ StoreFaults \in BOOLEAN

BdKeys == {BdKey[r] : r \in Roles}

VARIABLES
    seed,    \* what the seed is: a dolt bead, a br bead, or no tracked bead
    bead,    \* tier 1, by metadata key
    json,    \* tier 2, by role
    legacy,  \* tier 3, by role
    loaded,  \* the JSON map a writer has read and not yet written back
    excused  \* (history) roles whose last write met a fault or a race

storeVars == <<seed, bead, json, legacy, loaded, excused>>

Ids == Sids \cup {NoSid}

StoreTypeOK ==
    /\ seed \in {"dolt", "br", "untracked"}
    /\ bead \in [BdKeys -> Ids]
    /\ json \in [Roles -> Ids]
    /\ legacy \in [Roles -> Ids]
    /\ loaded \in [Roles -> [Roles -> Ids]]
    /\ excused \subseteq Roles

StoreInit ==
    /\ seed \in {"dolt", "br", "untracked"}
    /\ bead = [k \in BdKeys |-> NoSid]
    /\ json = [r \in Roles |-> NoSid]
    /\ legacy = [r \in Roles |-> NoSid]
    /\ loaded = [r \in Roles |-> [q \in Roles |-> NoSid]]
    /\ excused = {}

-----------------------------------------------------------------------------
(* Reading.                                                                *)

FirstOf(a, b) == IF a # NoSid THEN a ELSE b

\* Tier 1, under key k. ok: `bd show` answered. Metadata is a dolt concept.
ReadBead(k, ok) == IF ok /\ seed = "dolt" /\ k \in BdKeys THEN bead[k] ELSE NoSid

\* Mutant of Get: only the role's own spelling is looked up.
Get_Unsanitized(r, ok) == FirstOf(ReadBead(r, ok), FirstOf(json[r], legacy[r]))

\* RoleSessionStore.get: the role's own spelling, then the key's.
Get(r, ok) ==
    FirstOf(FirstOf(ReadBead(r, ok), ReadBead(BdKey[r], ok)), FirstOf(json[r], legacy[r]))

\* What `po sessions` and `po attach` find: all() merges the tiers under the
\* spelling each has, lookup_session asks for the role's own.
Listed(r, ok) == FirstOf(ReadBead(r, ok), FirstOf(json[r], legacy[r]))

-----------------------------------------------------------------------------
(* Writing, for the writer of role r. `at` and `to` are where its program  *)
(* counter stands and goes; AgentTurn owns the counter.                    *)

\* _seed_bead_exists: a timeout and a missing bead are the same "no".
SeedExists == seed \in {"dolt", "br"}

\* BeadsStore.set landed.
StampBead(r, sid) ==
    /\ seed = "dolt"
    /\ bead' = [bead EXCEPT ![BdKey[r]] = sid]
    /\ excused' = excused \ {r}
    /\ UNCHANGED <<seed, json, legacy, loaded>>

\* `bd update` timed out: logged, and reported to the caller as done. The
\* update may have landed or not.
StampTimesOut(r, sid) ==
    /\ StoreFaults /\ seed = "dolt"
    /\ \/ bead' = [bead EXCEPT ![BdKey[r]] = sid]
       \/ UNCHANGED bead
    /\ excused' = excused \cup {r}
    /\ UNCHANGED <<seed, json, legacy, loaded>>

\* BeadsStore.set raised (always on br, which has no metadata): on to JSON.
StampRaises ==
    /\ seed = "br" \/ StoreFaults
    /\ UNCHANGED storeVars

LoadJson(r) ==
    /\ loaded' = [loaded EXCEPT ![r] = json]
    /\ UNCHANGED <<seed, bead, json, legacy, excused>>

Beaded(r) == seed = "dolt" /\ bead[BdKey[r]] # NoSid

\* os.replace: a role whose entry changed since the load loses it; a bead entry
\* that every later read prefers shadows this write.
DumpJson(r, sid) ==
    /\ json' = [loaded[r] EXCEPT ![r] = sid]
    /\ excused' = (excused \ {r})
                  \cup {q \in Roles \ {r} : json[q] # loaded[r][q] /\ ~Beaded(q)}
                  \cup {q \in {r} : Beaded(r)}
    /\ loaded' = [loaded EXCEPT ![r] = [q \in Roles |-> NoSid]]
    /\ UNCHANGED <<seed, bead, legacy>>

=============================================================================
