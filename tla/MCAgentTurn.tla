---------------------------- MODULE MCAgentTurn ----------------------------
(***************************************************************************)
(* Small instances of AgentTurn: two roles, one of whose names bead        *)
(* metadata cannot spell, a chain with a second provider, one with another *)
(* account of the first, and a setting that is refused.                    *)
(***************************************************************************)
EXTENDS AgentTurn, TLC

TwoKeys == [r \in Roles |-> IF r = "plan-critic" THEN "plan_critic" ELSE r]

Fallback(prov, acct) == [prov |-> prov, acct |-> acct]

Chains == {[retries |-> 1, fallbacks |-> <<Fallback("codex", Unset)>>],
           [retries |-> 0, fallbacks |-> <<Fallback("claude", "h2"), Fallback("cursor", Unset)>>],
           [retries |-> 4, fallbacks |-> <<>>]}

PlainChains == {[retries |-> 0, fallbacks |-> <<Fallback("codex", Unset)>>]}

Acct(h, p, c, s) == [handle |-> h, provider |-> p, class |-> c, source |-> s, homed |-> TRUE]

TwoAccounts == {Acct("h1", "claude", "team", Unset), Acct("h2", "claude", "own", "h1")}
TwoRules == {[depth |-> 1, class |-> "team"], [depth |-> 2, class |-> "own"]}

NoEnv == [account |-> Unset, class |-> Unset]

Count(P) == IF P THEN 1 ELSE 0

MailSeen == \E r \in Roles : inbox[r] # {} \/ told[r] # {}
RegistryUsed == registry # Absent \/ \E m \in Admins : draft[m] # NoDraft

\* Bound: one kind of interference in a behaviour, of mail, registry edits, a
\* death and the other role's turns; where the seed is no dolt bead, only the
\* last. It stops the environment, never a step of a turn.
FewAtOnce ==
    /\ Count(MailSeen) + Count(RegistryUsed) + crashes
          + Count(\A r \in Roles : pc[r] # "off") <= 1
    /\ seed # "dolt" => ~MailSeen /\ ~RegistryUsed /\ crashes = 0

\* Asserted of every state that is reached.
Typed == Assert(TypeOK, "ill-typed")
=============================================================================
