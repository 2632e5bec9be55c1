------------------------------ MODULE Accounts ------------------------------
(***************************************************************************)
(* The account registry (account.py): which subscription a provider CLI    *)
(* runs under. `po account add` and `po account rule-add` rewrite the file *)
(* that every turn resolves its account from.                              *)
(*                                                                         *)
(* A registered account is a record; the registry file is absent, torn (a  *)
(* writer died inside write_text) or a set of accounts and the directory   *)
(* rules, in file order, that match the working directory of the agents.   *)
(***************************************************************************)
EXTENDS Naturals, Sequences, FiniteSets

CONSTANTS
    Admins,       \* processes that may run `po account add` / `rule-add`
    Addable,      \* the accounts they may add
    RuleAddable,  \* the rules they may add
    ProcessEnv    \* PO_ACCOUNT and PO_ACCOUNT_CLASS of the flow's process

Unset   == "unset"
NoAcct  == "no account"     \* no registry: the provider's own default login
Refused == "AccountError"
Provider == {"claude", "codex", "cursor"}
Homing == {"claude", "codex"}   \* those whose accounts have a home with sessions

ASSUME AccountsAssumption ==
    /\ \A a \in Addable : /\ a.provider \in Provider
                          /\ a.homed \in BOOLEAN
                          /\ a.handle \notin {Unset, NoAcct, Refused}
    /\ \A r \in RuleAddable : r.depth \in Nat

VARIABLES
    registry,  \* the file
    draft      \* what an admin has loaded, changed and not yet saved

accountVars == <<registry, draft>>

Absent == [state |-> "absent", accounts |-> {}, rules |-> <<>>]
NoDraft == [state |-> "none", accounts |-> {}, rules |-> <<>>]

Registries == [state : {"absent", "torn", "file", "none"},
               accounts : SUBSET Addable, rules : Seq(RuleAddable)]

AccountsTypeOK ==
    /\ registry \in Registries
    /\ draft \in [Admins -> Registries]

AccountsInit ==
    /\ registry = Absent
    /\ draft = [a \in Admins |-> NoDraft]

-----------------------------------------------------------------------------
(* Reading the registry.                                                   *)

\* load_registry accepts the file: every account has a class, those of claude
\* and codex a home, a config_source names an account of the same provider.
Loads(reg) ==
    /\ reg.state = "file"
    /\ \A a \in reg.accounts :
          /\ a.class # Unset
          /\ a.provider \in Homing => a.homed
          /\ a.source # Unset =>
                \E s \in reg.accounts : s.handle = a.source /\ s.provider = a.provider
    /\ \A i \in 1..Len(reg.rules) : reg.rules[i].class # Unset

\* The first rule of those with the longest path; {} when none matches.
MatchingRule(reg) ==
    LET Longest(i) == \A j \in 1..Len(reg.rules) :
                         \/ reg.rules[j].depth < reg.rules[i].depth
                         \/ reg.rules[j].depth = reg.rules[i].depth /\ i <= j
    IN {reg.rules[i] : i \in {k \in 1..Len(reg.rules) : Longest(k)}}

\* Handle and class a caller asks for: explicit, else from the environment,
\* which is read only when neither was given; a handle beats a class.
Selection(want, env) ==
    IF want.account # Unset \/ want.class # Unset THEN want
    ELSE [account |-> env.account,
          class |-> IF env.account # Unset THEN Unset ELSE env.class]

\* The handle resolve_account selects, or Refused.
ResolveAccount(reg, provider, want) ==
    LET sel  == Selection(want, ProcessEnv)
        rule == MatchingRule(reg)
        named == {a \in reg.accounts : a.handle = sel.account}
        class == IF sel.class # Unset THEN {sel.class} ELSE {r.class : r \in rule}
        fits == {a \in reg.accounts : a.provider = provider
                                      /\ \A c \in class : a.class = c}
    IN  IF sel.account # Unset
        THEN IF \E a \in named : a.provider = provider THEN sel.account ELSE Refused
        ELSE IF \/ sel.class # Unset /\ \E r \in rule : r.class # sel.class
                \/ Cardinality(fits) # 1
             THEN Refused
             ELSE (CHOOSE a \in fits : TRUE).handle

\* The account of a turn: none without a registry file, an error when the file
\* does not load.
AccountOfTurn(provider, want) ==
    IF registry.state = "absent" THEN NoAcct
    ELSE IF ~Loads(registry) THEN Refused
    ELSE ResolveAccount(registry, provider, want)

-----------------------------------------------------------------------------
(* `po agent <provider> --resume <session>` (launch_agent).                *)

\* The account whose home holds a session; {} when no registered one does, and
\* for cursor. home: where the session's transcript lies.
SessionAccount(reg, provider, home) ==
    {a \in reg.accounts : /\ provider \in Homing /\ a.provider = provider
                          /\ a.homed /\ a.handle = home}

\* Mutant: the caller's directory decides.
LaunchedUnder_ByRule(provider, home, want) ==
    IF ~Loads(registry) THEN Refused ELSE ResolveAccount(registry, provider, want)

\* A resumed session goes to the account that holds it unless the caller named
\* one; otherwise, and when nobody registered holds it, the usual resolution.
LaunchedUnder(provider, home, want) ==
    LET owner == SessionAccount(registry, provider, home)
    IN  IF ~Loads(registry) THEN Refused
        ELSE IF want.account = Unset /\ want.class = Unset /\ owner # {}
             THEN (CHOOSE a \in owner : TRUE).handle
             ELSE ResolveAccount(registry, provider, want)

-----------------------------------------------------------------------------
(* Changing the registry: load, change, save.                              *)

Base == IF registry.state = "absent" THEN [Absent EXCEPT !.state = "file"] ELSE registry

\* `po account add`: an absent file is an empty registry, a file that does not
\* load is refused, and so are a handle in use and a missing home. The class
\* and the config_source are not looked at.
AddAccount(m, a) ==
    /\ draft[m].state = "none"
    /\ registry.state = "absent" \/ Loads(registry)
    /\ a.handle \notin {b.handle : b \in registry.accounts}
    /\ a.provider \in Homing => a.homed
    /\ draft' = [draft EXCEPT ![m] = [Base EXCEPT !.accounts = @ \cup {a}]]
    /\ UNCHANGED registry

\* `po account rule-add`: the file must load; the class is not looked at.
AddRule(m, r) ==
    /\ draft[m].state = "none"
    /\ Loads(registry)
    /\ r \notin {registry.rules[i] : i \in 1..Len(registry.rules)}  \* bound
    /\ draft' = [draft EXCEPT ![m] = [registry EXCEPT !.rules = Append(@, r)]]
    /\ UNCHANGED registry

\* save_registry: the whole file is rewritten from what was loaded.
SaveRegistry(m) ==
    /\ draft[m].state = "file"
    /\ registry' = draft[m]
    /\ draft' = [draft EXCEPT ![m] = NoDraft]

\* write_text opens for writing and then writes: a writer that dies in between
\* leaves a file that is cut short.
TearRegistry(m) ==
    /\ draft[m].state = "file"
    /\ registry' = [draft[m] EXCEPT !.state = "torn"]
    /\ draft' = [draft EXCEPT ![m] = NoDraft]

AccountsNext ==
    \E m \in Admins :
        \/ \E a \in Addable : AddAccount(m, a)
        \/ \E r \in RuleAddable : AddRule(m, r)
        \/ SaveRegistry(m)
        \/ TearRegistry(m)

=============================================================================
