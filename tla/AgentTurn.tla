----------------------------- MODULE AgentTurn -----------------------------
(***************************************************************************)
(* Agent turns: AgentSession.prompt over a chain of runtimes, with retries *)
(* and failover on exhausted capacity, one recovery of an interrupted      *)
(* transport, mail delivered with the prompt, the account each attempt     *)
(* runs under, and the persistence of the session id by RoleRegistry.      *)
(*                                                                         *)
(* A role is one process of turns: RoleRegistry.get, prompt, persist, and  *)
(* again. Roles of one seed share the session store, all share the         *)
(* account registry. A process may die anywhere and a new one opens the    *)
(* session again.                                                          *)
(***************************************************************************)
EXTENDS RoleSessions, Accounts

CONSTANTS
    Primary,      \* provider of the backend PO_BACKEND selects
    Policies,     \* raw PO_CAPACITY_RETRIES / PO_RUNTIME_FALLBACKS settings
    Mails,        \* mails that may arrive, in the order of their creation
    MaxInbox,     \* MAX_INBOX_MESSAGES
    Forks,        \* values of prompt(fork=...)
    MaxTurns,     \* bound: turns started by all roles
    MaxCrashes    \* bound: deaths of a role's process

MaxRetries   == 3   \* MAX_CAPACITY_RETRIES
MaxFallbacks == 4   \* MAX_RUNTIME_FALLBACKS

ASSUME AgentTurnAssumption ==
    /\ Primary \in Provider
    /\ \A p \in Policies : p.fallbacks \in Seq([prov : STRING, acct : STRING])
    /\ Mails \subseteq Nat /\ MaxInbox \in Nat \ {0} /\ Forks \subseteq BOOLEAN
    /\ MaxTurns \in Nat /\ MaxCrashes \in Nat

VARIABLES
    policy,   \* the raw setting in force
    pc,       \* what a role's process does next
    sess,     \* its AgentSession: provider of the backend, session id, and (history)
              \* whether this process got the id from a turn of its own
    try,      \* position in the chain, runtime and retry index, and the fork flag
    tried,    \* (history) the attempts of the current turn
    ask,      \* (history) the last request made of a provider
    issued,   \* who issued a session id: provider and account
    inbox,    \* a role's unread mail
    mails,    \* mail in the prompt of the current turn
    told,     \* (history) mail some completed turn was prompted with
    wrote,    \* (history) the last id set() was called with and returned for
    turns,    \* turns started
    crashes

turnVars == <<pc, sess, try, tried, ask, mails>>
mailVars == <<inbox, told>>
vars == <<storeVars, accountVars, policy, turnVars, issued, mailVars, wrote, turns, crashes>>

Nobody == [prov |-> "nobody", acct |-> NoAcct]
Who == [prov : Provider \cup {"nobody"}, acct : {NoAcct} \cup {a.handle : a \in Addable}]
NoSession == [prov |-> Primary, sid |-> NoSid, own |-> FALSE]
NoAsk == [sid |-> NoSid, own |-> FALSE, prov |-> "nobody", acct |-> NoAcct]
NoTry == [runtime |-> 1, retry |-> 0, fork |-> FALSE]
Tries == [runtime : 1..(MaxFallbacks + 1), retry : 0..MaxRetries, fork : BOOLEAN]

PCs == {"off", "idle", "attempt", "recover", "mark", "probe", "stamp", "load",
        "dump", "raised", "capacity"}

TypeOK ==
    /\ StoreTypeOK /\ AccountsTypeOK
    /\ policy \in Policies
    /\ pc \in [Roles -> PCs]
    /\ sess \in [Roles -> [prov : Provider, sid : Ids, own : BOOLEAN]]
    /\ try \in [Roles -> Tries]
    /\ tried \in [Roles -> SUBSET Tries]
    /\ ask \in [Roles -> [sid : Ids, own : BOOLEAN, prov : Provider \cup {"nobody"},
                          acct : {NoAcct} \cup {a.handle : a \in Addable}]]
    /\ issued \in [Sids -> Who \cup {[prov |-> "unissued", acct |-> NoAcct]}]
    /\ inbox \in [Roles -> SUBSET Mails]
    /\ mails \in [Roles -> SUBSET Mails]
    /\ told \in [Roles -> SUBSET Mails]
    /\ wrote \in [Roles -> Ids]
    /\ turns \in 0..MaxTurns
    /\ crashes \in 0..MaxCrashes

Init ==
    /\ StoreInit /\ AccountsInit
    /\ policy \in Policies
    /\ pc = [r \in Roles |-> "off"]
    /\ sess = [r \in Roles |-> NoSession]
    /\ try = [r \in Roles |-> NoTry]
    /\ tried = [r \in Roles |-> {}]
    /\ ask = [r \in Roles |-> NoAsk]
    /\ issued = [s \in Sids |-> [prov |-> "unissued", acct |-> NoAcct]]
    /\ inbox = [r \in Roles |-> {}]
    /\ mails = [r \in Roles |-> {}]
    /\ told = [r \in Roles |-> {}]
    /\ wrote = [r \in Roles |-> NoSid]
    /\ turns = 0
    /\ crashes = 0

-----------------------------------------------------------------------------
(* The chain of runtimes.                                                  *)

\* resolve_capacity_policy accepts the setting.
PolicyOK == /\ policy.retries \in 0..MaxRetries
            /\ Len(policy.fallbacks) <= MaxFallbacks
            /\ \A i \in 1..Len(policy.fallbacks) : policy.fallbacks[i].prov \in Provider

\* The session's own backend leads the chain, without an account of its own.
Chain(r) == <<[prov |-> sess[r].prov, acct |-> Unset]>> \o policy.fallbacks

Runtime(r) == Chain(r)[try[r].runtime]

\* Only the first runtime of the chain is asked to resume.
AskedSid(r) == IF try[r].runtime = 1 THEN sess[r].sid ELSE NoSid

Account(r) == AccountOfTurn(Runtime(r).prov, [account |-> Runtime(r).acct, class |-> Unset])

-----------------------------------------------------------------------------
(* What a backend makes of a provider process. The observation: did it     *)
(* return in time, with code 0, with a 429 envelope, with a capacity       *)
(* marker in its output.                                                   *)

Observation == [inTime : BOOLEAN, rcZero : BOOLEAN, limited : BOOLEAN, full : BOOLEAN]

CommonOutcome(o) ==
    IF ~o.inTime THEN "timeout"
    ELSE IF o.rcZero THEN "completed"
    ELSE IF o.full THEN "capacity" ELSE "error"

\* Claude's CLI may exit 0 with a 429 in its envelope: that is looked at first.
ClaudeOutcome(o) == IF o.inTime /\ o.limited THEN "ratelimit" ELSE CommonOutcome(o)
CodexOutcome(o)  == CommonOutcome(o)
CursorOutcome(o) == CommonOutcome(o)

Outcome(prov, o) == CASE prov = "claude" -> ClaudeOutcome(o)
                      [] prov = "codex"  -> CodexOutcome(o)
                      [] prov = "cursor" -> CursorOutcome(o)

\* The id parsed from the output: the last one reported, else the one that was
\* resumed, else a fresh uuid that names no session of the provider.
ParsedSid(reported, prior, fresh) ==
    IF reported # NoSid THEN reported ELSE IF prior # NoSid THEN prior ELSE fresh

Unissued == {s \in Sids : issued[s].prov = "unissued"}
Fresh == CHOOSE s \in Unissued : TRUE

\* The session a CLI is told to continue: claude forks it, codex and cursor have
\* no fork and start afresh.
Resumed(prov, sid, fork) == IF fork /\ prov # "claude" THEN NoSid ELSE sid

\* A provider finds a session only in the home of the account that holds it.
Finds(sid, prov, acct) ==
    sid \notin {t \in Sids : issued[t] # [prov |-> prov, acct |-> acct]}

-----------------------------------------------------------------------------
(* A turn.                                                                 *)

StoreSame == UNCHANGED <<storeVars, wrote>>
Go(r, to) == pc' = [pc EXCEPT ![r] = to]

\* The locals of prompt() are gone.
TurnOver(r) ==
    /\ mails' = [mails EXCEPT ![r] = {}]
    /\ try' = [try EXCEPT ![r] = NoTry]
    /\ tried' = [tried EXCEPT ![r] = {}]
    /\ ask' = [ask EXCEPT ![r] = NoAsk]

\* RoleRegistry.get: a bad policy setting raises, else the stored id and the
\* configured backend make the session. ok: `bd show` answered.
OpenSession(r) ==
    /\ pc[r] = "off"
    /\ \E ok \in BOOLEAN :
          /\ ok \/ StoreFaults
          /\ sess' = [sess EXCEPT ![r] = [prov |-> Primary, sid |-> Get(r, ok), own |-> FALSE]]
    /\ IF PolicyOK THEN Go(r, "idle") ELSE Go(r, "raised")
    /\ UNCHANGED <<storeVars, accountVars, policy, try, tried, ask, mails, issued, mailVars,
                   wrote, turns, crashes>>

\* The newest MaxInbox mails.
Newest(M) == {m \in M : Cardinality({n \in M : n > m}) < MaxInbox}

\* prompt(): fetch the inbox (a failing fetch is an empty one), start the chain.
StartTurn(r) ==
    /\ pc[r] = "idle" /\ turns < MaxTurns
    /\ turns' = turns + 1
    /\ \E got \in {{}, Newest(inbox[r])} : mails' = [mails EXCEPT ![r] = got]
    /\ \E fork \in Forks : try' = [try EXCEPT ![r] = [NoTry EXCEPT !.fork = fork]]
    /\ tried' = [tried EXCEPT ![r] = {}]
    /\ Go(r, "attempt")
    /\ UNCHANGED <<storeVars, accountVars, policy, sess, ask, issued, mailVars, wrote, crashes>>

\* Mutant: the last runtime gives up after its first attempt.
AfterCapacity_LastOnce(r) ==
    IF try[r].runtime = Len(Chain(r)) THEN /\ Go(r, "capacity") /\ UNCHANGED try
    ELSE /\ Go(r, "attempt")
         /\ try' = [try EXCEPT ![r] = IF @.retry < policy.retries
                                      THEN [@ EXCEPT !.retry = @ + 1]
                                      ELSE [@ EXCEPT !.runtime = @ + 1, !.retry = 0]]

\* Mutant: the retries begin anew on the same runtime.
AfterCapacity_Forever(r) ==
    /\ Go(r, "attempt")
    /\ try' = [try EXCEPT ![r].retry = IF @ < policy.retries THEN @ + 1 ELSE 0]

\* ModelCapacityError: the same runtime again, then the next, then the error.
AfterCapacity(r) ==
    IF try[r].retry < policy.retries
    THEN Go(r, "attempt") /\ try' = [try EXCEPT ![r].retry = @ + 1]
    ELSE IF try[r].runtime < Len(Chain(r))
    THEN Go(r, "attempt") /\ try' = [try EXCEPT ![r].runtime = @ + 1, ![r].retry = 0]
    ELSE Go(r, "capacity") /\ UNCHANGED try

\* Mutant: a fallback's answer is not made the session's backend.
Adopted_IdOnly(r, sid, own) == [sess EXCEPT ![r].sid = sid, ![r].own = own]

\* The runtime that answered becomes the session's backend.
Adopted(r, sid, own) == [sess EXCEPT ![r] = [prov |-> Runtime(r).prov, sid |-> sid, own |-> own]]

\* The id a completed run leaves, asked to continue sid under acct: that of the
\* session continued in place or of the new one, or none reported.
Completed(r, sid, acct) ==
    \E how \in {"continued", "new", "unreported"} :
        /\ how = "continued" => sid # NoSid /\ ~try[r].fork
        /\ how = "new" => sid = NoSid \/ try[r].fork
        /\ (how = "new" \/ (how = "unreported" /\ AskedSid(r) = NoSid)) => Unissued # {}
        /\ LET fresh == IF Unissued = {} THEN NoSid ELSE Fresh
               reported == CASE how = "continued" -> sid
                             [] how = "new" -> fresh
                             [] how = "unreported" -> NoSid
               new == ParsedSid(reported, AskedSid(r), fresh)
               kept == how = "unreported" /\ AskedSid(r) # NoSid
           IN  /\ sess' = Adopted(r, new, kept => sess[r].own)
               /\ issued' = IF new = NoSid \/ new \notin Unissued THEN issued
                            ELSE [issued EXCEPT ![new] =
                                    IF how = "new" THEN [prov |-> Runtime(r).prov, acct |-> acct]
                                    ELSE Nobody]
               /\ told' = [told EXCEPT ![r] = @ \cup mails[r]]
               /\ Go(r, "mark")

\* One attempt: resolve the account, run the backend, act on the outcome.
Attempt(r) ==
    /\ pc[r] = "attempt"
    /\ LET acct == Account(r)
           prov == Runtime(r).prov
           sid  == Resumed(prov, AskedSid(r), try[r].fork)
       IN \/ /\ acct = Refused            \* AccountError leaves prompt()
             /\ Go(r, "raised")
             /\ UNCHANGED <<sess, try, tried, ask, issued, told>>
          \/ /\ acct # Refused
             /\ tried' = [tried EXCEPT ![r] = @ \cup {try[r]}]
             /\ ask' = [ask EXCEPT ![r] = [sid |-> sid, own |-> sess[r].own,
                                            prov |-> prov, acct |-> acct]]
             /\ \/ \E o \in Observation :
                      LET out == Outcome(prov, o) IN
                      \/ /\ out = "completed" /\ Finds(sid, prov, acct)
                         /\ Completed(r, sid, acct) /\ UNCHANGED try
                      \/ /\ out = "capacity" /\ AfterCapacity(r)
                         /\ UNCHANGED <<sess, issued, told>>
                      \/ /\ out \in {"timeout", "ratelimit", "error"} /\ Go(r, "raised")
                         /\ UNCHANGED <<sess, issued, try, told>>
                \* the tmux transport vanished: recover iff an id was seen
                \/ /\ Go(r, "raised") /\ UNCHANGED <<sess, issued, try, told>>
                \/ /\ Go(r, "recover")
                   /\ UNCHANGED <<sess, issued, try, told>>
    /\ UNCHANGED <<storeVars, accountVars, policy, mails, inbox, wrote, turns, crashes>>

\* The one recovery run, on the same runtime and account, of the interrupted
\* session: the one resumed, or the new one whose id the output had named.
\* Whatever it raises leaves prompt(), a capacity error too.
Recover(r) ==
    /\ pc[r] = "recover"
    /\ LET prov == ask[r].prov
           acct == ask[r].acct
       IN \E new \in BOOLEAN :
          LET sid == IF new THEN Fresh ELSE AskedSid(r) IN
          /\ IF new THEN (ask[r].sid = NoSid \/ try[r].fork) /\ Unissued # {}
             ELSE AskedSid(r) # NoSid
          /\ ask' = [ask EXCEPT ![r].sid = sid]
          /\ issued' = IF new THEN [issued EXCEPT ![sid] = [prov |-> prov, acct |-> acct]]
                       ELSE issued
          /\ \/ /\ new \/ Finds(sid, prov, acct)
                /\ sess' = Adopted(r, sid, TRUE)
                /\ told' = [told EXCEPT ![r] = @ \cup mails[r]]
                /\ Go(r, "mark")
             \/ Go(r, "raised") /\ UNCHANGED <<sess, told>>
    /\ UNCHANGED <<storeVars, accountVars, policy, try, tried, mails, inbox, wrote, turns, crashes>>

\* Mutant: the inbox is cleared.
Unread_None(r, failed) == failed

\* What is unread after marking, mail by mail, all but the failed ones.
Unread(r, failed) == inbox[r] \ (mails[r] \ failed)

\* _mark_read: one that cannot be marked is logged and stays unread.
MarkRead(r) ==
    /\ pc[r] = "mark"
    /\ \E failed \in SUBSET mails[r] :
          inbox' = [inbox EXCEPT ![r] = Unread(r, failed)]
    /\ TurnOver(r)
    /\ Go(r, "probe")
    /\ UNCHANGED <<storeVars, accountVars, policy, sess, issued, told, wrote, turns, crashes>>

-----------------------------------------------------------------------------
(* RoleRegistry.persist.                                                   *)

PersistSame == UNCHANGED <<accountVars, policy, sess, try, tried, ask, mails, issued, mailVars,
                           turns, crashes>>

Written(r) == wrote' = [wrote EXCEPT ![r] = sess[r].sid]

ProbeSeed(r) ==
    /\ pc[r] = "probe"
    /\ \/ SeedExists /\ Go(r, "stamp")
       \/ (StoreFaults \/ ~SeedExists) /\ Go(r, "load")
    /\ StoreSame /\ PersistSame

Stamp(r) ==
    /\ pc[r] = "stamp"
    /\ \/ StampBead(r, sess[r].sid) /\ Written(r) /\ Go(r, "idle")
       \/ StampTimesOut(r, sess[r].sid) /\ Written(r) /\ Go(r, "idle")
       \/ StampRaises /\ UNCHANGED wrote /\ Go(r, "load")
    /\ PersistSame

ReadSessions(r) == pc[r] = "load" /\ LoadJson(r) /\ Go(r, "dump") /\ UNCHANGED wrote /\ PersistSame

WriteSessions(r) ==
    /\ pc[r] = "dump"
    /\ \/ DumpJson(r, sess[r].sid) /\ Written(r) /\ Go(r, "idle")
       \/ StoreFaults /\ Go(r, "raised") /\ UNCHANGED <<storeVars, wrote>>
    /\ PersistSame

-----------------------------------------------------------------------------
(* The process, the mail and the registry.                                 *)

\* An error ends the flow; a retry opens the session anew.
Restart(r) ==
    /\ pc[r] \in {"raised", "capacity"} /\ turns < MaxTurns
    /\ Go(r, "off")
    /\ TurnOver(r)
    /\ sess' = [sess EXCEPT ![r] = NoSession]
    /\ UNCHANGED <<storeVars, accountVars, policy, issued, mailVars, wrote, turns, crashes>>

Crash(r) ==
    /\ pc[r] # "off" /\ crashes < MaxCrashes
    /\ crashes' = crashes + 1
    /\ Go(r, "off")
    /\ TurnOver(r)
    /\ sess' = [sess EXCEPT ![r] = NoSession]
    /\ UNCHANGED <<storeVars, accountVars, policy, issued, mailVars, wrote, turns>>

MailArrives(r, m) ==
    /\ m \notin UNION {inbox[q] \cup told[q] : q \in Roles}
    /\ \A n \in UNION {inbox[q] \cup told[q] : q \in Roles} : n < m
    /\ inbox' = [inbox EXCEPT ![r] = @ \cup {m}]
    /\ UNCHANGED <<storeVars, accountVars, policy, turnVars, issued, told, wrote, turns, crashes>>

ChangeRegistry ==
    /\ AccountsNext
    /\ UNCHANGED <<storeVars, policy, turnVars, issued, mailVars, wrote, turns, crashes>>

TurnSteps(r) ==
    \/ OpenSession(r) \/ StartTurn(r) \/ Attempt(r) \/ Recover(r) \/ MarkRead(r)
    \/ ProbeSeed(r) \/ Stamp(r) \/ ReadSessions(r) \/ WriteSessions(r)

Next ==
    \/ \E r \in Roles : \/ TurnSteps(r) \/ Restart(r) \/ Crash(r)
                        \/ \E m \in Mails : MailArrives(r, m)
    \/ ChangeRegistry

Spec == Init /\ [][Next]_vars
FairSpec == Spec /\ \A r \in Roles : WF_vars(TurnSteps(r))

-----------------------------------------------------------------------------
(* Properties.                                                             *)

\* A capacity error reaches the caller only after every runtime of the chain was
\* tried retries + 1 times, in order (agent_session.py:2544-2610).
CapacityExhaustive ==
    \A r \in Roles : pc[r] = "capacity" =>
        \A i \in 1..Len(Chain(r)), n \in 0..policy.retries :
            \E t \in tried[r] : t.runtime = i /\ t.retry = n

\* Within one process no provider is handed an id that another issued: the runtime
\* that answers takes the session with its backend, and a fallback is asked to
\* resume nothing (agent_session.py:2544-2635). Not so an id that came from the
\* store, also when a turn that reported none kept it.
SameProviderInProcess ==
    \A r \in Roles : ask[r].sid # NoSid /\ ask[r].own
        => issued[ask[r].sid].prov \in {ask[r].prov, "nobody"}

\* Mail leaves the inbox only after a completed turn whose prompt carried it:
\* a crash, a failed turn or a failed marking loses none (agent_session.py:2637).
MailNotLost ==
    [][\A r \in Roles : inbox[r] \ inbox'[r] \subseteq told[r]]_vars

\* What set() returned for is what get() finds, in whatever tier it landed and
\* under whatever spelling, unless the write itself met a fault or a concurrent
\* writer of the JSON map (role_sessions.py:158-240).
ReadsOwnWrites ==
    \A r \in Roles : wrote[r] # NoSid /\ r \notin excused => Get(r, TRUE) = wrote[r]

\* Every turn ends: with an answer, or with an error that leaves prompt().
TurnEnds ==
    \A r \in Roles : pc[r] = "attempt" ~> pc[r] \in {"idle", "raised", "capacity", "off"}

\* A session of claude or codex that a registered account's turn left is reopened
\* under that account by `po agent --resume`, whatever was added to the registry
\* since and whatever the directory rules say by then (account.py:388-394).
RestoredAtHome ==
    \A s \in Sids :
        /\ Loads(registry) /\ issued[s].prov \in Homing
        /\ \E a \in registry.accounts : a.handle = issued[s].acct
        => LaunchedUnder(issued[s].prov, issued[s].acct, [account |-> Unset, class |-> Unset])
              = issued[s].acct

=============================================================================
