-------------------------- MODULE AgentTurnProofs --------------------------
(***************************************************************************)
(* For any roles, policies, accounts, mails and bounds: the state of       *)
(* AgentTurn is well typed, a capacity error comes after the whole chain,  *)
(* no provider is asked for another's session, the store returns what was  *)
(* written, no mail is lost, and a session is reopened in its home.        *)
(***************************************************************************)
EXTENDS AgentTurn, SequenceTheorems, FiniteSetTheorems, TLAPS

-----------------------------------------------------------------------------
(* The chain of runtimes, accounts and ids.                                *)

\* An element in front of a sequence.
LEMMA InFront ==
    ASSUME NEW S, NEW s \in Seq(S), NEW e
    PROVE  /\ Len(s) \in Nat
           /\ Len(<<e>> \o s) = Len(s) + 1
           /\ (<<e>> \o s)[1] = e
           /\ \A i \in 2..Len(<<e>> \o s) : (<<e>> \o s)[i] = s[i - 1]
<1> DEFINE T == S \cup {e}
<1>1. Len(s) \in Nat /\ s \in [1..Len(s) -> T]
  BY DEF T
<1>2. s \in Seq(T)
  BY <1>1, SeqDef
<1>3. <<e>> \in Seq(T) /\ Len(<<e>>) = 1 /\ <<e>>[1] = e
  BY DEF T
<1> HIDE DEF T
<1>4. /\ Len(<<e>> \o s) = 1 + Len(s)
      /\ \A i \in 1..Len(<<e>> \o s) :
            (<<e>> \o s)[i] = IF i <= 1 THEN <<e>>[i] ELSE s[i - 1]
  BY <1>2, <1>3, ConcatProperties
<1> QED
  BY <1>1, <1>3, <1>4

\* The session's own backend leads the chain; the fallbacks follow.
LEMMA ChainShape ==
    ASSUME policy \in Policies, NEW r \in Roles
    PROVE  /\ Len(policy.fallbacks) \in Nat
           /\ Len(Chain(r)) = Len(policy.fallbacks) + 1
           /\ Chain(r)[1] = [prov |-> sess[r].prov, acct |-> Unset]
           /\ \A i \in 2..Len(Chain(r)) : Chain(r)[i] = policy.fallbacks[i - 1]
<1>1. policy.fallbacks \in Seq([prov : STRING, acct : STRING])
  BY AgentTurnAssumption
<1> QED
  BY <1>1, InFront DEF Chain

\* The role's attempt stands at a runtime and a retry of its chain.
InChain(r) == /\ try[r].runtime \in 1..Len(policy.fallbacks) + 1
              /\ try[r].retry \in 0..policy.retries

LEMMA RuntimeKnown ==
    ASSUME TypeOK, NEW r \in Roles, PolicyOK, InChain(r)
    PROVE  /\ Runtime(r).prov \in Provider
           /\ try[r].runtime = 1 => Runtime(r).prov = sess[r].prov
           /\ AskedSid(r) \in Ids
           /\ AskedSid(r) # NoSid => try[r].runtime = 1 /\ AskedSid(r) = sess[r].sid
<1>1. /\ sess[r].prov \in Provider /\ sess[r].sid \in Ids /\ policy \in Policies
      /\ try[r].runtime \in Nat /\ Len(policy.fallbacks) \in Nat
  BY ChainShape DEF TypeOK, Tries
<1>2. CASE try[r].runtime = 1
  <2>1. Chain(r)[1] = [prov |-> sess[r].prov, acct |-> Unset]
    BY <1>1, ChainShape
  <2> QED
    BY <1>1, <1>2, <2>1 DEF Runtime, AskedSid
<1>3. CASE try[r].runtime # 1
  <2>1. /\ try[r].runtime \in 2..Len(Chain(r))
        /\ try[r].runtime - 1 \in 1..Len(policy.fallbacks)
    <3>1. Len(Chain(r)) = Len(policy.fallbacks) + 1
      BY <1>1, ChainShape
    <3> QED
      BY <1>1, <1>3, <3>1 DEF InChain
  <2>2. Runtime(r) = policy.fallbacks[try[r].runtime - 1]
    BY <1>1, <2>1, ChainShape DEF Runtime
  <2> QED
    BY <1>3, <2>1, <2>2 DEF PolicyOK, AskedSid, Ids
<1> QED
  BY <1>2, <1>3

Handles == {NoAcct} \cup {a.handle : a \in Addable}

\* A turn runs under the default login or under an account that was added.
LEMMA AccountKnown ==
    ASSUME AccountsTypeOK, NEW r \in Roles, Account(r) # Refused
    PROVE  Account(r) \in Handles
<1> DEFINE prov == Runtime(r).prov
           want == [account |-> Runtime(r).acct, class |-> Unset]
           sel  == Selection(want, ProcessEnv)
           class == IF sel.class # Unset THEN {sel.class}
                    ELSE {x.class : x \in MatchingRule(registry)}
           fits == {a \in registry.accounts : a.provider = prov /\ \A c \in class : a.class = c}
<1>1. registry.accounts \subseteq Addable
  BY DEF AccountsTypeOK, Registries
<1>2. CASE registry.state = "absent"
  BY <1>2 DEF Account, AccountOfTurn, Handles
<1>3. CASE registry.state # "absent"
  <2>1. Account(r) = ResolveAccount(registry, prov, want)
    BY <1>3 DEF Account, AccountOfTurn
  <2>2. CASE sel.account # Unset
    BY <1>1, <2>1, <2>2 DEF ResolveAccount, Handles
  <2>3. CASE sel.account = Unset
    <3>1. Cardinality(fits) = 1 /\ Account(r) = (CHOOSE a \in fits : TRUE).handle
      BY <2>1, <2>3 DEF ResolveAccount
    <3>2. fits \subseteq Addable
      BY <1>1
    <3> HIDE DEF fits
    <3>3. fits # {}
      BY <3>1, FS_EmptySet
    <3>4. (CHOOSE a \in fits : TRUE) \in fits
      BY <3>3
    <3> QED
      BY <3>1, <3>2, <3>4 DEF Handles
  <2> QED
    BY <2>2, <2>3
<1> QED
  BY <1>2, <1>3

LEMMA FreshKnown ==
    ASSUME Unissued # {}
    PROVE  Fresh \in Unissued /\ Fresh \in Sids /\ issued[Fresh].prov = "unissued"
BY DEF Unissued, Fresh

-----------------------------------------------------------------------------
(* Types. A turn is under way only under a policy that is accepted, and    *)
(* stands in its chain.                                                    *)

Accepted == \A r \in Roles : pc[r] \notin {"off", "raised"} => PolicyOK
Placed == \A r \in Roles : pc[r] \in {"attempt", "recover", "capacity"} => InChain(r)

TypeInv == TypeOK /\ Accepted /\ Placed

LEMMA TypeInit == Init => TypeInv
<1> SUFFICES ASSUME Init PROVE TypeInv
  OBVIOUS
<1> USE AgentTurnAssumption DEF Init
<1>1. StoreTypeOK
  BY DEF StoreInit, StoreTypeOK, Ids
<1>2. AccountsTypeOK
  BY DEF AccountsInit, AccountsTypeOK, Registries, Absent, NoDraft
<1>3. /\ sess \in [Roles -> [prov : Provider, sid : Ids, own : BOOLEAN]]
      /\ try \in [Roles -> Tries]
      /\ issued \in [Sids -> Who \cup {[prov |-> "unissued", acct |-> NoAcct]}]
      /\ wrote \in [Roles -> Ids]
  BY DEF NoSession, NoTry, Tries, Ids, MaxFallbacks, MaxRetries
<1>4. ask \in [Roles -> [sid : Ids, own : BOOLEAN, prov : Provider \cup {"nobody"},
                         acct : Handles]]
  BY DEF NoAsk, Ids, Handles
<1>5. pc \in [Roles -> PCs] /\ Accepted /\ Placed
  BY DEF PCs, Accepted, Placed
<1> QED
  BY <1>1, <1>2, <1>3, <1>4, <1>5 DEF TypeInv, TypeOK, Handles

\* The parts of TypeOK that a step of a turn changes.
SessOK == sess \in [Roles -> [prov : Provider, sid : Ids, own : BOOLEAN]]
TryOK == try \in [Roles -> Tries] /\ tried \in [Roles -> SUBSET Tries]
AskOK == ask \in [Roles -> [sid : Ids, own : BOOLEAN, prov : Provider \cup {"nobody"},
                           acct : Handles]]
IssuedOK == issued \in [Sids -> Who \cup {[prov |-> "unissued", acct |-> NoAcct]}]
MailOK == /\ inbox \in [Roles -> SUBSET Mails]
          /\ mails \in [Roles -> SUBSET Mails]
          /\ told \in [Roles -> SUBSET Mails]
StepsOK == pc \in [Roles -> PCs] /\ Accepted /\ Placed
BoundsOK == turns \in 0..MaxTurns /\ crashes \in 0..MaxCrashes
WroteOK == wrote \in [Roles -> Ids]

LEMMA Parts ==
    TypeInv <=> /\ StoreTypeOK /\ AccountsTypeOK /\ policy \in Policies
                /\ SessOK /\ TryOK /\ AskOK /\ IssuedOK /\ MailOK /\ StepsOK
                /\ BoundsOK /\ WroteOK
BY DEF TypeInv, TypeOK, SessOK, TryOK, AskOK, IssuedOK, MailOK, StepsOK, BoundsOK, WroteOK,
       Handles

LEMMA PartsNext ==
    ASSUME StoreTypeOK', AccountsTypeOK', (policy \in Policies)', SessOK', TryOK', AskOK',
           IssuedOK', MailOK', StepsOK', BoundsOK', WroteOK'
    PROVE  TypeInv'
BY DEF TypeInv, TypeOK, SessOK, TryOK, AskOK, IssuedOK, MailOK, StepsOK, BoundsOK, WroteOK,
       Handles

LEMMA SameStore == StoreTypeOK /\ UNCHANGED storeVars => StoreTypeOK'
BY DEF StoreTypeOK, storeVars

LEMMA SameAccounts == AccountsTypeOK /\ UNCHANGED accountVars => AccountsTypeOK'
BY DEF AccountsTypeOK, accountVars

\* A role goes somewhere where its place in the chain does not matter.
LEMMA GoOff ==
    ASSUME TypeInv, NEW r \in Roles, NEW to \in PCs, Go(r, to), policy' = policy,
           to \notin {"attempt", "recover", "capacity"},
           to \in {"off", "raised"} \/ PolicyOK,
           \A q \in Roles \ {r} : try'[q] = try[q]
    PROVE  StepsOK'
BY DEF Go, TypeInv, TypeOK, StepsOK, Accepted, Placed, InChain, PolicyOK

LEMMA TurnOverOK ==
    ASSUME TypeInv, NEW r \in Roles, TurnOver(r), UNCHANGED <<inbox, told>>
    PROVE  TryOK' /\ AskOK' /\ MailOK' /\ \A q \in Roles \ {r} : try'[q] = try[q]
<1>1. NoTry \in Tries
  BY DEF NoTry, Tries, MaxFallbacks, MaxRetries
<1>2. NoAsk \in [sid : Ids, own : BOOLEAN, prov : Provider \cup {"nobody"}, acct : Handles]
  BY DEF NoAsk, Ids, Handles
<1> QED
  BY <1>1, <1>2 DEF TypeInv, TypeOK, TurnOver, TryOK, AskOK, MailOK, Handles

LEMMA GetKnown == ASSUME StoreTypeOK, NEW r \in Roles, NEW ok \in BOOLEAN
                  PROVE  Get(r, ok) \in Ids
BY DEF Get, FirstOf, ReadBead, StoreTypeOK, Ids

LEMMA TypeOpen ==
    ASSUME TypeInv, NEW r \in Roles, OpenSession(r)
    PROVE  TypeInv'
<1> USE DEF OpenSession, turnVars, mailVars
<1>1. SessOK'
  BY GetKnown, AgentTurnAssumption DEF TypeInv, TypeOK, SessOK
<1>2. StepsOK'
  BY GoOff DEF PCs
<1>3. StoreTypeOK' /\ AccountsTypeOK'
  BY SameStore, SameAccounts DEF TypeInv, TypeOK
<1> QED
  BY <1>1, <1>2, <1>3, Parts, PartsNext
     DEF TryOK, AskOK, IssuedOK, MailOK, BoundsOK, WroteOK

LEMMA TypeStart ==
    ASSUME TypeInv, NEW r \in Roles, StartTurn(r)
    PROVE  TypeInv'
<1> USE DEF StartTurn, turnVars, mailVars
<1>1. PICK fork \in Forks : try' = [try EXCEPT ![r] = [NoTry EXCEPT !.fork = fork]]
  OBVIOUS
<1>2. [NoTry EXCEPT !.fork = fork] \in Tries
  BY AgentTurnAssumption DEF NoTry, Tries, MaxFallbacks, MaxRetries
<1>3. TryOK'
  BY <1>1, <1>2 DEF TypeInv, TypeOK, TryOK
<1>4. MailOK'
  <2>1. PICK got \in {{}, Newest(inbox[r])} : mails' = [mails EXCEPT ![r] = got]
    OBVIOUS
  <2>2. got \subseteq Mails
    BY DEF TypeInv, TypeOK, Newest
  <2> QED
    BY <2>1, <2>2 DEF TypeInv, TypeOK, MailOK
<1>5. BoundsOK'
  BY AgentTurnAssumption DEF TypeInv, TypeOK, BoundsOK
<1>6. StepsOK'
  <2>1. PolicyOK /\ policy \in Policies
    BY DEF TypeInv, TypeOK, Accepted
  <2>2. Len(policy.fallbacks) \in Nat
    BY <2>1, ChainShape
  <2>3. try'[r].runtime = 1 /\ try'[r].retry = 0
    BY <1>1 DEF TypeInv, TypeOK, NoTry
  <2>4. InChain(r)'
    BY <2>1, <2>2, <2>3 DEF InChain, PolicyOK
  <2>5. \A q \in Roles \ {r} : try'[q] = try[q]
    BY <1>1 DEF TypeInv, TypeOK
  <2> QED
    BY <2>1, <2>4, <2>5 DEF TypeInv, TypeOK, StepsOK, Accepted, Placed, InChain, PolicyOK, Go,
       PCs
<1>7. StoreTypeOK' /\ AccountsTypeOK'
  BY SameStore, SameAccounts DEF TypeInv, TypeOK
<1> QED
  BY <1>3, <1>4, <1>5, <1>6, <1>7, Parts, PartsNext
     DEF SessOK, AskOK, IssuedOK, WroteOK

\* After a capacity error the role stands further on in its chain, or at its end.
LEMMA TypeCapacity ==
    ASSUME TypeInv, NEW r \in Roles, pc[r] = "attempt", AfterCapacity(r), policy' = policy
    PROVE  StepsOK' /\ try' \in [Roles -> Tries]
<1>1. /\ PolicyOK /\ policy \in Policies /\ InChain(r) /\ try[r] \in Tries
      /\ pc \in [Roles -> PCs] /\ try \in [Roles -> Tries]
  BY DEF TypeInv, TypeOK, Accepted, Placed
<1>2. Len(policy.fallbacks) \in Nat /\ Len(Chain(r)) = Len(policy.fallbacks) + 1
  BY <1>1, ChainShape
<1>3. CASE try[r].retry < policy.retries
  <2>1. try' = [try EXCEPT ![r] = [try[r] EXCEPT !.retry = try[r].retry + 1]] /\ Go(r, "attempt")
    BY <1>3 DEF AfterCapacity
  <2>2. [try[r] EXCEPT !.retry = try[r].retry + 1] \in Tries
    BY <1>1, <1>3 DEF Tries, PolicyOK, MaxRetries
  <2>3. InChain(r)'
    BY <1>1, <1>3, <2>1 DEF InChain, Tries, PolicyOK
  <2> QED
    BY <1>1, <2>1, <2>2, <2>3
       DEF TypeInv, StepsOK, Accepted, Placed, InChain, PolicyOK, Go, PCs
<1>4. CASE ~(try[r].retry < policy.retries) /\ try[r].runtime < Len(Chain(r))
  <2> DEFINE next == [try[r] EXCEPT !.runtime = try[r].runtime + 1, !.retry = 0]
  <2>1. try' = [try EXCEPT ![r] = next] /\ Go(r, "attempt")
    BY <1>1, <1>4 DEF AfterCapacity
  <2>2. next \in Tries
    <3>1. try[r].runtime + 1 \in 1..MaxFallbacks + 1 /\ 0 \in 0..MaxRetries
      BY <1>1, <1>2, <1>4 DEF Tries, PolicyOK, MaxRetries, MaxFallbacks
    <3> QED
      BY <1>1, <3>1 DEF Tries
  <2>3. InChain(r)'
    BY <1>1, <1>2, <1>4, <2>1 DEF InChain, Tries, PolicyOK
  <2> QED
    BY <1>1, <2>1, <2>2, <2>3
       DEF TypeInv, StepsOK, Accepted, Placed, InChain, PolicyOK, Go, PCs
<1>5. CASE ~(try[r].retry < policy.retries) /\ ~(try[r].runtime < Len(Chain(r)))
  BY <1>1, <1>5 DEF AfterCapacity, TypeInv, StepsOK, Accepted, Placed, InChain, PolicyOK, Go, PCs
<1> QED
  BY <1>3, <1>4, <1>5

\* A completed run leaves an id of a session, and who issued it.
LEMMA TypeCompleted ==
    ASSUME TypeInv, NEW r \in Roles, PolicyOK, InChain(r),
           NEW sid \in Ids, NEW acct \in Handles, Completed(r, sid, acct)
    PROVE  SessOK' /\ IssuedOK' /\ told' \in [Roles -> SUBSET Mails] /\ Go(r, "mark")
<1>1. /\ Runtime(r).prov \in Provider /\ AskedSid(r) \in Ids
      /\ sess[r].own \in BOOLEAN /\ sess \in [Roles -> [prov : Provider, sid : Ids, own : BOOLEAN]]
      /\ issued \in [Sids -> Who \cup {[prov |-> "unissued", acct |-> NoAcct]}]
  BY RuntimeKnown DEF TypeInv, TypeOK
<1>2. /\ [prov |-> Runtime(r).prov, acct |-> acct] \in Who
      /\ Nobody \in Who
  BY <1>1 DEF Who, Nobody, Handles
<1> DEFINE fresh == IF Unissued = {} THEN NoSid ELSE Fresh
           New(reported) == ParsedSid(reported, AskedSid(r), fresh)
<1>3. fresh \in Ids
  BY FreshKnown DEF Ids
<1>4. PICK how \in {"continued", "new", "unreported"} :
        LET reported == CASE how = "continued" -> sid
                          [] how = "new" -> fresh
                          [] how = "unreported" -> NoSid
            new == New(reported)
            kept == how = "unreported" /\ AskedSid(r) # NoSid
        IN  /\ sess' = Adopted(r, new, kept => sess[r].own)
            /\ issued' = IF new = NoSid \/ new \notin Unissued THEN issued
                         ELSE [issued EXCEPT ![new] =
                                 IF how = "new" THEN [prov |-> Runtime(r).prov, acct |-> acct]
                                 ELSE Nobody]
            /\ told' = [told EXCEPT ![r] = @ \cup mails[r]]
            /\ Go(r, "mark")
  BY DEF Completed
<1> DEFINE reported == CASE how = "continued" -> sid
                         [] how = "new" -> fresh
                         [] how = "unreported" -> NoSid
           new == New(reported)
           own == (how = "unreported" /\ AskedSid(r) # NoSid) => sess[r].own
<1>5. reported \in Ids
  BY <1>3 DEF Ids
<1>6. new \in Ids
  BY <1>1, <1>3, <1>5 DEF ParsedSid
<1>7. own \in BOOLEAN /\ sess' = Adopted(r, new, own)
  BY <1>1, <1>4
<1> HIDE DEF own, new, reported
<1>8. SessOK'
  BY <1>1, <1>6, <1>7 DEF SessOK, Adopted
<1>9. IssuedOK'
  BY <1>1, <1>2, <1>4 DEF IssuedOK, new, reported
<1>10. told' \in [Roles -> SUBSET Mails]
  BY <1>4 DEF TypeInv, TypeOK
<1> QED
  BY <1>4, <1>8, <1>9, <1>10

LEMMA TypeAttempt ==
    ASSUME TypeInv, NEW r \in Roles, Attempt(r)
    PROVE  TypeInv'
<1> DEFINE acct == Account(r)
           prov == Runtime(r).prov
           sid == Resumed(prov, AskedSid(r), try[r].fork)
           to == [sid |-> sid, own |-> sess[r].own, prov |-> prov, acct |-> acct]
<1>1. /\ pc[r] = "attempt" /\ PolicyOK /\ InChain(r)
      /\ UNCHANGED <<storeVars, accountVars, policy, mails, inbox, wrote, turns, crashes>>
  BY DEF Attempt, TypeInv, Accepted, Placed
<1>2. /\ prov \in Provider /\ AskedSid(r) \in Ids /\ sid \in Ids
      /\ sess[r].own \in BOOLEAN /\ try[r] \in Tries
  BY <1>1, RuntimeKnown DEF TypeInv, TypeOK, Resumed, Ids
<1>3. CASE acct = Refused /\ Go(r, "raised") /\ UNCHANGED <<sess, try, tried, ask, issued, told>>
  <2>1. StepsOK'
    BY <1>1, <1>3, GoOff DEF PCs
  <2> QED
    BY <1>1, <1>3, <2>1, SameStore, SameAccounts, Parts, PartsNext
       DEF SessOK, TryOK, AskOK, IssuedOK, MailOK, BoundsOK, WroteOK
<1>4. CASE /\ acct # Refused
           /\ tried' = [tried EXCEPT ![r] = @ \cup {try[r]}]
           /\ ask' = [ask EXCEPT ![r] = to]
           /\ \/ \E o \in Observation :
                    \/ /\ Outcome(prov, o) = "completed" /\ Finds(sid, prov, acct)
                       /\ Completed(r, sid, acct) /\ UNCHANGED try
                    \/ /\ Outcome(prov, o) = "capacity" /\ AfterCapacity(r)
                       /\ UNCHANGED <<sess, issued, told>>
                    \/ /\ Outcome(prov, o) \in {"timeout", "ratelimit", "error"}
                       /\ Go(r, "raised") /\ UNCHANGED <<sess, issued, try, told>>
              \/ Go(r, "raised") /\ UNCHANGED <<sess, issued, try, told>>
              \/ Go(r, "recover") /\ UNCHANGED <<sess, issued, try, told>>
  <2>1. acct \in Handles
    BY <1>4, AccountKnown DEF TypeInv, TypeOK
  <2>2. to \in [sid : Ids, own : BOOLEAN, prov : Provider \cup {"nobody"}, acct : Handles]
    BY <1>2, <2>1
  <2> HIDE DEF to, sid, prov, acct
  <2>3. AskOK'
    BY <1>4, <2>2 DEF TypeInv, TypeOK, AskOK, Handles
  <2>4. tried' \in [Roles -> SUBSET Tries]
    BY <1>2, <1>4 DEF TypeInv, TypeOK
  <2>5. SessOK' /\ IssuedOK' /\ StepsOK' /\ try' \in [Roles -> Tries]
        /\ told' \in [Roles -> SUBSET Mails]
    <3>1. CASE Completed(r, sid, acct) /\ UNCHANGED try
      <4>1. SessOK' /\ IssuedOK' /\ told' \in [Roles -> SUBSET Mails] /\ Go(r, "mark")
        BY <1>1, <1>2, <2>1, <3>1, TypeCompleted
      <4>2. StepsOK'
        BY <1>1, <3>1, <4>1, GoOff DEF PCs
      <4> QED
        BY <3>1, <4>1, <4>2 DEF TypeInv, TypeOK
    <3>2. CASE AfterCapacity(r) /\ UNCHANGED <<sess, issued, told>>
      BY <1>1, <3>2, TypeCapacity DEF TypeInv, TypeOK, SessOK, IssuedOK
    <3>3. CASE Go(r, "raised") /\ UNCHANGED <<sess, issued, try, told>>
      <4>1. StepsOK'
        BY <1>1, <3>3, GoOff DEF PCs
      <4> QED
        BY <3>3, <4>1 DEF TypeInv, TypeOK, SessOK, IssuedOK
    <3>4. CASE Go(r, "recover") /\ UNCHANGED <<sess, issued, try, told>>
      <4>1. StepsOK'
        BY <1>1, <3>4 DEF TypeInv, TypeOK, StepsOK, Accepted, Placed, InChain, PolicyOK, Go, PCs
      <4> QED
        BY <3>4, <4>1 DEF TypeInv, TypeOK, SessOK, IssuedOK
    <3> QED
      BY <1>4, <3>1, <3>2, <3>3, <3>4
  <2>6. MailOK'
    BY <1>1, <2>5 DEF TypeInv, TypeOK, MailOK
  <2> QED
    BY <1>1, <2>3, <2>4, <2>5, <2>6, SameStore, SameAccounts, Parts, PartsNext
       DEF TryOK, BoundsOK, WroteOK
<1> QED
  BY <1>3, <1>4 DEF Attempt

LEMMA TypeRecover ==
    ASSUME TypeInv, NEW r \in Roles, Recover(r)
    PROVE  TypeInv'
<1> DEFINE Sid(new) == IF new THEN Fresh ELSE AskedSid(r)
<1>1. PICK new \in BOOLEAN :
        /\ IF new THEN (ask[r].sid = NoSid \/ try[r].fork) /\ Unissued # {}
           ELSE AskedSid(r) # NoSid
        /\ ask' = [ask EXCEPT ![r].sid = Sid(new)]
        /\ issued' = IF new THEN [issued EXCEPT ![Sid(new)] =
                                    [prov |-> ask[r].prov, acct |-> ask[r].acct]]
                     ELSE issued
        /\ \/ /\ new \/ Finds(Sid(new), ask[r].prov, ask[r].acct)
              /\ sess' = Adopted(r, Sid(new), TRUE)
              /\ told' = [told EXCEPT ![r] = @ \cup mails[r]]
              /\ Go(r, "mark")
           \/ Go(r, "raised") /\ UNCHANGED <<sess, told>>
  BY DEF Recover
<1>2. /\ pc[r] = "recover" /\ PolicyOK /\ InChain(r)
      /\ UNCHANGED <<storeVars, accountVars, policy, try, tried, mails, inbox, wrote, turns, crashes>>
  BY DEF Recover, TypeInv, Accepted, Placed
<1>3. Runtime(r).prov \in Provider /\ AskedSid(r) \in Ids /\ Sid(new) \in Ids
  BY <1>1, <1>2, RuntimeKnown, FreshKnown DEF TypeInv, Ids
<1>4. SessOK'
  <2>1. CASE sess' = Adopted(r, Sid(new), TRUE)
    <3> HIDE DEF Sid
    <3> QED
      BY <1>3, <2>1 DEF TypeInv, TypeOK, SessOK, Adopted
  <2>2. CASE UNCHANGED sess
    BY <2>2 DEF TypeInv, TypeOK, SessOK
  <2> QED
    BY <1>1, <2>1, <2>2
<1>5. AskOK'
  <2>1. AskOK
    BY DEF TypeInv, TypeOK, AskOK, Handles
  <2>2. ask' = [ask EXCEPT ![r].sid = Sid(new)] /\ Sid(new) \in Ids
    BY <1>1, <1>3
  <2> HIDE DEF Sid
  <2> QED
    BY <2>1, <2>2 DEF AskOK
<1>6. IssuedOK'
  <2>1. [prov |-> ask[r].prov, acct |-> ask[r].acct] \in Who
    BY DEF TypeInv, TypeOK, Who
  <2> QED
    BY <1>1, <2>1, FreshKnown DEF TypeInv, TypeOK, IssuedOK
<1>7. MailOK'
  BY <1>1, <1>2 DEF TypeInv, TypeOK, MailOK
<1>8. StepsOK'
  BY <1>1, <1>2, GoOff DEF PCs
<1> QED
  BY <1>2, <1>4, <1>5, <1>6, <1>7, <1>8, SameStore, SameAccounts, Parts, PartsNext
     DEF TryOK, BoundsOK, WroteOK

LEMMA TypeMark ==
    ASSUME TypeInv, NEW r \in Roles, MarkRead(r)
    PROVE  TypeInv'
<1>1. PICK failed \in SUBSET mails[r] : inbox' = [inbox EXCEPT ![r] = Unread(r, failed)]
  BY DEF MarkRead
<1>2. PolicyOK /\ UNCHANGED <<storeVars, accountVars, policy, sess, issued, told, wrote, turns, crashes>>
  BY DEF MarkRead, TypeInv, Accepted
<1>3. /\ mails' = [mails EXCEPT ![r] = {}] /\ try' = [try EXCEPT ![r] = NoTry]
      /\ tried' = [tried EXCEPT ![r] = {}] /\ ask' = [ask EXCEPT ![r] = NoAsk]
  BY DEF MarkRead, TurnOver
<1>4. MailOK'
  BY <1>1, <1>2, <1>3 DEF TypeInv, TypeOK, MailOK, Unread
<1>5. TryOK' /\ AskOK'
  BY <1>3 DEF TypeInv, TypeOK, TryOK, AskOK, NoTry, NoAsk, Tries, Ids, Handles, MaxFallbacks,
     MaxRetries
<1>6. \A q \in Roles \ {r} : try'[q] = try[q]
  BY <1>3 DEF TypeInv, TypeOK
<1>7. StepsOK'
  BY <1>2, <1>6, GoOff DEF PCs, MarkRead
<1> QED
  BY <1>2, <1>4, <1>5, <1>7, SameStore, SameAccounts, Parts, PartsNext
     DEF SessOK, IssuedOK, BoundsOK, WroteOK

\* Steps of persist() change the store, the counter and what was written.
LEMMA PersistOK ==
    ASSUME TypeInv, NEW r \in Roles, PersistSame, StoreTypeOK', pc[r] \notin {"off", "raised"},
           NEW to \in {"idle", "stamp", "load", "dump", "raised"}, Go(r, to),
           Written(r) \/ UNCHANGED wrote
    PROVE  TypeInv'
<1> USE DEF PersistSame, mailVars
<1>1. StepsOK'
  BY GoOff DEF TypeInv, TypeOK, Accepted, PCs
<1>2. WroteOK'
  BY DEF Written, TypeInv, TypeOK, WroteOK
<1> QED
  BY <1>1, <1>2, SameAccounts, Parts, PartsNext
     DEF SessOK, TryOK, AskOK, IssuedOK, MailOK, BoundsOK

LEMMA StampTyped ==
    ASSUME TypeInv, NEW r \in Roles, StampBead(r, sess[r].sid) \/ StampTimesOut(r, sess[r].sid)
    PROVE  StoreTypeOK'
BY DEF StampBead, StampTimesOut, TypeInv, TypeOK, StoreTypeOK

LEMMA LoadTyped == ASSUME TypeInv, NEW r \in Roles, LoadJson(r) PROVE StoreTypeOK'
BY DEF LoadJson, TypeInv, TypeOK, StoreTypeOK

LEMMA DumpTyped == ASSUME TypeInv, NEW r \in Roles, DumpJson(r, sess[r].sid) PROVE StoreTypeOK'
<1>1. sess[r].sid \in Ids /\ loaded[r] \in [Roles -> Ids]
  BY DEF TypeInv, TypeOK, StoreTypeOK
<1>2. json' \in [Roles -> Ids]
  BY <1>1 DEF DumpJson
<1>3. loaded' \in [Roles -> [Roles -> Ids]]
  BY DEF DumpJson, TypeInv, TypeOK, StoreTypeOK, Ids
<1>4. excused' \subseteq Roles
  BY DEF DumpJson, TypeInv, TypeOK, StoreTypeOK
<1> QED
  BY <1>2, <1>3, <1>4 DEF DumpJson, TypeInv, TypeOK, StoreTypeOK

LEMMA TypePersist ==
    ASSUME TypeInv, NEW r \in Roles,
           ProbeSeed(r) \/ Stamp(r) \/ ReadSessions(r) \/ WriteSessions(r)
    PROVE  TypeInv'
<1>0. StoreTypeOK
  BY DEF TypeInv, TypeOK
<1>1. CASE ProbeSeed(r)
  <2>1. UNCHANGED storeVars /\ UNCHANGED wrote /\ PersistSame /\ pc[r] = "probe"
    BY <1>1 DEF ProbeSeed, StoreSame, storeVars
  <2>2. Go(r, "stamp") \/ Go(r, "load")
    BY <1>1 DEF ProbeSeed
  <2> QED
    BY <1>0, <2>1, <2>2, SameStore, PersistOK
<1>2. CASE Stamp(r)
  <2>1. PersistSame /\ pc[r] = "stamp"
    BY <1>2 DEF Stamp
  <2>2. CASE (StampBead(r, sess[r].sid) \/ StampTimesOut(r, sess[r].sid)) /\ Written(r) /\ Go(r, "idle")
    BY <2>1, <2>2, StampTyped, PersistOK
  <2>3. CASE StampRaises /\ UNCHANGED wrote /\ Go(r, "load")
    <3>1. UNCHANGED storeVars
      BY <2>3 DEF StampRaises
    <3> QED
      BY <1>0, <2>1, <2>3, <3>1, SameStore, PersistOK
  <2> QED
    BY <1>2, <2>2, <2>3 DEF Stamp
<1>3. CASE ReadSessions(r)
  BY <1>3, LoadTyped, PersistOK DEF ReadSessions
<1>4. CASE WriteSessions(r)
  <2>1. PersistSame /\ pc[r] = "dump"
    BY <1>4 DEF WriteSessions
  <2>2. CASE DumpJson(r, sess[r].sid) /\ Written(r) /\ Go(r, "idle")
    BY <2>1, <2>2, DumpTyped, PersistOK
  <2>3. CASE Go(r, "raised") /\ UNCHANGED <<storeVars, wrote>>
    <3>1. UNCHANGED storeVars /\ UNCHANGED wrote
      BY <2>3 DEF storeVars
    <3> QED
      BY <1>0, <2>1, <2>3, <3>1, SameStore, PersistOK
  <2> QED
    BY <1>4, <2>2, <2>3 DEF WriteSessions
<1> QED
  BY <1>1, <1>2, <1>3, <1>4

\* A process ends: by an error or by its death.
LEMMA TypeEnds ==
    ASSUME TypeInv, NEW r \in Roles, Restart(r) \/ Crash(r)
    PROVE  TypeInv'
<1>1. /\ Go(r, "off") /\ TurnOver(r) /\ sess' = [sess EXCEPT ![r] = NoSession]
      /\ UNCHANGED <<storeVars, accountVars, policy, issued, inbox, told, wrote, turns>>
  BY DEF Restart, Crash, mailVars
<1>2. BoundsOK'
  BY AgentTurnAssumption DEF Restart, Crash, TypeInv, TypeOK, BoundsOK
<1>3. SessOK'
  BY <1>1, AgentTurnAssumption DEF TypeInv, TypeOK, SessOK, NoSession, Ids
<1>4. /\ TryOK' /\ AskOK' /\ MailOK'
      /\ \A q \in Roles \ {r} : try'[q] = try[q]
  BY <1>1, TurnOverOK
<1>5. StepsOK'
  BY <1>1, <1>4, GoOff DEF PCs
<1> QED
  BY <1>1, <1>2, <1>3, <1>4, <1>5, SameStore, SameAccounts, Parts, PartsNext
     DEF IssuedOK, WroteOK

LEMMA TypeMail ==
    ASSUME TypeInv, NEW r \in Roles, NEW m \in Mails, MailArrives(r, m)
    PROVE  TypeInv'
<1> USE DEF MailArrives, turnVars
<1>1. MailOK'
  BY DEF TypeInv, TypeOK, MailOK
<1>2. StepsOK'
  BY DEF TypeInv, TypeOK, StepsOK, Accepted, Placed, InChain, PolicyOK
<1> QED
  BY <1>1, <1>2, SameStore, SameAccounts, Parts, PartsNext
     DEF SessOK, TryOK, AskOK, IssuedOK, BoundsOK, WroteOK

\* The registry is rewritten from what was loaded and one addition.
LEMMA RegistryTyped == AccountsTypeOK /\ AccountsNext => AccountsTypeOK'
<1> SUFFICES ASSUME AccountsTypeOK, NEW m \in Admins,
                    \/ \E a \in Addable : AddAccount(m, a)
                    \/ \E x \in RuleAddable : AddRule(m, x)
                    \/ SaveRegistry(m) \/ TearRegistry(m)
             PROVE  AccountsTypeOK'
  BY DEF AccountsNext
<1>1. ASSUME NEW a \in Addable, AddAccount(m, a) PROVE AccountsTypeOK'
  <2>1. [Base EXCEPT !.accounts = Base.accounts \cup {a}] \in Registries
    <3>1. Base \in Registries
      <4>1. [Absent EXCEPT !.state = "file"] \in Registries
        BY EmptySeq DEF Absent, Registries
      <4> QED
        BY <4>1 DEF Base, AccountsTypeOK
    <3> QED
      BY <3>1 DEF Registries
  <2> QED
    BY <1>1, <2>1 DEF AddAccount, AccountsTypeOK
<1>2. ASSUME NEW x \in RuleAddable, AddRule(m, x) PROVE AccountsTypeOK'
  <2>1. Append(registry.rules, x) \in Seq(RuleAddable)
    BY DEF AccountsTypeOK, Registries
  <2>2. [registry EXCEPT !.rules = Append(registry.rules, x)] \in Registries
    BY <2>1 DEF AccountsTypeOK, Registries
  <2> QED
    BY <1>2, <2>2 DEF AddRule, AccountsTypeOK
<1>3. CASE SaveRegistry(m) \/ TearRegistry(m)
  <2>1. NoDraft \in Registries /\ draft[m] \in Registries
    BY DEF NoDraft, Registries, AccountsTypeOK
  <2>2. [draft[m] EXCEPT !.state = "torn"] \in Registries
    BY <2>1 DEF Registries
  <2> QED
    BY <1>3, <2>1, <2>2 DEF SaveRegistry, TearRegistry, AccountsTypeOK
<1> QED
  BY <1>1, <1>2, <1>3

LEMMA TypeRegistry == TypeInv /\ ChangeRegistry => TypeInv'
<1> SUFFICES ASSUME TypeInv, ChangeRegistry PROVE TypeInv'
  OBVIOUS
<1> USE DEF ChangeRegistry, turnVars, mailVars
<1>1. StepsOK'
  BY DEF TypeInv, TypeOK, StepsOK, Accepted, Placed, InChain, PolicyOK
<1> QED
  BY <1>1, SameStore, RegistryTyped, Parts, PartsNext
     DEF SessOK, TryOK, AskOK, IssuedOK, MailOK, BoundsOK, WroteOK

LEMMA TypeStep == TypeInv /\ [Next]_vars => TypeInv'
<1> SUFFICES ASSUME TypeInv, [Next]_vars PROVE TypeInv'
  OBVIOUS
<1>1. CASE UNCHANGED vars
  <2>1. StepsOK'
    BY <1>1 DEF vars, turnVars, TypeInv, TypeOK, StepsOK, Accepted, Placed, InChain, PolicyOK
  <2> QED
    BY <1>1, <2>1, SameStore, SameAccounts, Parts, PartsNext
       DEF vars, turnVars, mailVars, SessOK, TryOK, AskOK, IssuedOK, MailOK, BoundsOK, WroteOK
<1>2. ASSUME NEW r \in Roles, TurnSteps(r) PROVE TypeInv'
  BY <1>2, TypeOpen, TypeStart, TypeAttempt, TypeRecover, TypeMark, TypePersist DEF TurnSteps
<1>3. ASSUME NEW r \in Roles, Restart(r) \/ Crash(r) PROVE TypeInv'
  BY <1>3, TypeEnds
<1>4. ASSUME NEW r \in Roles, NEW m \in Mails, MailArrives(r, m) PROVE TypeInv'
  BY <1>4, TypeMail
<1>5. CASE ChangeRegistry
  BY <1>5, TypeRegistry
<1> QED
  BY <1>1, <1>2, <1>3, <1>4, <1>5 DEF Next

\* The state is well typed, and a turn that is under way stands in a chain that
\* resolve_capacity_policy accepts (agent_session.py:2544).
THEOREM Typing == Spec => []TypeOK
<1>1. TypeInv => TypeOK
  BY DEF TypeInv
<1> QED
  BY <1>1, TypeInit, TypeStep, PTL DEF Spec

-----------------------------------------------------------------------------
(* A step of one role's process leaves the turns of the others alone.      *)

SameTurn(q) == /\ pc'[q] = pc[q] /\ sess'[q] = sess[q] /\ try'[q] = try[q]
               /\ tried'[q] = tried[q] /\ ask'[q] = ask[q] /\ mails'[q] = mails[q]

\* The session the CLI is told to continue.
Asked1(r) == Resumed(Runtime(r).prov, AskedSid(r), try[r].fork)

\* What one attempt does to the turn.
LEMMA AttemptCases ==
    ASSUME TypeInv, NEW r \in Roles, Attempt(r)
    PROVE  /\ pc[r] = "attempt" /\ UNCHANGED <<policy, mails, inbox>>
           /\ \/ Go(r, "raised") /\ UNCHANGED <<sess, try, tried, ask, issued, told>>
              \/ /\ tried' = [tried EXCEPT ![r] = tried[r] \cup {try[r]}]
                 /\ ask' = [ask EXCEPT ![r] = [sid |-> Asked1(r), own |-> sess[r].own,
                                                prov |-> Runtime(r).prov, acct |-> Account(r)]]
                 /\ \/ /\ Finds(Asked1(r), Runtime(r).prov, Account(r))
                       /\ Completed(r, Asked1(r), Account(r))
                       /\ UNCHANGED try
                    \/ AfterCapacity(r) /\ UNCHANGED <<sess, issued, told>>
                    \/ /\ Go(r, "raised") \/ Go(r, "recover")
                       /\ UNCHANGED <<sess, issued, try, told>>
<1>1. pc[r] = "attempt" /\ UNCHANGED <<policy, mails, inbox>>
  BY DEF Attempt
<1>2. tried \in [Roles -> SUBSET Tries]
  BY DEF TypeInv, TypeOK
<1> QED
  BY <1>1, <1>2 DEF Attempt, Asked1

\* What a completed run leaves behind.
LEMMA CompletedEffect ==
    ASSUME TypeInv, NEW r \in Roles, NEW sid, NEW acct, Completed(r, sid, acct)
    PROVE  /\ \E new, own : sess' = Adopted(r, new, own)
           /\ told' = [told EXCEPT ![r] = told[r] \cup mails[r]]
           /\ Go(r, "mark")
<1>1. told \in [Roles -> SUBSET Mails]
  BY DEF TypeInv, TypeOK
<1> QED
  BY <1>1 DEF Completed

LEMMA AdoptedLocal ==
    ASSUME TypeInv, NEW r \in Roles, NEW new, NEW own, sess' = Adopted(r, new, own)
    PROVE  /\ \A q \in Roles \ {r} : sess'[q] = sess[q]
           /\ sess'[r] = [prov |-> Runtime(r).prov, sid |-> new, own |-> own]
BY DEF Adopted, TypeInv, TypeOK

LEMMA CapacityEffect ==
    ASSUME TypeInv, NEW r \in Roles, AfterCapacity(r)
    PROVE  /\ \A q \in Roles \ {r} : try'[q] = try[q]
           /\ Go(r, "attempt") \/ Go(r, "capacity")
BY DEF AfterCapacity, TypeInv, TypeOK

LEMMA Local ==
    ASSUME TypeInv, NEW r \in Roles, TurnSteps(r) \/ Restart(r) \/ Crash(r)
    PROVE  policy' = policy /\ \A q \in Roles \ {r} : SameTurn(q)
<1>1. CASE OpenSession(r) \/ StartTurn(r)
  BY <1>1 DEF OpenSession, StartTurn, Go, TypeInv, TypeOK, SameTurn
<1>2. CASE Attempt(r)
  <2>1. \A q \in Roles \ {r} : sess'[q] = sess[q] /\ try'[q] = try[q]
    <3>1. CASE Completed(r, Asked1(r), Account(r)) /\ UNCHANGED try
      <4>1. PICK new, own : sess' = Adopted(r, new, own)
        BY <3>1, CompletedEffect
      <4> QED
        BY <3>1, <4>1, AdoptedLocal
    <3>2. CASE AfterCapacity(r) /\ UNCHANGED sess
      BY <3>2, CapacityEffect
    <3>3. CASE UNCHANGED <<sess, try>>
      BY <3>3
    <3> QED
      BY <1>2, <3>1, <3>2, <3>3, AttemptCases
  <2>2. \A q \in Roles \ {r} : pc'[q] = pc[q]
    <3>1. \E to \in PCs : Go(r, to)
      BY <1>2, AttemptCases, CompletedEffect, CapacityEffect DEF PCs
    <3> QED
      BY <3>1 DEF Go, TypeInv, TypeOK
  <2>3. \A q \in Roles \ {r} : tried'[q] = tried[q] /\ ask'[q] = ask[q] /\ mails'[q] = mails[q]
    BY <1>2, AttemptCases DEF TypeInv, TypeOK
  <2> QED
    BY <1>2, <2>1, <2>2, <2>3, AttemptCases DEF SameTurn
<1>3. CASE Recover(r)
  <2>1. UNCHANGED sess \/ \E sid : sess' = Adopted(r, sid, TRUE)
    BY <1>3 DEF Recover
  <2>2. \A q \in Roles \ {r} : sess'[q] = sess[q]
    BY <2>1, AdoptedLocal
  <2> QED
    BY <1>3, <2>2 DEF Recover, Go, TypeInv, TypeOK, SameTurn
<1>4. CASE MarkRead(r) \/ Restart(r) \/ Crash(r)
  BY <1>4 DEF MarkRead, Restart, Crash, TurnOver, Go, TypeInv, TypeOK, SameTurn
<1>5. CASE ProbeSeed(r) \/ Stamp(r) \/ ReadSessions(r) \/ WriteSessions(r)
  BY <1>5 DEF ProbeSeed, Stamp, ReadSessions, WriteSessions, PersistSame, Go, TypeInv, TypeOK,
     SameTurn
<1> QED
  BY <1>1, <1>2, <1>3, <1>4, <1>5 DEF TurnSteps

\* The other steps leave all turns alone.
LEMMA Elsewhere ==
    ASSUME UNCHANGED vars \/ ChangeRegistry \/ \E r \in Roles, m \in Mails : MailArrives(r, m)
    PROVE  policy' = policy /\ issued' = issued /\ told' = told /\ \A q \in Roles : SameTurn(q)
BY DEF vars, turnVars, mailVars, ChangeRegistry, MailArrives, SameTurn

\* Where a role's process can be after its step, attempts and openings aside.
LEMMA Leaves ==
    ASSUME TypeInv, NEW r \in Roles,
           \/ OpenSession(r) \/ Recover(r) \/ MarkRead(r) \/ ProbeSeed(r) \/ Stamp(r)
           \/ ReadSessions(r) \/ WriteSessions(r) \/ Restart(r) \/ Crash(r)
    PROVE  pc'[r] \notin {"attempt", "recover", "capacity"}
BY DEF OpenSession, Recover, MarkRead, ProbeSeed, Stamp, ReadSessions, WriteSessions, Restart,
       Crash, Go, TypeInv, TypeOK

-----------------------------------------------------------------------------
(* The chain is gone through in order.                                     *)

Did(q, i, n) == \E t \in tried[q] : t.runtime = i /\ t.retry = n

\* Whatever comes before a role's place in its chain has been tried.
Behind(q) ==
    pc[q] = "attempt" =>
        \A i \in 1..Len(policy.fallbacks) + 1, n \in 0..policy.retries :
            i < try[q].runtime \/ (i = try[q].runtime /\ n < try[q].retry) => Did(q, i, n)

AllTried(q) ==
    pc[q] = "capacity" =>
        \A i \in 1..Len(policy.fallbacks) + 1, n \in 0..policy.retries : Did(q, i, n)

InOrder(q) == Behind(q) /\ AllTried(q)

LEMMA OrderKept ==
    ASSUME NEW q \in Roles, InOrder(q), SameTurn(q), policy' = policy
    PROVE  InOrder(q)'
BY DEF InOrder, Behind, AllTried, Did, SameTurn

LEMMA OrderCapacity ==
    ASSUME TypeInv, NEW r \in Roles, InOrder(r), pc[r] = "attempt", AfterCapacity(r),
           tried' = [tried EXCEPT ![r] = tried[r] \cup {try[r]}], policy' = policy
    PROVE  InOrder(r)'
<1>1. /\ PolicyOK /\ policy \in Policies /\ InChain(r) /\ try[r] \in Tries
      /\ pc \in [Roles -> PCs] /\ try \in [Roles -> Tries] /\ tried \in [Roles -> SUBSET Tries]
  BY DEF TypeInv, TypeOK, Accepted, Placed
<1>2. Len(policy.fallbacks) \in Nat /\ Len(Chain(r)) = Len(policy.fallbacks) + 1
  BY <1>1, ChainShape
<1>3. policy.retries \in Nat /\ try[r].runtime \in Nat /\ try[r].retry \in Nat
  BY <1>1 DEF PolicyOK, Tries
<1> DEFINE at == try[r]
<1>4. \A i \in 1..Len(policy.fallbacks) + 1, n \in 0..policy.retries :
        i < at.runtime \/ (i = at.runtime /\ n <= at.retry) => Did(r, i, n)'
  <2> SUFFICES ASSUME NEW i \in 1..Len(policy.fallbacks) + 1, NEW n \in 0..policy.retries,
                      i < at.runtime \/ (i = at.runtime /\ n <= at.retry)
               PROVE  Did(r, i, n)'
    OBVIOUS
  <2>1. CASE i = at.runtime /\ n = at.retry
    BY <1>1, <2>1 DEF Did
  <2>2. CASE ~(i = at.runtime /\ n = at.retry)
    <3>1. i < at.runtime \/ (i = at.runtime /\ n < at.retry)
      BY <1>3, <2>2
    <3>2. Did(r, i, n)
      BY <3>1 DEF InOrder, Behind
    <3> QED
      BY <1>1, <3>2 DEF Did
  <2> QED
    BY <2>1, <2>2
<1> HIDE DEF at
<1>5. CASE try[r].retry < policy.retries
  <2>1. pc'[r] = "attempt" /\ try'[r].runtime = at.runtime /\ try'[r].retry = at.retry + 1
    BY <1>1, <1>5 DEF AfterCapacity, Go, Tries, at
  <2> QED
    BY <1>3, <1>4, <2>1 DEF InOrder, Behind, AllTried, at
<1>6. CASE ~(try[r].retry < policy.retries) /\ try[r].runtime < Len(Chain(r))
  <2>1. pc'[r] = "attempt" /\ try'[r].runtime = at.runtime + 1 /\ try'[r].retry = 0
    BY <1>1, <1>6 DEF AfterCapacity, Go, Tries, at
  <2> QED
    BY <1>1, <1>3, <1>4, <1>6, <2>1 DEF InOrder, Behind, AllTried, InChain, at
<1>7. CASE ~(try[r].retry < policy.retries) /\ ~(try[r].runtime < Len(Chain(r)))
  <2>1. pc'[r] = "capacity"
    BY <1>1, <1>7 DEF AfterCapacity, Go
  <2>2. \A i \in 1..Len(policy.fallbacks) + 1, n \in 0..policy.retries :
           i < at.runtime \/ (i = at.runtime /\ n <= at.retry)
    BY <1>1, <1>2, <1>3, <1>7 DEF InChain, at
  <2> QED
    BY <1>4, <2>1, <2>2 DEF InOrder, Behind, AllTried
<1> QED
  BY <1>5, <1>6, <1>7

LEMMA OrderStep ==
    ASSUME TypeInv, NEW r \in Roles, InOrder(r), TurnSteps(r) \/ Restart(r) \/ Crash(r)
    PROVE  InOrder(r)'
<1>1. policy' = policy /\ pc \in [Roles -> PCs]
  BY Local DEF TypeInv, TypeOK
<1>2. CASE pc'[r] \notin {"attempt", "recover", "capacity"}
  BY <1>2 DEF InOrder, Behind, AllTried
<1>3. CASE StartTurn(r)
  <2>1. pc'[r] = "attempt" /\ try'[r].runtime = 1 /\ try'[r].retry = 0
    BY <1>3 DEF StartTurn, Go, TypeInv, TypeOK, NoTry
  <2> QED
    BY <2>1 DEF InOrder, Behind, AllTried
<1>4. CASE Attempt(r)
  <2>1. CASE AfterCapacity(r) /\ tried' = [tried EXCEPT ![r] = tried[r] \cup {try[r]}]
    BY <1>1, <1>4, <2>1, AttemptCases, OrderCapacity
  <2>2. CASE \E to \in {"raised", "recover", "mark"} : Go(r, to)
    BY <1>1, <2>2 DEF Go, InOrder, Behind, AllTried
  <2> QED
    BY <1>4, <2>1, <2>2, AttemptCases, CompletedEffect
<1> QED
  BY <1>2, <1>3, <1>4, Leaves DEF TurnSteps

\* A capacity error reaches the caller only after every runtime of the chain was
\* tried retries + 1 times, whatever the chain (agent_session.py:2544-2610).
THEOREM ChainExhausted == Spec => []CapacityExhaustive
<1> DEFINE Inv == TypeInv /\ \A q \in Roles : InOrder(q)
<1>1. Init => Inv
  <2>1. Init => \A q \in Roles : InOrder(q)
    BY DEF Init, InOrder, Behind, AllTried
  <2> QED
    BY <2>1, TypeInit
<1>2. Inv /\ [Next]_vars => Inv'
  <2> SUFFICES ASSUME Inv, [Next]_vars PROVE \A q \in Roles : InOrder(q)'
    BY TypeStep
  <2>1. ASSUME NEW r \in Roles, TurnSteps(r) \/ Restart(r) \/ Crash(r)
        PROVE  \A q \in Roles : InOrder(q)'
    BY <2>1, Local, OrderStep, OrderKept
  <2>2. ASSUME UNCHANGED vars \/ ChangeRegistry \/ \E r \in Roles, m \in Mails : MailArrives(r, m)
        PROVE  \A q \in Roles : InOrder(q)'
    BY <2>2, Elsewhere, OrderKept
  <2> QED
    BY <2>1, <2>2 DEF Next
<1>3. Inv => CapacityExhaustive
  <2> SUFFICES ASSUME Inv, NEW r \in Roles, pc[r] = "capacity",
                      NEW i \in 1..Len(Chain(r)), NEW n \in 0..policy.retries
               PROVE  \E t \in tried[r] : t.runtime = i /\ t.retry = n
    BY DEF CapacityExhaustive
  <2>1. Len(Chain(r)) = Len(policy.fallbacks) + 1
    BY ChainShape DEF TypeInv, TypeOK
  <2> QED
    BY <2>1 DEF InOrder, AllTried, Did
<1> QED
  BY <1>1, <1>2, <1>3, PTL DEF Spec

-----------------------------------------------------------------------------
(* The mail of a prompt is marked read after the turn that carried it.     *)

Carried(q) == pc[q] = "mark" => mails[q] \subseteq told[q]

\* What steps do to the mail: it leaves an inbox only in MarkRead.
LEMMA MailStep ==
    ASSUME TypeInv, NEW r \in Roles, TurnSteps(r) \/ Restart(r) \/ Crash(r)
    PROVE  /\ told' \in [Roles -> SUBSET Mails]
           /\ \A q \in Roles : told[q] \subseteq told'[q]
           /\ UNCHANGED inbox \/ MarkRead(r)
           /\ pc'[r] = "mark" => mails'[r] = mails[r] /\ mails[r] \subseteq told'[r]
<1> USE DEF mailVars, PersistSame
<1>0. /\ told \in [Roles -> SUBSET Mails] /\ mails \in [Roles -> SUBSET Mails]
      /\ pc \in [Roles -> PCs]
  BY DEF TypeInv, TypeOK
<1>1. CASE told' = [told EXCEPT ![r] = told[r] \cup mails[r]] /\ UNCHANGED <<inbox, mails>>
  BY <1>0, <1>1
<1>2. CASE OpenSession(r) \/ StartTurn(r)
  BY <1>0, <1>2 DEF OpenSession, StartTurn, Go
<1>3. CASE Attempt(r)
  <2>1. UNCHANGED <<inbox, mails>>
    BY <1>3, AttemptCases
  <2>2. CASE Completed(r, Asked1(r), Account(r))
    BY <1>1, <2>1, <2>2, CompletedEffect
  <2>3. CASE AfterCapacity(r) /\ UNCHANGED told
    BY <1>0, <2>1, <2>3, CapacityEffect DEF Go
  <2>4. CASE (Go(r, "raised") \/ Go(r, "recover")) /\ UNCHANGED told
    BY <1>0, <2>1, <2>4 DEF Go
  <2> QED
    BY <1>3, <2>2, <2>3, <2>4, AttemptCases
<1>4. CASE Recover(r)
  <2>1. CASE told' = [told EXCEPT ![r] = told[r] \cup mails[r]]
    BY <1>1, <1>4, <2>1 DEF Recover
  <2>2. CASE Go(r, "raised") /\ UNCHANGED told
    BY <1>0, <1>4, <2>2 DEF Recover, Go
  <2> QED
    BY <1>0, <1>4, <2>1, <2>2 DEF Recover
<1>5. CASE \/ MarkRead(r) \/ ProbeSeed(r) \/ Stamp(r) \/ ReadSessions(r) \/ WriteSessions(r)
           \/ Restart(r) \/ Crash(r)
  <2>1. pc'[r] # "mark"
    BY <1>0, <1>5 DEF MarkRead, ProbeSeed, Stamp, ReadSessions, WriteSessions, Restart, Crash, Go
  <2>2. UNCHANGED told /\ (UNCHANGED inbox \/ MarkRead(r))
    BY <1>5 DEF MarkRead, ProbeSeed, Stamp, ReadSessions, WriteSessions, Restart, Crash
  <2> QED
    BY <1>0, <2>1, <2>2
<1> QED
  BY <1>2, <1>3, <1>4, <1>5 DEF TurnSteps

LEMMA CarriedStep ==
    ASSUME TypeInv, \A q \in Roles : Carried(q), [Next]_vars
    PROVE  \A q \in Roles : Carried(q)'
<1>1. ASSUME NEW r \in Roles, TurnSteps(r) \/ Restart(r) \/ Crash(r)
      PROVE  \A q \in Roles : Carried(q)'
  <2> SUFFICES ASSUME NEW q \in Roles PROVE Carried(q)'
    OBVIOUS
  <2>1. CASE q = r
    BY <1>1, <2>1, MailStep DEF Carried
  <2>2. CASE q # r
    <3>1. SameTurn(q) /\ told[q] \subseteq told'[q]
      BY <1>1, <2>2, Local, MailStep
    <3> QED
      BY <3>1 DEF Carried, SameTurn
  <2> QED
    BY <2>1, <2>2
<1>2. ASSUME UNCHANGED vars \/ ChangeRegistry \/ \E r \in Roles, m \in Mails : MailArrives(r, m)
      PROVE  \A q \in Roles : Carried(q)'
  BY <1>2, Elsewhere DEF Carried, SameTurn
<1> QED
  BY <1>1, <1>2 DEF Next

\* What one step may take from an inbox.
Taken == \A r \in Roles : inbox[r] \ inbox'[r] \subseteq told[r]

LEMMA TakenStep ==
    ASSUME TypeInv, \A q \in Roles : Carried(q), [Next]_vars
    PROVE  Taken
<1>0. inbox \in [Roles -> SUBSET Mails]
  BY DEF TypeInv, TypeOK
<1>1. CASE UNCHANGED inbox
  BY <1>1 DEF Taken
<1>2. ASSUME NEW r \in Roles, MarkRead(r) PROVE Taken
  <2>1. PICK failed \in SUBSET mails[r] : inbox' = [inbox EXCEPT ![r] = Unread(r, failed)]
    BY <1>2 DEF MarkRead
  <2>2. mails[r] \subseteq told[r]
    BY <1>2 DEF MarkRead, Carried
  <2> QED
    BY <1>0, <2>1, <2>2 DEF Taken, Unread
<1>3. ASSUME NEW r \in Roles, NEW m \in Mails, MailArrives(r, m) PROVE Taken
  BY <1>0, <1>3 DEF MailArrives, Taken
<1>4. ASSUME UNCHANGED vars \/ ChangeRegistry PROVE UNCHANGED inbox
  BY <1>4 DEF vars, mailVars, ChangeRegistry
<1> QED
  BY <1>1, <1>2, <1>3, <1>4, MailStep DEF Next

\* Mail leaves the inbox only after a completed turn whose prompt carried it,
\* whatever fails or dies in between (agent_session.py:2637).
THEOREM MailKept == Spec => MailNotLost
<1> DEFINE Inv == TypeInv /\ \A q \in Roles : Carried(q)
<1>1. Init => Inv
  <2>1. Init => \A q \in Roles : Carried(q)
    BY DEF Init, Carried
  <2> QED
    BY <2>1, TypeInit
<1>2. Inv /\ [Next]_vars => Inv'
  BY TypeStep, CarriedStep
<1>3. Inv /\ [Next]_vars => Taken
  BY TakenStep
<1>4. MailNotLost <=> [][Taken]_vars
  BY DEF MailNotLost, Taken
<1> QED
  BY <1>1, <1>2, <1>3, <1>4, PTL DEF Spec

-----------------------------------------------------------------------------
(* A process asks a provider only for sessions of that provider, the ids   *)
(* it found in the store aside.                                            *)

\* The id a turn of this process left is one of the provider the session is with.
Home(q) == sess[q].own => /\ sess[q].sid \in Sids
                          /\ issued[sess[q].sid].prov \in {sess[q].prov, "nobody"}

AskedHome(q) == ask[q].sid # NoSid /\ ask[q].own
                    => /\ ask[q].sid \in Sids
                       /\ issued[ask[q].sid].prov \in {ask[q].prov, "nobody"}

\* A recovery is on the runtime that was interrupted.
Resuming(q) == pc[q] = "recover" => /\ ask[q].prov = Runtime(q).prov
                                    /\ ask[q].own = sess[q].own

OwnSession(q) == Home(q) /\ AskedHome(q) /\ Resuming(q)

\* Who issued an id is not rewritten.
IssuedStays == \A s \in Sids : issued[s].prov # "unissued" => issued'[s] = issued[s]

LEMMA OwnKept ==
    ASSUME TypeInv, NEW q \in Roles, OwnSession(q), SameTurn(q), policy' = policy, IssuedStays
    PROVE  OwnSession(q)'
<1>1. sess[q].prov \in Provider /\ ask[q].prov \in Provider \cup {"nobody"}
  BY DEF TypeInv, TypeOK
<1>2. "unissued" \notin Provider \cup {"nobody"}
  BY DEF Provider
<1>3. Home(q)' /\ AskedHome(q)'
  BY <1>1, <1>2 DEF OwnSession, Home, AskedHome, SameTurn, IssuedStays
<1>4. Runtime(q)' = Runtime(q)
  BY DEF Runtime, Chain, SameTurn
<1>5. Resuming(q)'
  BY <1>4 DEF OwnSession, Resuming, SameTurn
<1> QED
  BY <1>3, <1>5 DEF OwnSession

LEMMA CompletedOwn ==
    ASSUME TypeInv, NEW r \in Roles, PolicyOK, InChain(r), Home(r), NEW acct \in Handles,
           Finds(Asked1(r), Runtime(r).prov, acct), Completed(r, Asked1(r), acct)
    PROVE  Home(r)' /\ IssuedStays
<1> DEFINE prov == Runtime(r).prov
           fresh == IF Unissued = {} THEN NoSid ELSE Fresh
<1>1. /\ prov \in Provider
      /\ try[r].runtime = 1 => prov = sess[r].prov
      /\ AskedSid(r) \in Ids
      /\ AskedSid(r) # NoSid => try[r].runtime = 1 /\ AskedSid(r) = sess[r].sid
      /\ Asked1(r) # NoSid => Asked1(r) = AskedSid(r)
  BY RuntimeKnown DEF TypeInv, Asked1, Resumed
<1>2. /\ "unissued" \notin Provider \cup {"nobody"}
      /\ sess[r].prov \in Provider /\ NoSid \notin Sids
      /\ issued \in [Sids -> Who \cup {[prov |-> "unissued", acct |-> NoAcct]}]
  BY RoleSessionsAssumption DEF Provider, TypeInv, TypeOK
<1>3. PICK how \in {"continued", "new", "unreported"} :
        LET reported == CASE how = "continued" -> Asked1(r)
                          [] how = "new" -> fresh
                          [] how = "unreported" -> NoSid
            new == ParsedSid(reported, AskedSid(r), fresh)
            kept == how = "unreported" /\ AskedSid(r) # NoSid
        IN  /\ how = "continued" => Asked1(r) # NoSid /\ ~try[r].fork
            /\ (how = "new" \/ (how = "unreported" /\ AskedSid(r) = NoSid)) => Unissued # {}
            /\ sess' = Adopted(r, new, kept => sess[r].own)
            /\ issued' = IF new = NoSid \/ new \notin Unissued THEN issued
                         ELSE [issued EXCEPT ![new] =
                                 IF how = "new" THEN [prov |-> prov, acct |-> acct]
                                 ELSE Nobody]
  BY DEF Completed
<1> HIDE DEF prov
<1>4. CASE how = "continued"
  <2>1. sess' = Adopted(r, Asked1(r), TRUE) /\ Asked1(r) # NoSid
    BY <1>3, <1>4 DEF ParsedSid
  <2>2. Asked1(r) \in Sids /\ issued[Asked1(r)] = [prov |-> prov, acct |-> acct]
    BY <1>1, <2>1 DEF Finds, Ids, prov
  <2>3. UNCHANGED issued
    BY <1>1, <1>2, <1>3, <1>4, <2>1, <2>2 DEF Unissued, ParsedSid
  <2>4. sess'[r] = [prov |-> prov, sid |-> Asked1(r), own |-> TRUE]
    BY <2>1, AdoptedLocal DEF prov
  <2> QED
    BY <2>2, <2>3, <2>4 DEF Home, IssuedStays
<1>5. CASE how = "new" \/ (how = "unreported" /\ AskedSid(r) = NoSid)
  <2>1. fresh = Fresh /\ Fresh \in Sids /\ Fresh \in Unissued /\ Fresh # NoSid
        /\ issued[Fresh].prov = "unissued"
    BY <1>2, <1>3, <1>5, FreshKnown
  <2>2. sess' = Adopted(r, Fresh, TRUE)
    BY <1>3, <1>5, <2>1 DEF ParsedSid
  <2>3. issued' = [issued EXCEPT ![Fresh] =
                    IF how = "new" THEN [prov |-> prov, acct |-> acct] ELSE Nobody]
    BY <1>3, <1>5, <2>1 DEF ParsedSid
  <2>4. sess'[r] = [prov |-> prov, sid |-> Fresh, own |-> TRUE]
    BY <2>2, AdoptedLocal DEF prov
  <2>5. issued'[Fresh].prov \in {prov, "nobody"}
    BY <1>2, <2>1, <2>3 DEF Nobody
  <2>6. IssuedStays
    BY <1>2, <2>1, <2>3 DEF IssuedStays
  <2> QED
    BY <2>1, <2>4, <2>5, <2>6 DEF Home
<1>6. CASE how = "unreported" /\ AskedSid(r) # NoSid
  <2>1. sess' = Adopted(r, AskedSid(r), sess[r].own)
    <3>1. sess' = Adopted(r, AskedSid(r), TRUE => sess[r].own)
      BY <1>3, <1>6 DEF ParsedSid
    <3>2. (TRUE => sess[r].own) = sess[r].own
      BY DEF TypeInv, TypeOK
    <3> QED
      BY <3>1, <3>2
  <2>2. issued' = IF AskedSid(r) \notin Unissued THEN issued
                 ELSE [issued EXCEPT ![AskedSid(r)] = Nobody]
    BY <1>3, <1>6 DEF ParsedSid
  <2>3. sess'[r] = [prov |-> prov, sid |-> AskedSid(r), own |-> sess[r].own]
    BY <2>1, AdoptedLocal DEF prov
  <2>4. IssuedStays
    BY <1>2, <2>2 DEF IssuedStays, Unissued
  <2>5. AskedSid(r) = sess[r].sid /\ prov = sess[r].prov
    BY <1>1, <1>6
  <2>6. sess[r].own => issued'[AskedSid(r)] = issued[AskedSid(r)]
    BY <1>2, <2>4, <2>5 DEF Home, IssuedStays
  <2> QED
    BY <2>3, <2>4, <2>5, <2>6 DEF Home
<1> QED
  BY <1>4, <1>5, <1>6

\* The sessions a recovery takes over.
LEMMA RecoverOwn ==
    ASSUME TypeInv, NEW r \in Roles, OwnSession(r), Recover(r)
    PROVE  OwnSession(r)' /\ IssuedStays
<1> DEFINE Sid(new) == IF new THEN Fresh ELSE AskedSid(r)
<1>1. PICK new \in BOOLEAN :
        /\ IF new THEN Unissued # {} ELSE AskedSid(r) # NoSid
        /\ ask' = [ask EXCEPT ![r].sid = Sid(new)]
        /\ issued' = IF new THEN [issued EXCEPT ![Sid(new)] =
                                    [prov |-> ask[r].prov, acct |-> ask[r].acct]]
                     ELSE issued
        /\ \/ /\ new \/ Finds(Sid(new), ask[r].prov, ask[r].acct)
              /\ sess' = Adopted(r, Sid(new), TRUE) /\ Go(r, "mark")
           \/ Go(r, "raised") /\ UNCHANGED sess
  BY DEF Recover
<1>2. /\ pc[r] = "recover" /\ PolicyOK /\ InChain(r) /\ ask[r].prov = Runtime(r).prov
      /\ ask[r].own = sess[r].own
  BY DEF Recover, TypeInv, Accepted, Placed, OwnSession, Resuming
<1>3. /\ AskedSid(r) \in Ids
      /\ AskedSid(r) # NoSid => Runtime(r).prov = sess[r].prov /\ AskedSid(r) = sess[r].sid
      /\ "unissued" \notin Provider \cup {"nobody"}
      /\ Runtime(r).prov \in Provider /\ NoSid \notin Sids
      /\ issued \in [Sids -> Who \cup {[prov |-> "unissued", acct |-> NoAcct]}]
      /\ pc \in [Roles -> PCs]
  BY <1>2, RuntimeKnown, RoleSessionsAssumption DEF TypeInv, TypeOK, Provider
<1>4. /\ ask'[r].sid = Sid(new) /\ ask'[r].own = ask[r].own /\ ask'[r].prov = ask[r].prov
  BY <1>1 DEF TypeInv, TypeOK
<1>5. Sid(new) \in Sids
  BY <1>1, <1>3, FreshKnown DEF Ids
<1>6. IssuedStays
  BY <1>1, <1>3, FreshKnown DEF IssuedStays
<1>7. new => issued'[Sid(new)] = [prov |-> ask[r].prov, acct |-> ask[r].acct]
  BY <1>1, <1>3, <1>5
<1> HIDE DEF Sid
<1>8. AskedHome(r)'
  <2>1. CASE new
    <3>1. issued'[Sid(new)] = [prov |-> ask[r].prov, acct |-> ask[r].acct]
      BY <1>7, <2>1, Zenon
    <3>2. issued'[Sid(new)].prov = ask[r].prov
      BY <3>1
    <3> QED
      BY <1>4, <1>5, <3>2 DEF AskedHome
  <2>2. CASE ~new
    <3>1. Sid(new) = sess[r].sid /\ ask[r].prov = sess[r].prov /\ issued' = issued
      BY <1>1, <1>2, <1>3, <2>2 DEF Sid
    <3>2. ask'[r].own => sess[r].own
      BY <1>2, <1>4
    <3>3. ask'[r].sid = sess[r].sid /\ ask'[r].prov = sess[r].prov
      BY <1>4, <3>1
    <3> QED
      BY <3>1, <3>2, <3>3 DEF OwnSession, Home, AskedHome
  <2> QED
    BY <2>1, <2>2
<1>9. Home(r)'
  <2>1. CASE sess' = Adopted(r, Sid(new), TRUE) /\ (new \/ Finds(Sid(new), ask[r].prov, ask[r].acct))
    <3>1. sess'[r] = [prov |-> Runtime(r).prov, sid |-> Sid(new), own |-> TRUE]
      BY <2>1, AdoptedLocal
    <3>2. issued'[Sid(new)] = [prov |-> ask[r].prov, acct |-> ask[r].acct]
      <4>1. CASE new
        BY <1>7, <4>1
      <4>2. CASE ~new
        BY <1>1, <1>5, <2>1, <4>2 DEF Finds
      <4> QED
        BY <4>1, <4>2
    <3> QED
      BY <1>2, <1>5, <3>1, <3>2 DEF Home
  <2>2. CASE UNCHANGED sess
    <3>1. sess[r].prov \in Provider
      BY DEF TypeInv, TypeOK
    <3> QED
      BY <1>3, <1>6, <2>2, <3>1 DEF OwnSession, Home, IssuedStays
  <2> QED
    BY <1>1, <2>1, <2>2
<1>10. Resuming(r)'
  BY <1>1, <1>3 DEF Resuming, Go
<1> QED
  BY <1>6, <1>8, <1>9, <1>10 DEF OwnSession

\* The session an attempt asks for.
LEMMA AttemptOwn ==
    ASSUME TypeInv, NEW r \in Roles, OwnSession(r), Attempt(r)
    PROVE  OwnSession(r)' /\ IssuedStays
<1>1. /\ pc[r] = "attempt" /\ PolicyOK /\ InChain(r) /\ pc \in [Roles -> PCs]
      /\ policy' = policy /\ sess[r].prov \in Provider
      /\ "unissued" \notin Provider \cup {"nobody"}
  BY DEF Attempt, TypeInv, TypeOK, Accepted, Placed, Provider
<1>2. CASE Go(r, "raised") /\ UNCHANGED <<sess, try, tried, ask, issued, told>>
  <2>1. Home(r)' /\ AskedHome(r)' /\ IssuedStays
    BY <1>2 DEF OwnSession, Home, AskedHome, IssuedStays
  <2>2. Resuming(r)'
    BY <1>1, <1>2 DEF Resuming, Go
  <2> QED
    BY <2>1, <2>2 DEF OwnSession
<1>3. CASE ask' = [ask EXCEPT ![r] = [sid |-> Asked1(r), own |-> sess[r].own,
                                      prov |-> Runtime(r).prov, acct |-> Account(r)]]
  <2>1. /\ Asked1(r) # NoSid => Asked1(r) = sess[r].sid /\ Runtime(r).prov = sess[r].prov
    BY <1>1, RuntimeKnown DEF TypeInv, Asked1, Resumed
  <2>2. ask'[r] = [sid |-> Asked1(r), own |-> sess[r].own, prov |-> Runtime(r).prov,
                   acct |-> Account(r)]
    BY <1>3 DEF TypeInv, TypeOK
  <2>3. IssuedStays => AskedHome(r)'
    BY <1>1, <2>1, <2>2 DEF OwnSession, Home, AskedHome, IssuedStays
  <2>4. CASE Finds(Asked1(r), Runtime(r).prov, Account(r)) /\ Completed(r, Asked1(r), Account(r))
    <3>1. CASE Account(r) \in Handles
      <4>1. Home(r)' /\ IssuedStays
        BY <1>1, <2>4, <3>1, CompletedOwn DEF OwnSession
      <4>2. Resuming(r)'
        BY <1>1, <2>4, CompletedEffect DEF Resuming, Go
      <4> QED
        BY <2>3, <4>1, <4>2 DEF OwnSession
    <3>2. CASE Account(r) = Refused
      <4>1. Go(r, "raised") /\ UNCHANGED <<sess, try, tried, ask, issued, told>>
        BY <3>2 DEF Attempt
      <4> QED
        BY <1>2, <4>1
    <3> QED
      BY <3>1, <3>2, AccountKnown DEF TypeInv, TypeOK
  <2>5. CASE UNCHANGED <<sess, issued>> /\ (AfterCapacity(r) \/ Go(r, "raised"))
    <3>1. Home(r)' /\ IssuedStays
      BY <2>5 DEF OwnSession, Home, IssuedStays
    <3>2. Resuming(r)'
      BY <1>1, <2>5, CapacityEffect DEF Resuming, Go
    <3> QED
      BY <2>3, <3>1, <3>2 DEF OwnSession
  <2>6. CASE UNCHANGED <<sess, issued, try>> /\ Go(r, "recover")
    <3>1. Home(r)' /\ IssuedStays
      BY <2>6 DEF OwnSession, Home, IssuedStays
    <3>2. Runtime(r)' = Runtime(r)
      BY <1>1, <2>6 DEF Runtime, Chain
    <3>3. Resuming(r)'
      BY <2>2, <2>6, <3>2 DEF Resuming
    <3> QED
      BY <2>3, <3>1, <3>3 DEF OwnSession
  <2> QED
    BY <1>2, <2>4, <2>5, <2>6, AttemptCases
<1> QED
  BY <1>2, <1>3, AttemptCases

LEMMA OwnStep ==
    ASSUME TypeInv, NEW r \in Roles, OwnSession(r), TurnSteps(r) \/ Restart(r) \/ Crash(r)
    PROVE  OwnSession(r)' /\ IssuedStays
<1>0. pc \in [Roles -> PCs]
  BY DEF TypeInv, TypeOK
<1>1. ASSUME \/ OpenSession(r) \/ StartTurn(r) \/ MarkRead(r) \/ ProbeSeed(r) \/ Stamp(r)
             \/ ReadSessions(r) \/ WriteSessions(r) \/ Restart(r) \/ Crash(r)
      PROVE  OwnSession(r)' /\ IssuedStays
  <2>1. issued' = issued /\ pc'[r] # "recover"
    BY <1>0, <1>1 DEF OpenSession, StartTurn, MarkRead, ProbeSeed, Stamp, ReadSessions,
       WriteSessions, Restart, Crash, PersistSame, Go
  <2>2. ask'[r] = ask[r] \/ ask'[r].sid = NoSid
    BY <1>1 DEF OpenSession, StartTurn, MarkRead, ProbeSeed, Stamp, ReadSessions, WriteSessions,
       Restart, Crash, PersistSame, TurnOver, NoAsk, TypeInv, TypeOK
  <2>3. sess'[r] = sess[r] \/ ~sess'[r].own
    BY <1>1 DEF OpenSession, StartTurn, MarkRead, ProbeSeed, Stamp, ReadSessions, WriteSessions,
       Restart, Crash, PersistSame, NoSession, TypeInv, TypeOK
  <2> QED
    BY <2>1, <2>2, <2>3 DEF OwnSession, Home, AskedHome, Resuming, IssuedStays
<1> QED
  BY <1>1, AttemptOwn, RecoverOwn DEF TurnSteps

\* Within one process no provider is handed an id that another issued, whatever the
\* chain, the accounts and the outcomes (agent_session.py:2544-2635).
THEOREM OwnProvider == Spec => []SameProviderInProcess
<1> DEFINE Inv == TypeInv /\ \A q \in Roles : OwnSession(q)
<1>1. Init => Inv
  <2>1. Init => \A q \in Roles : OwnSession(q)
    BY DEF Init, OwnSession, Home, AskedHome, Resuming, NoSession, NoAsk
  <2> QED
    BY <2>1, TypeInit
<1>2. Inv /\ [Next]_vars => Inv'
  <2> SUFFICES ASSUME Inv, [Next]_vars PROVE \A q \in Roles : OwnSession(q)'
    BY TypeStep
  <2>1. ASSUME NEW r \in Roles, TurnSteps(r) \/ Restart(r) \/ Crash(r)
        PROVE  \A q \in Roles : OwnSession(q)'
    BY <2>1, Local, OwnStep, OwnKept
  <2>2. ASSUME UNCHANGED vars \/ ChangeRegistry \/ \E r \in Roles, m \in Mails : MailArrives(r, m)
        PROVE  \A q \in Roles : OwnSession(q)'
    <3>1. IssuedStays
      BY <2>2, Elsewhere DEF IssuedStays
    <3> QED
      BY <2>2, <3>1, Elsewhere, OwnKept
  <2> QED
    BY <2>1, <2>2 DEF Next
<1>3. Inv => SameProviderInProcess
  BY DEF SameProviderInProcess, OwnSession, AskedHome
<1> QED
  BY <1>1, <1>2, <1>3, PTL DEF Spec

-----------------------------------------------------------------------------
(* The store returns what was written, when no two roles share a spelling. *)

\* "plan-critic" and "plan_critic" have one metadata key: not of one seed.
KeysApart == \A r, q \in Roles : BdKey[q] \in {r, BdKey[r]} => q = r

\* What get() finds when `bd show` answers.
Found(q) == IF Beaded(q) THEN bead[BdKey[q]] ELSE FirstOf(json[q], legacy[q])

LEMMA GetFound ==
    ASSUME StoreTypeOK, KeysApart, NEW q \in Roles
    PROVE  Get(q, TRUE) = Found(q)
<1>1. BdKey[q] \in BdKeys /\ (q \in BdKeys => BdKey[q] = q)
  BY DEF BdKeys, KeysApart
<1> QED
  BY <1>1 DEF Get, Found, Beaded, FirstOf, ReadBead

\* What set() returned for is found.
Stored(q) == wrote[q] # NoSid /\ q \notin excused => Found(q) = wrote[q]

LEMMA StoredKept ==
    ASSUME NEW q \in Roles, Stored(q), UNCHANGED <<seed, bead, json, legacy, excused, wrote>>
    PROVE  Stored(q)'
BY DEF Stored, Found, Beaded, FirstOf

LEMMA StampStored ==
    ASSUME TypeInv, KeysApart, NEW r \in Roles, Written(r), \A q \in Roles : Stored(q),
           StampBead(r, sess[r].sid) \/ StampTimesOut(r, sess[r].sid)
    PROVE  \A q \in Roles : Stored(q)'
<1> SUFFICES ASSUME NEW q \in Roles PROVE Stored(q)'
  OBVIOUS
<1>1. /\ bead \in [BdKeys -> Ids] /\ BdKey[q] \in BdKeys /\ BdKey[r] \in BdKeys
      /\ wrote' = [wrote EXCEPT ![r] = sess[r].sid] /\ wrote \in [Roles -> Ids]
      /\ seed = "dolt" /\ UNCHANGED <<seed, json, legacy>>
  BY DEF TypeInv, TypeOK, StoreTypeOK, BdKeys, Written, StampBead, StampTimesOut
<1>2. CASE q = r
  <2>1. CASE StampBead(r, sess[r].sid)
    BY <1>1, <1>2, <2>1 DEF StampBead, Stored, Found, Beaded
  <2>2. CASE StampTimesOut(r, sess[r].sid)
    BY <1>2, <2>2 DEF StampTimesOut, Stored
  <2> QED
    BY <2>1, <2>2
<1>3. CASE q # r
  <2>1. BdKey[q] # BdKey[r]
    BY <1>3 DEF KeysApart
  <2>2. bead'[BdKey[q]] = bead[BdKey[q]] /\ wrote'[q] = wrote[q] /\ (q \in excused' <=> q \in excused)
    BY <1>1, <1>3, <2>1 DEF StampBead, StampTimesOut
  <2> QED
    BY <1>1, <2>2 DEF Stored, Found, Beaded, FirstOf
<1> QED
  BY <1>2, <1>3

LEMMA DumpStored ==
    ASSUME TypeInv, NEW r \in Roles, Written(r), \A q \in Roles : Stored(q),
           DumpJson(r, sess[r].sid)
    PROVE  \A q \in Roles : Stored(q)'
<1> SUFFICES ASSUME NEW q \in Roles PROVE Stored(q)'
  OBVIOUS
<1>1. /\ wrote' = [wrote EXCEPT ![r] = sess[r].sid] /\ wrote \in [Roles -> Ids]
      /\ json' = [loaded[r] EXCEPT ![r] = sess[r].sid] /\ loaded[r] \in [Roles -> Ids]
      /\ UNCHANGED <<seed, bead, legacy>>
      /\ excused' = (excused \ {r})
                    \cup {p \in Roles \ {r} : json[p] # loaded[r][p] /\ ~Beaded(p)}
                    \cup {p \in {r} : Beaded(r)}
  BY DEF TypeInv, TypeOK, StoreTypeOK, Written, DumpJson
<1>2. Beaded(q)' <=> Beaded(q)
  BY <1>1 DEF Beaded
<1>3. CASE q = r
  BY <1>1, <1>2, <1>3 DEF Stored, Found, FirstOf
<1>4. CASE q # r
  <2>1. wrote'[q] = wrote[q] /\ json'[q] = loaded[r][q]
    BY <1>1, <1>4
  <2>2. q \notin excused' => q \notin excused /\ (json[q] = loaded[r][q] \/ Beaded(q))
    BY <1>1, <1>4
  <2> QED
    BY <1>1, <1>2, <2>1, <2>2 DEF Stored, Found, FirstOf
<1> QED
  BY <1>3, <1>4

LEMMA StoredStep ==
    ASSUME TypeInv, KeysApart, \A q \in Roles : Stored(q), [Next]_vars
    PROVE  \A q \in Roles : Stored(q)'
<1>1. CASE UNCHANGED <<seed, bead, json, legacy, excused, wrote>>
  BY <1>1, StoredKept
<1>2. ASSUME UNCHANGED vars \/ ChangeRegistry \/ \E r \in Roles, m \in Mails : MailArrives(r, m)
      PROVE  UNCHANGED <<seed, bead, json, legacy, excused, wrote>>
  BY <1>2 DEF vars, storeVars, ChangeRegistry, MailArrives
<1>3. ASSUME NEW r \in Roles,
             \/ OpenSession(r) \/ StartTurn(r) \/ Attempt(r) \/ Recover(r) \/ MarkRead(r)
             \/ ProbeSeed(r) \/ ReadSessions(r) \/ Restart(r) \/ Crash(r)
      PROVE  UNCHANGED <<seed, bead, json, legacy, excused, wrote>>
  BY <1>3 DEF OpenSession, StartTurn, Attempt, Recover, MarkRead, ProbeSeed, StoreSame,
     ReadSessions, LoadJson, Restart, Crash, storeVars
<1>4. ASSUME NEW r \in Roles, Stamp(r) PROVE \A q \in Roles : Stored(q)'
  BY <1>1, <1>4, StampStored DEF Stamp, StampRaises, storeVars
<1>5. ASSUME NEW r \in Roles, WriteSessions(r) PROVE \A q \in Roles : Stored(q)'
  BY <1>1, <1>5, DumpStored DEF WriteSessions, storeVars
<1> QED
  BY <1>1, <1>2, <1>3, <1>4, <1>5 DEF Next, TurnSteps

\* What set() returned for is what get() finds, in whatever tier it landed, for any
\* roles whose metadata keys differ (role_sessions.py:158-240).
THEOREM StoreReturns == ASSUME KeysApart PROVE Spec => []ReadsOwnWrites
<1> DEFINE Inv == TypeInv /\ \A q \in Roles : Stored(q)
<1>1. Init => Inv
  <2>1. Init => \A q \in Roles : Stored(q)
    BY DEF Init, Stored
  <2> QED
    BY <2>1, TypeInit
<1>2. Inv /\ [Next]_vars => Inv'
  BY TypeStep, StoredStep
<1>3. Inv => ReadsOwnWrites
  BY GetFound DEF ReadsOwnWrites, Stored, TypeInv, TypeOK
<1> QED
  BY <1>1, <1>2, <1>3, PTL DEF Spec

-----------------------------------------------------------------------------
(* A handle stays the account it was. Two writers of the registry file at  *)
(* once lose an addition, so that a handle may be given out again: either  *)
(* one admin writes, or a handle is only ever used with one provider.      *)

OneAdmin == \A m, n \in Admins : m = n
OneOwner(P) == \A a, b \in P : a.handle = b.handle => a.provider = b.provider
HandlesKept == OneAdmin \/ OneOwner(Addable)

\* The accounts a session's home may be looked for among.
Pool == IF OneOwner(Addable) THEN Addable ELSE registry.accounts

Named(prov, acct) == acct = NoAcct \/ \E a \in Pool : a.handle = acct /\ a.provider = prov

\* A registry that is being rewritten keeps the accounts there are.
Keeps(m) == draft[m].state = "file" => /\ registry.accounts \subseteq draft[m].accounts
                                       /\ OneOwner(draft[m].accounts)

Registered ==
    /\ OneOwner(Pool)
    /\ registry.state = "absent" => registry.accounts = {}
    /\ ~OneOwner(Addable) => \A m \in Admins : Keeps(m)

\* A recovery runs under the account of the attempt it recovers.
Charged(q) == pc[q] = "recover" => Named(ask[q].prov, ask[q].acct)

Homed == \A s \in Sids : issued[s].prov \in Provider => Named(issued[s].prov, issued[s].acct)

HomeInv == Registered /\ Homed /\ \A q \in Roles : Charged(q)

\* The account a turn runs under is registered with the turn's provider.
LEMMA AccountNamed ==
    ASSUME AccountsTypeOK, NEW r \in Roles, Account(r) # Refused
    PROVE  Named(Runtime(r).prov, Account(r))
<1> DEFINE prov == Runtime(r).prov
           want == [account |-> Runtime(r).acct, class |-> Unset]
           sel  == Selection(want, ProcessEnv)
           class == IF sel.class # Unset THEN {sel.class}
                    ELSE {x.class : x \in MatchingRule(registry)}
           fits == {a \in registry.accounts : a.provider = prov /\ \A c \in class : a.class = c}
<1>1. registry.accounts \subseteq Pool
  BY DEF AccountsTypeOK, Registries, Pool
<1>2. CASE registry.state = "absent"
  BY <1>2 DEF Account, AccountOfTurn, Named
<1>3. CASE registry.state # "absent"
  <2>1. Account(r) = ResolveAccount(registry, prov, want)
    BY <1>3 DEF Account, AccountOfTurn
  <2>2. CASE sel.account # Unset
    BY <1>1, <2>1, <2>2 DEF ResolveAccount, Named
  <2>3. CASE sel.account = Unset
    <3>1. Cardinality(fits) = 1 /\ Account(r) = (CHOOSE a \in fits : TRUE).handle
      BY <2>1, <2>3 DEF ResolveAccount
    <3>2. \A a \in fits : a \in Pool /\ a.provider = prov
      BY <1>1
    <3> HIDE DEF fits
    <3>3. fits # {}
      BY <3>1, FS_EmptySet
    <3>4. (CHOOSE a \in fits : TRUE) \in fits
      BY <3>3
    <3> QED
      BY <3>1, <3>2, <3>4 DEF Named
  <2> QED
    BY <2>2, <2>3
<1> QED
  BY <1>2, <1>3

\* The registry grows, and what is added has a handle of its own.
LEMMA RegistryHomes ==
    ASSUME AccountsTypeOK, HandlesKept, Registered, AccountsNext
    PROVE  Registered' /\ Pool \subseteq Pool'
<1> USE DEF Registered, Keeps
<1>1. CASE OneOwner(Addable)
  <2>1. Pool = Addable /\ Pool' = Addable
    BY <1>1 DEF Pool
  <2>2. (registry.state = "absent" => registry.accounts = {})'
    BY DEF AccountsNext, AddAccount, AddRule, SaveRegistry, TearRegistry, AccountsTypeOK, Registries
  <2> QED
    BY <1>1, <2>1, <2>2
<1>2. CASE ~OneOwner(Addable)
  <2>1. OneAdmin /\ Pool = registry.accounts /\ Pool' = registry'.accounts
    BY <1>2 DEF HandlesKept, Pool
  <2> SUFFICES ASSUME NEW m \in Admins,
                      \/ \E a \in Addable : AddAccount(m, a)
                      \/ \E r \in RuleAddable : AddRule(m, r)
                      \/ SaveRegistry(m) \/ TearRegistry(m)
               PROVE  Registered' /\ Pool \subseteq Pool'
    BY DEF AccountsNext
  <2>2. ASSUME NEW a \in Addable, AddAccount(m, a) PROVE Registered' /\ Pool \subseteq Pool'
    <3> DEFINE new == [Base EXCEPT !.accounts = @ \cup {a}]
    <3>1. /\ registry' = registry /\ draft' = [draft EXCEPT ![m] = new]
          /\ a.handle \notin {b.handle : b \in registry.accounts}
      BY <2>2 DEF AddAccount
    <3>2. Base \in Registries /\ Base.accounts = registry.accounts
      <4>1. CASE registry.state = "absent"
        <5>1. Base = [state |-> "file", accounts |-> {}, rules |-> <<>>]
          BY <4>1 DEF Base, Absent
        <5> QED
          BY <4>1, <5>1 DEF Registries
      <4>2. CASE registry.state # "absent"
        BY <4>2 DEF Base, AccountsTypeOK
      <4> QED
        BY <4>1, <4>2
    <3>3. new.accounts = registry.accounts \cup {a}
      BY <3>2 DEF Registries
    <3> HIDE DEF new
    <3>4. OneOwner(new.accounts)
      BY <2>1, <3>1, <3>3 DEF OneOwner
    <3>5. draft'[m] = new
      BY <3>1 DEF AccountsTypeOK
    <3>6. \A n \in Admins : Keeps(n)'
      BY <2>1, <3>1, <3>3, <3>4, <3>5 DEF OneAdmin
    <3> QED
      BY <2>1, <3>1, <3>6
  <2>3. ASSUME NEW x \in RuleAddable, AddRule(m, x) PROVE Registered' /\ Pool \subseteq Pool'
    <3> DEFINE new == [registry EXCEPT !.rules = Append(@, x)]
    <3>1. registry' = registry /\ draft' = [draft EXCEPT ![m] = new]
      BY <2>3 DEF AddRule
    <3>2. new.accounts = registry.accounts
      BY DEF AccountsTypeOK, Registries
    <3> HIDE DEF new
    <3>3. draft'[m] = new
      BY <3>1 DEF AccountsTypeOK
    <3>4. \A n \in Admins : Keeps(n)'
      BY <2>1, <3>1, <3>2, <3>3 DEF OneAdmin
    <3> QED
      BY <2>1, <3>1, <3>4
  <2>4. CASE SaveRegistry(m) \/ TearRegistry(m)
    <3>1. /\ draft[m].state = "file" /\ draft' = [draft EXCEPT ![m] = NoDraft]
          /\ registry' = draft[m] \/ registry' = [draft[m] EXCEPT !.state = "torn"]
      BY <2>4 DEF SaveRegistry, TearRegistry
    <3>2. draft[m] \in Registries
      BY DEF AccountsTypeOK
    <3>3. registry'.accounts = draft[m].accounts /\ registry'.state # "absent"
      BY <3>1, <3>2 DEF Registries
    <3>4. draft'[m].state # "file"
      BY <3>1 DEF AccountsTypeOK, NoDraft
    <3>5. \A n \in Admins : Keeps(n)'
      BY <2>1, <3>4 DEF OneAdmin
    <3> QED
      BY <1>2, <2>1, <3>1, <3>3, <3>5
  <2> QED
    BY <2>2, <2>3, <2>4
<1> QED
  BY <1>1, <1>2

\* Whom a step of a role's process makes an id's issuer.
LEMMA IssuerKnown ==
    ASSUME TypeInv, NEW r \in Roles, TurnSteps(r) \/ Restart(r) \/ Crash(r)
    PROVE  \A s \in Sids :
              \/ issued'[s] = issued[s] \/ issued'[s] = Nobody
              \/ /\ Attempt(r) /\ Account(r) # Refused
                 /\ issued'[s] = [prov |-> Runtime(r).prov, acct |-> Account(r)]
              \/ Recover(r) /\ issued'[s] = [prov |-> ask[r].prov, acct |-> ask[r].acct]
<1> SUFFICES ASSUME NEW s \in Sids
             PROVE  \/ issued'[s] = issued[s] \/ issued'[s] = Nobody
                    \/ /\ Attempt(r) /\ Account(r) # Refused
                       /\ issued'[s] = [prov |-> Runtime(r).prov, acct |-> Account(r)]
                    \/ Recover(r) /\ issued'[s] = [prov |-> ask[r].prov, acct |-> ask[r].acct]
  OBVIOUS
<1>1. issued \in [Sids -> Who \cup {[prov |-> "unissued", acct |-> NoAcct]}]
  BY DEF TypeInv, TypeOK
<1>2. CASE Attempt(r)
  <2>1. CASE Account(r) = Refused
    BY <1>2, <2>1 DEF Attempt
  <2>2. CASE Completed(r, Asked1(r), Account(r)) /\ Account(r) # Refused
    <3>1. \E new, is : issued' = issued \/
             issued' = [issued EXCEPT ![new] = IF is THEN [prov |-> Runtime(r).prov, acct |-> Account(r)]
                                               ELSE Nobody]
      BY <2>2 DEF Completed
    <3> QED
      BY <1>1, <1>2, <2>2, <3>1
  <2> QED
    BY <1>2, <2>1, <2>2, AttemptCases
<1>3. CASE Recover(r)
  <2>1. \E sid : issued' = issued \/
           issued' = [issued EXCEPT ![sid] = [prov |-> ask[r].prov, acct |-> ask[r].acct]]
    BY <1>3 DEF Recover
  <2> QED
    BY <1>1, <1>3, <2>1
<1>4. CASE ~Attempt(r) /\ ~Recover(r)
  BY <1>4 DEF TurnSteps, OpenSession, StartTurn, MarkRead, ProbeSeed, Stamp, ReadSessions,
     WriteSessions, Restart, Crash, PersistSame
<1> QED
  BY <1>2, <1>3, <1>4

\* Where a role's process goes to a recovery, it is charged to its attempt.
LEMMA ChargedStep ==
    ASSUME TypeInv, NEW r \in Roles, TurnSteps(r) \/ Restart(r) \/ Crash(r), pc'[r] = "recover"
    PROVE  /\ Attempt(r) /\ Account(r) # Refused
           /\ ask'[r].prov = Runtime(r).prov /\ ask'[r].acct = Account(r)
<1>1. pc \in [Roles -> PCs] /\ DOMAIN ask = Roles
  BY DEF TypeInv, TypeOK
<1>2. Attempt(r)
  BY <1>1, Leaves DEF TurnSteps, StartTurn, Go
<1>3. Account(r) # Refused
  BY <1>1, <1>2 DEF Attempt, Go
<1>4. ~Go(r, "raised")
  BY <1>1 DEF Go
<1> QED
  BY <1>1, <1>2, <1>3, <1>4, AttemptCases

LEMMA HomeStep ==
    ASSUME TypeInv, HandlesKept, HomeInv, [Next]_vars
    PROVE  HomeInv'
<1>0. AccountsTypeOK /\ pc \in [Roles -> PCs]
  BY DEF TypeInv, TypeOK
<1>1. ASSUME NEW r \in Roles, TurnSteps(r) \/ Restart(r) \/ Crash(r) PROVE HomeInv'
  <2>1. UNCHANGED <<registry, draft>>
    BY <1>1 DEF TurnSteps, OpenSession, StartTurn, Attempt, Recover, MarkRead, ProbeSeed, Stamp,
       ReadSessions, WriteSessions, Restart, Crash, PersistSame, accountVars
  <2>2. Registered' /\ Pool' = Pool
    BY <2>1 DEF HomeInv, Registered, Keeps, Pool
  <2>3. \A q \in Roles : Charged(q)'
    <3>1. ASSUME NEW q \in Roles, q # r PROVE Charged(q)'
      BY <1>1, <2>2, <3>1, Local DEF HomeInv, Charged, Named, SameTurn
    <3>2. Charged(r)'
      BY <1>0, <1>1, <2>2, ChargedStep, AccountNamed DEF Charged, Named
    <3> QED
      BY <3>1, <3>2
  <2>4. Homed'
    <3> SUFFICES ASSUME NEW s \in Sids, issued'[s].prov \in Provider
                 PROVE  Named(issued'[s].prov, issued'[s].acct)
      BY <2>2 DEF Homed, Named
    <3>1. Recover(r) => pc[r] = "recover"
      BY DEF Recover
    <3>2. issued'[s] # Nobody
      BY DEF Nobody, Provider
    <3>3. CASE issued'[s] = issued[s]
      BY <3>3 DEF HomeInv, Homed
    <3>4. CASE /\ Attempt(r) /\ Account(r) # Refused
               /\ issued'[s] = [prov |-> Runtime(r).prov, acct |-> Account(r)]
      <4>1. issued'[s].prov = Runtime(r).prov /\ issued'[s].acct = Account(r)
        BY <3>4
      <4>2. Named(Runtime(r).prov, Account(r))
        BY <1>0, <3>4, AccountNamed
      <4> QED
        BY <4>1, <4>2
    <3>5. CASE Recover(r) /\ issued'[s] = [prov |-> ask[r].prov, acct |-> ask[r].acct]
      <4>1. issued'[s].prov = ask[r].prov /\ issued'[s].acct = ask[r].acct
        BY <3>5
      <4>2. Named(ask[r].prov, ask[r].acct)
        BY <3>1, <3>5 DEF HomeInv, Charged
      <4> QED
        BY <4>1, <4>2
    <3> QED
      BY <1>1, <3>2, <3>3, <3>4, <3>5, IssuerKnown
  <2> QED
    BY <2>2, <2>3, <2>4 DEF HomeInv
<1>2. ASSUME UNCHANGED vars \/ ChangeRegistry \/ \E r \in Roles, m \in Mails : MailArrives(r, m)
      PROVE  HomeInv'
  <2>1. Registered' /\ Pool \subseteq Pool'
    <3>1. CASE ChangeRegistry
      BY <1>0, <3>1, RegistryHomes DEF ChangeRegistry, HomeInv
    <3>2. CASE UNCHANGED <<registry, draft>>
      BY <3>2 DEF HomeInv, Registered, Keeps, Pool
    <3> QED
      BY <1>2, <3>1, <3>2 DEF vars, MailArrives, accountVars
  <2>2. Homed' /\ \A q \in Roles : Charged(q)'
    BY <1>2, <2>1, Elsewhere DEF HomeInv, Homed, Charged, Named, SameTurn
  <2> QED
    BY <2>1, <2>2 DEF HomeInv
<1> QED
  BY <1>1, <1>2 DEF Next

\* A session of a registered account is reopened under it, whatever was added to the
\* registry since, for any accounts and rules, if one admin writes the registry or no
\* handle is used with two providers (account.py:388-394, 450-461).
THEOREM RestoredThere == ASSUME HandlesKept PROVE Spec => []RestoredAtHome
<1> DEFINE Inv == TypeInv /\ HomeInv
<1>1. Init => Inv
  <2> SUFFICES ASSUME Init PROVE HomeInv
    BY TypeInit
  <2>1. Registered
    BY DEF Init, AccountsInit, Absent, NoDraft, Registered, Keeps, Pool, OneOwner
  <2>2. Homed /\ \A q \in Roles : Charged(q)
    BY DEF Init, Homed, Charged, Named
  <2> QED
    BY <2>1, <2>2 DEF HomeInv
<1>2. Inv /\ [Next]_vars => Inv'
  BY TypeStep, HomeStep
<1>3. Inv => RestoredAtHome
  <2> SUFFICES ASSUME Inv, NEW s \in Sids, Loads(registry), issued[s].prov \in Homing,
                      NEW a \in registry.accounts, a.handle = issued[s].acct
               PROVE  LaunchedUnder(issued[s].prov, issued[s].acct,
                                    [account |-> Unset, class |-> Unset]) = issued[s].acct
    BY DEF RestoredAtHome
  <2>1. registry.accounts \subseteq Pool /\ registry.accounts \subseteq Addable
    BY DEF TypeInv, TypeOK, AccountsTypeOK, Registries, Pool
  <2>2. a.handle # NoAcct
    BY <2>1, AccountsAssumption
  <2>3. PICK b \in Pool : b.handle = issued[s].acct /\ b.provider = issued[s].prov
    BY <2>2 DEF HomeInv, Homed, Named, Homing, Provider
  <2>4. a.provider = issued[s].prov
    BY <2>1, <2>3 DEF HomeInv, Registered, OneOwner
  <2>5. a.homed
    BY <2>4 DEF Loads
  <2> DEFINE owner == SessionAccount(registry, issued[s].prov, issued[s].acct)
  <2>6. a \in owner /\ \A x \in owner : x.handle = issued[s].acct
    BY <2>4, <2>5 DEF SessionAccount
  <2> HIDE DEF owner
  <2>7. (CHOOSE x \in owner : TRUE).handle = issued[s].acct
    BY <2>6
  <2> QED
    BY <2>6, <2>7 DEF LaunchedUnder, owner
<1> QED
  BY <1>1, <1>2, <1>3, PTL DEF Spec

================================================================================
