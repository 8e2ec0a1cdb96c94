---------------------- MODULE LoweringSoundnessProofs ----------------------
(***************************************************************************)
(* The kernel filter against the Sigma engine for one rule alone, for      *)
(* every rule of Rules and every event of Events.                          *)
(***************************************************************************)
EXTENDS LoweringSoundness, SigmaLoweringProofs

\* What the block wants of an event: one of the rules made of r matches it.
Wanted(r, rec) ==
    \E n \in DOMAIN OutcomeOf(r).terms :
        RuleMatches(lower_term(rec.type, OutcomeOf(r).terms[n].term),
                    rec.type, rec.comm, rec.path)

\* A rule that gives no kernel rules: its type fails open.
FailsOpen(r) ==
    \/ OutcomeOf(r).blocked
    \/ \E n \in DOMAIN OutcomeOf(r).terms : ~OutcomeOf(r).terms[n].fits

\* The last rule of the block, which belongs to another type, wants no event of this one.
LEMMA NeighbourWantsNothing ==
    ASSUME NEW type \in {ET_FILE, ET_LSM}, NEW comm, NEW path
    PROVE  ~RuleMatches(Neighbour(type), type, comm, path)
<1>1. ET_EXECVE # type /\ ET_EXECVE # ET_ANY
    BY DEF ET_EXECVE, ET_FILE, ET_LSM, ET_ANY
<1>2. Neighbour(type).event_type = ET_EXECVE
    BY <1>1 DEF Neighbour, lower_term, KernelRule
<1>q. QED BY <1>1, <1>2 DEF RuleMatches

\* The block that Engine::new makes of one rule.
LEMMA BlockMade ==
    ASSUME NEW r \in SigmaRule, classify_event_type(r) \in {ET_FILE, ET_LSM}
    PROVE  LET type == classify_event_type(r)
               n    == Len(OutcomeOf(r).terms)
           IN  /\ FailsOpen(r) <=> type \in BlockOf(r).mask
               /\ ~FailsOpen(r) =>
                     /\ n \in Nat /\ DOMAIN OutcomeOf(r).terms = 1..n
                     /\ BlockOf(r).count = n + 1 /\ Len(BlockOf(r).rules) = n + 1
                     /\ \A i \in 1..n : BlockOf(r).rules[i] =
                                            lower_term(type, OutcomeOf(r).terms[i].term)
                     /\ BlockOf(r).rules[n + 1] = Neighbour(type)
<1> DEFINE type  == classify_event_type(r)
           terms == OutcomeOf(r).terms
           n     == Len(terms)
           made  == [i \in DOMAIN terms |-> lower_term(type, terms[i].term)]
           next  == Neighbour(type)
<1>1. type \notin AlwaysPermissive \cup {0}
    BY DEF AlwaysPermissive, ET_FILE, ET_LSM, ET_MODULE, ET_NETWORK
<1>2. OutcomeOf(r).type = type
    BY DEF OutcomeOf
<1>3. BlockOf(r) = [mask  |-> AlwaysPermissive \cup (IF FailsOpen(r) THEN {type} ELSE {}),
                    count |-> Len(IF FailsOpen(r) THEN <<>> ELSE made) + 1,
                    rules |-> (IF FailsOpen(r) THEN <<>> ELSE made) \o <<next>>]
    <2> HIDE DEF type
    <2>q. QED BY <1>1, <1>2 DEF BlockOf, FailsOpen
<1>4. FailsOpen(r) <=> type \in BlockOf(r).mask
    BY <1>1, <1>3
<1>5. ASSUME ~FailsOpen(r)
      PROVE  /\ n \in Nat /\ DOMAIN terms = 1..n
             /\ BlockOf(r).count = n + 1 /\ Len(BlockOf(r).rules) = n + 1
             /\ \A i \in 1..n : BlockOf(r).rules[i] = lower_term(type, terms[i].term)
             /\ BlockOf(r).rules[n + 1] = next
    <2>1. n \in Nat /\ DOMAIN terms = 1..n
        <3> DEFINE ts == SelectionTerms(r, PushField(type))
        <3>1. ~OutcomeOf(r).blocked
            BY <1>5 DEF FailsOpen
        <3>2. terms = [i \in DOMAIN ts |-> terms[i]] /\ ts \in Seq(SUBSET PTerm)
            BY <3>1, OutcomeTerms DEF OutcomeOf, extract_pushdown
        <3> HIDE DEF ts
        <3>3. Len(ts) \in Nat /\ DOMAIN ts = 1..Len(ts)
            BY <3>2
        <3>4. DOMAIN terms = 1..Len(ts)
            BY <3>2, <3>3
        <3> HIDE DEF terms
        <3>5. Len(terms) = Len(ts)
            BY <3>2, <3>3, <3>4
        <3>q. QED BY <3>3, <3>4, <3>5
    <2> HIDE DEF terms, type, next
    <2>2. made \in Seq({made[i] : i \in 1..n}) /\ Len(made) = n
        BY <2>1
    <2>3. BlockOf(r).count = Len(made) + 1 /\ BlockOf(r).rules = made \o <<next>>
        BY <1>3, <1>5
    <2>4. \A i \in 1..n : made[i] = lower_term(type, terms[i].term)
        BY <2>1
    <2> HIDE DEF made
    <2>5. /\ Len(made \o <<next>>) = n + 1
          /\ \A i \in 1..n : (made \o <<next>>)[i] = made[i]
          /\ (made \o <<next>>)[n + 1] = next
        BY <2>1, <2>2
    <2>q. QED BY <2>1, <2>2, <2>3, <2>4, <2>5
<1>q. QED BY <1>4, <1>5

\* What the block decides of an event of the rule's type.
LEMMA BlockDecides ==
    ASSUME NEW r \in SigmaRule, NEW rec \in Record,
           rec.type = classify_event_type(r), rec.type \in {ET_FILE, ET_LSM}
    PROVE  LET passes == passes_kernel_filter(BlockOf(r), rec.type, rec.comm, rec.path)
           IN  /\ FailsOpen(r) <=> rec.type \in BlockOf(r).mask
               /\ FailsOpen(r) \/ Wanted(r, rec) => passes
               /\ passes /\ ~FailsOpen(r) /\ Len(rec.path) < MAX_PATH_SCAN => Wanted(r, rec)
<1> DEFINE B == BlockOf(r)
           n == Len(OutcomeOf(r).terms)
           matches(i) == RuleMatches(B.rules[i], rec.type, rec.comm, rec.path)
<1>1. FailsOpen(r) <=> rec.type \in B.mask
    BY BlockMade
<1>2. CASE FailsOpen(r)
    BY <1>1, <1>2 DEF passes_kernel_filter
<1>3. CASE ~FailsOpen(r)
    <2>1. /\ n \in Nat /\ DOMAIN OutcomeOf(r).terms = 1..n
          /\ B.count = n + 1 /\ Len(B.rules) = n + 1
          /\ \A i \in 1..n : B.rules[i] = lower_term(rec.type, OutcomeOf(r).terms[i].term)
          /\ B.rules[n + 1] = Neighbour(rec.type)
        BY <1>3, BlockMade
    <2>2. ~matches(n + 1)
        BY <2>1, NeighbourWantsNothing
    <2>3. Wanted(r, rec) <=> \E i \in 1..n : matches(i)
        BY <2>1 DEF Wanted
    <2>4. Least(B.count, Len(B.rules)) = n + 1 /\ B.count # 0
        BY <2>1 DEF Least
    <2> HIDE DEF n, B, matches
    <2>5. (\E i \in 1..n + 1 : matches(i)) <=> \E i \in 1..n : matches(i)
        <3>1. 1..n + 1 = (1..n) \cup {n + 1}
            BY <2>1
        <3>q. QED BY <2>2, <3>1
    <2>6. passes_kernel_filter(B, rec.type, rec.comm, rec.path) <=>
             Len(rec.path) >= MAX_PATH_SCAN \/ \E i \in 1..n + 1 : matches(i)
        BY <1>1, <1>3, <2>4 DEF passes_kernel_filter, matches
    <2>7. Len(rec.path) < MAX_PATH_SCAN => ~(Len(rec.path) >= MAX_PATH_SCAN)
        <3>1. Len(rec.path) \in Nat
            BY DEF Record
        <3>q. QED BY <3>1, LoweringAssumption DEF LoweringAssumption
    <2>q. QED BY <1>1, <1>3, <2>3, <2>5, <2>6, <2>7 DEF B
<1>q. QED BY <1>2, <1>3

-----------------------------------------------------------------------------
(***************************************************************************)
(* The inductive invariant: the block is the one made of the rule, and an  *)
(* observed event carries the verdicts of both filters on it.              *)
(***************************************************************************)
LoweringInv ==
    /\ rule \in Rules
    /\ block \in {NoBlock, BlockOf(rule)}
    /\ \A s \in seen :
          /\ block = BlockOf(rule)
          /\ s.ev \in Events
          /\ s.fires <=> SigmaFires(rule, s.ev)
          /\ s.passes <=> passes_kernel_filter(block, s.ev.type, s.ev.comm, s.ev.path)

\* Before the rule is lowered.
LEMMA LoweringInitial == Init => LoweringInv
BY DEF Init, LoweringInv

\* The block is computed before any event, and never again.
LEMMA LoweringStep == LoweringInv /\ [Next]_vars => LoweringInv'
<1> SUFFICES ASSUME LoweringInv, [Next]_vars PROVE LoweringInv'
    OBVIOUS
<1>1. CASE Lower
    <2>1. seen = {}
        <3>1. seen # {} => block = BlockOf(rule)
            BY DEF LoweringInv
        <3>2. block = NoBlock /\ NoBlock # BlockOf(rule)
            <4>1. BlockOf(rule).mask # NoBlock.mask
                BY DEF BlockOf, NoBlock, AlwaysPermissive
            <4>q. QED BY <1>1, <4>1 DEF Lower
        <3>q. QED BY <3>1, <3>2
    <2>q. QED BY <1>1, <2>1 DEF Lower, LoweringInv
<1>2. ASSUME NEW ev \in Events, Observe(ev) PROVE LoweringInv'
    <2> DEFINE fires  == SigmaFires(rule, ev)
               passes == passes_kernel_filter(block, ev.type, ev.comm, ev.path)
    <2>1. block = BlockOf(rule) /\ rule' = rule /\ block' = block
        BY <1>2 DEF Observe, LoweringInv
    <2>2. seen' = {[ev |-> ev, fires |-> fires, passes |-> passes]}
        BY <1>2 DEF Observe
    <2> HIDE DEF fires, passes
    <2>3. ASSUME NEW s \in seen'
          PROVE  s.ev = ev /\ (s.fires <=> fires) /\ (s.passes <=> passes)
        BY <2>2
    <2>q. QED BY <2>1, <2>3 DEF LoweringInv, fires, passes
<1>3. CASE UNCHANGED vars
    BY <1>3 DEF vars, LoweringInv
<1>q. QED BY <1>1, <1>2, <1>3 DEF Next

\* In a state of the invariant both properties are facts about one rule and one event.
LEMMA LoweringImplies ==
    LoweringInv => KernelFilterIsSuperset /\ FilterIsExactForAlternatives
<1> SUFFICES ASSUME LoweringInv
             PROVE  KernelFilterIsSuperset /\ FilterIsExactForAlternatives
    OBVIOUS
<1>1. rule \in SigmaRule /\ \A s \in seen : s.ev \in Record
    BY LoweringAssumption DEF LoweringInv, LoweringAssumption
<1>2. ASSUME TakenForGranted(rule), NEW s \in seen,
             s.ev.type \in {ET_FILE, ET_LSM}, s.ev.type = classify_event_type(rule), s.fires
      PROVE  s.passes
    <2>1. FailsOpen(rule) \/ Wanted(rule, s.ev)
        <3>1. SigmaFires(rule, s.ev)
            BY <1>2 DEF LoweringInv
        <3>q. QED BY <1>1, <1>2, <3>1, RuleSound DEF FailsOpen, Wanted
    <2>2. passes_kernel_filter(BlockOf(rule), s.ev.type, s.ev.comm, s.ev.path)
        BY <1>1, <1>2, <2>1, BlockDecides
    <2>q. QED BY <2>2 DEF LoweringInv
<1>3. ASSUME NEW s \in seen, OnlyAlternatives(rule),
             classify_event_type(rule) \in {ET_FILE, ET_LSM} \ block.mask,
             s.ev.type = classify_event_type(rule), Len(s.ev.path) < MAX_PATH_SCAN, s.passes
      PROVE  s.fires
    <2>1. /\ block = BlockOf(rule)
          /\ passes_kernel_filter(BlockOf(rule), s.ev.type, s.ev.comm, s.ev.path)
        BY <1>3 DEF LoweringInv
    <2>2. ~FailsOpen(rule)
        BY <1>1, <1>3, <2>1, BlockDecides
    <2>3. Wanted(rule, s.ev)
        BY <1>1, <1>3, <2>1, <2>2, BlockDecides
    <2>4. SigmaFires(rule, s.ev)
        BY <1>1, <1>3, <2>2, <2>3, RuleExact DEF FailsOpen, Wanted
    <2>q. QED BY <2>4 DEF LoweringInv
<1>4. KernelFilterIsSuperset
    BY <1>2 DEF KernelFilterIsSuperset
<1>5. FilterIsExactForAlternatives
    BY <1>3 DEF FilterIsExactForAlternatives
<1>q. QED BY <1>4, <1>5

\* The invariant holds throughout.
LEMMA Lowering == Spec => []LoweringInv
BY LoweringInitial, LoweringStep, PTL DEF Spec

(***************************************************************************)
(* The kernel filter accepts a superset of what the Sigma engine fires on: *)
(* for every rule of the form extract_pushdown takes for granted and every *)
(* FILE or LSM event, whatever the rule is made of and however long its    *)
(* patterns, values and selections are.                                    *)
(***************************************************************************)
THEOREM SupersetTheorem == Spec => []KernelFilterIsSuperset
BY Lowering, LoweringImplies, PTL

(***************************************************************************)
(* And for a rule that is nothing but alternatives it accepts no more.     *)
(***************************************************************************)
THEOREM ExactTheorem == Spec => []FilterIsExactForAlternatives
BY Lowering, LoweringImplies, PTL
=============================================================================
