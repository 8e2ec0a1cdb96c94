-------------------------- MODULE RuleEngineProofs --------------------------
(***************************************************************************)
(* Whatever the rules directory holds, in whatever order it is read and    *)
(* whatever the budget: the rule set Engine::new publishes fits the budget,*)
(* holds no rule of a permissive type, covers every term of every type it  *)
(* filters, and every permissive type is explained once.                   *)
(***************************************************************************)
EXTENDS RuleEngine, FiniteSetTheorems, TLAPS

(***************************************************************************)
(* The rank of a position of the Vec: below the number of positions, and   *)
(* strictly increasing.                                                    *)
(***************************************************************************)
LEMMA RankIncreases ==
    ASSUME NEW rules, DOMAIN rules \subseteq Nat, IsFiniteSet(DOMAIN rules)
    PROVE  /\ Cardinality(DOMAIN rules) \in Nat
           /\ \A i \in DOMAIN rules :
                 Rank(rules, i) \in Nat /\ Rank(rules, i) < Cardinality(DOMAIN rules)
           /\ \A i, j \in DOMAIN rules : i < j => Rank(rules, i) < Rank(rules, j)
<1> DEFINE below(i) == {j \in DOMAIN rules : j < i}
<1>1. ASSUME NEW i \in DOMAIN rules
      PROVE  /\ IsFiniteSet(below(i)) /\ below(i) \in SUBSET DOMAIN rules
             /\ below(i) # DOMAIN rules
             /\ Rank(rules, i) = Cardinality(below(i))
             /\ Rank(rules, i) \in Nat
  <2>1. i \notin below(i) /\ below(i) \in SUBSET DOMAIN rules
    OBVIOUS
  <2> QED
    BY <2>1, FS_Subset, FS_CardinalityType DEF Rank
<1>2. Cardinality(DOMAIN rules) \in Nat
  BY FS_CardinalityType
<1>3. ASSUME NEW i \in DOMAIN rules
      PROVE  Rank(rules, i) < Cardinality(DOMAIN rules)
  <2> HIDE DEF below
  <2>1. Cardinality(below(i)) <= Cardinality(DOMAIN rules)
        /\ (Cardinality(below(i)) = Cardinality(DOMAIN rules) => below(i) = DOMAIN rules)
    BY <1>1, FS_Subset
  <2> QED
    BY <1>1, <1>2, <2>1
<1>4. ASSUME NEW i \in DOMAIN rules, NEW j \in DOMAIN rules, i < j
      PROVE  Rank(rules, i) < Rank(rules, j)
  <2>1. below(i) \in SUBSET below(j)
    BY <1>4
  <2>2. i \in below(j) /\ i \notin below(i)
    BY <1>4
  <2> HIDE DEF below
  <2>3. Cardinality(below(i)) <= Cardinality(below(j))
        /\ (Cardinality(below(i)) = Cardinality(below(j)) => below(i) = below(j))
    BY <1>1, <2>1, FS_Subset
  <2> QED
    BY <1>1, <2>2, <2>3
<1> QED
  BY <1>1, <1>2, <1>3, <1>4

(***************************************************************************)
(* At most n members of a finite set of positions have rank below n: the   *)
(* cut of the Vec at the budget.                                           *)
(***************************************************************************)
LEMMA RankBelow ==
    ASSUME NEW rules, DOMAIN rules \subseteq Nat, IsFiniteSet(DOMAIN rules), NEW n \in Nat
    PROVE  LET kept == {i \in DOMAIN rules : Rank(rules, i) < n}
           IN  IsFiniteSet(kept) /\ Cardinality(kept) <= n
<1> DEFINE kept == {i \in DOMAIN rules : Rank(rules, i) < n}
           rank == [i \in kept |-> Rank(rules, i)]
<1>1. \A i \in DOMAIN rules : Rank(rules, i) \in Nat
  BY RankIncreases
<1>2. ASSUME NEW i \in DOMAIN rules, NEW j \in DOMAIN rules, i < j
      PROVE  Rank(rules, i) # Rank(rules, j)
  BY <1>1, <1>2, RankIncreases
<1>3. rank \in Injection(kept, 0..n-1)
  <2>1. rank \in [kept -> 0..n-1]
    <3>1. ASSUME NEW i \in kept
          PROVE  Rank(rules, i) \in 0..n-1
      <4>1. Rank(rules, i) \in Nat /\ Rank(rules, i) < n
        BY <1>1
      <4> HIDE DEF kept, rank
      <4> QED
        BY <4>1
    <3> QED
      BY <3>1
  <2>2. ASSUME NEW i \in kept, NEW j \in kept, rank[i] = rank[j]
        PROVE  i = j
    <3>1. i \in DOMAIN rules /\ j \in DOMAIN rules /\ i \in Nat /\ j \in Nat
      OBVIOUS
    <3>2. Rank(rules, i) = Rank(rules, j)
      BY <2>2
    <3> QED
      BY <1>2, <3>1, <3>2
  <2> QED
    BY <2>1, <2>2 DEF Injection, IsInjective
<1>4. IsFiniteSet(0..n-1) /\ Cardinality(0..n-1) = n
  BY FS_Interval
<1> QED
  BY <1>3, <1>4, FS_Injection

\* Every rank below the number of positions is the rank of one: no slot is skipped.
LEMMA RankOnto ==
    ASSUME NEW rules, DOMAIN rules \subseteq Nat, IsFiniteSet(DOMAIN rules),
           NEW n \in 0..(Cardinality(DOMAIN rules) - 1)
    PROVE  \E p \in DOMAIN rules : Rank(rules, p) = n
<1> DEFINE size == Cardinality(DOMAIN rules)
           rank == [p \in DOMAIN rules |-> Rank(rules, p)]
<1>1. size \in Nat
  BY RankIncreases
<1>2. \A p \in DOMAIN rules : Rank(rules, p) \in Nat /\ Rank(rules, p) < size
  BY RankIncreases
<1>3. IsFiniteSet(0..size-1) /\ Cardinality(0..size-1) = size
  BY <1>1, FS_Interval
<1>4. ASSUME NEW p \in DOMAIN rules, NEW q \in DOMAIN rules, Rank(rules, p) = Rank(rules, q)
      PROVE  p = q
  <2>1. p \in Nat /\ q \in Nat
    OBVIOUS
  <2>2. ASSUME NEW i \in DOMAIN rules, NEW j \in DOMAIN rules, i < j
        PROVE  Rank(rules, i) # Rank(rules, j)
    BY <1>2, <2>2, RankIncreases
  <2> QED
    BY <1>4, <2>1, <2>2
<1>5. rank \in Injection(DOMAIN rules, 0..size-1)
  <2>1. rank \in [DOMAIN rules -> 0..size-1]
    BY <1>1, <1>2
  <2> QED
    BY <1>4, <2>1 DEF Injection, IsInjective
<1>6. rank \in Surjection(DOMAIN rules, 0..size-1)
  BY <1>3, <1>5, FS_Injection
<1> QED
  BY <1>6 DEF Surjection

-----------------------------------------------------------------------------
\* The rules of the Vec are those of types that are filtered, once retained.
OnlyLiveRules ==
    phase # "reading" =>
        \A i \in DOMAIN kernel_rules : kernel_rules[i].type \notin permissive_mask

\* EveryTermCovered while the directory is still being read.
CoveredSoFar ==
    \A f \in sigma_rules :
        outcome[f].type \in EventTypes \ permissive_mask =>
            /\ ~outcome[f].blocked
            /\ \A i \in DOMAIN outcome[f].terms :
                  \E k \in DOMAIN kernel_rules :
                      kernel_rules[k] = [type |-> outcome[f].type,
                                         term |-> outcome[f].terms[i].term]

IInv ==
    /\ TypeOK
    /\ AlwaysPermissive \subseteq permissive_mask
    /\ phase = "reading" => kernel_rules \in Seq(Rule)
    /\ OnlyLiveRules
    /\ CoveredSoFar
    /\ OneNotePerPermissiveType
    /\ BudgetRespected

\* An unread directory: no rule, and only MODULE and NETWORK permissive.
LEMMA InitIInv == Init => IInv
<1> SUFFICES ASSUME Init PROVE IInv
  OBVIOUS
<1>1. kernel_rules = <<>> /\ DOMAIN kernel_rules = {} /\ kernel_rules \in Seq(Rule)
  BY DEF Init
<1>2. IsFiniteSet({})
  BY FS_EmptySet
<1>3. permissive_mask \subseteq EventTypes /\ permissive_mask \cap PushableTypes = {}
  BY DEF Init, AlwaysPermissive, EventTypes, PushableTypes,
         ET_EXECVE, ET_FILE, ET_LSM, ET_MODULE, ET_NETWORK
<1>4. TypeOK
  BY <1>1, <1>2, <1>3 DEF Init, TypeOK
<1>5. OneNotePerPermissiveType
  BY <1>3 DEF Init, OneNotePerPermissiveType
<1> QED
  BY <1>1, <1>4, <1>5
     DEF Init, IInv, OnlyLiveRules, CoveredSoFar, BudgetRespected

(***************************************************************************)
(* The terms a file contributes are rules of its type, appended in order   *)
(* behind the ones already in the Vec.                                     *)
(***************************************************************************)
LEMMA PushProperties ==
    ASSUME TypeOK, kernel_rules \in Seq(Rule), NEW f \in Files, NEW k \in Nat,
           k <= Len(outcome[f].terms), outcome[f].type \in EventTypes
    PROVE  LET pushed == kernel_rules \o Lowered(f, k)
           IN  /\ pushed \in Seq(Rule) /\ Len(pushed) = Len(kernel_rules) + k
               /\ \A i \in DOMAIN kernel_rules : i \in DOMAIN pushed /\ pushed[i] = kernel_rules[i]
               /\ \A i \in 1..k : pushed[Len(kernel_rules) + i] =
                     [type |-> outcome[f].type, term |-> outcome[f].terms[i].term]
               /\ \A i \in 1..k : \E j \in DOMAIN pushed :
                     pushed[j] = [type |-> outcome[f].type,
                                  term |-> outcome[f].terms[i].term]
<1> DEFINE low == Lowered(f, k)
           pushed == kernel_rules \o low
<1>1. outcome[f] \in OutcomeType
  BY EngineAssumption DEF TypeOK, EngineAssumption
<1>2. outcome[f].terms \in Seq([term : Term, fits : BOOLEAN])
  BY <1>1 DEF OutcomeType
<1>3. ASSUME NEW i \in 1..k
      PROVE  outcome[f].terms[i].term \in Term
  <2>1. i \in 1..Len(outcome[f].terms)
    BY <1>2
  <2>2. ASSUME NEW S, NEW ts \in Seq(S), NEW j \in 1..Len(ts)
        PROVE  ts[j] \in S
    OBVIOUS
  <2>3. outcome[f].terms[i] \in [term : Term, fits : BOOLEAN]
    BY <1>2, <2>1, <2>2
  <2> QED
    BY <2>3
<1>4. low \in [1..k -> Rule]
  BY <1>3 DEF Lowered, Rule
<1>5. low \in Seq(Rule) /\ Len(low) = k /\ \A i \in 1..k :
         low[i] = [type |-> outcome[f].type, term |-> outcome[f].terms[i].term]
  BY <1>4 DEF Lowered
<1> HIDE DEF low
<1>6. pushed \in Seq(Rule) /\ Len(pushed) = Len(kernel_rules) + k
  BY <1>5
<1>7. \A i \in DOMAIN kernel_rules : i \in DOMAIN pushed /\ pushed[i] = kernel_rules[i]
  BY <1>5, <1>6
<1>8. ASSUME NEW i \in 1..k
      PROVE  /\ pushed[Len(kernel_rules) + i] = [type |-> outcome[f].type,
                                                  term |-> outcome[f].terms[i].term]
             /\ \E j \in DOMAIN pushed : pushed[j] = [type |-> outcome[f].type,
                                                      term |-> outcome[f].terms[i].term]
  <2>1. Len(kernel_rules) + i \in DOMAIN pushed
    BY <1>6
  <2>2. pushed[Len(kernel_rules) + i] = low[i]
    BY <1>5, <1>6
  <2> QED
    BY <2>1, <2>2, <1>5
<1> QED
  BY <1>6, <1>7, <1>8 DEF low

\* Making a type permissive that was not notes it exactly once.
LEMMA MakePermissiveNotesOnce ==
    ASSUME TypeOK, OneNotePerPermissiveType, AlwaysPermissive \subseteq permissive_mask,
           NEW types \in SUBSET (EventTypes \ permissive_mask), MakePermissive(types)
    PROVE  /\ permissive_mask' = permissive_mask \cup types
           /\ permissive_mask' \subseteq EventTypes
           /\ permissive_notes' \in [PushableTypes -> Nat]
           /\ OneNotePerPermissiveType'
<1>1. permissive_mask' = permissive_mask \cup types /\ permissive_mask' \subseteq EventTypes
  BY DEF MakePermissive, TypeOK
<1>2. ASSUME NEW t \in PushableTypes
      PROVE  permissive_notes'[t] = IF t \in permissive_mask' THEN 1 ELSE 0
  BY <1>1 DEF MakePermissive, OneNotePerPermissiveType
<1>3. DOMAIN permissive_notes' = PushableTypes
      /\ permissive_notes' = [t \in PushableTypes |-> permissive_notes'[t]]
  BY DEF MakePermissive
<1>4. permissive_notes' \in [PushableTypes -> Nat]
  BY <1>2, <1>3
<1> QED
  BY <1>1, <1>2, <1>4 DEF OneNotePerPermissiveType

\* While the directory is read the Vec is a sequence of rules.
LEMMA SequenceTyped ==
    ASSUME NEW s \in Seq(Rule)
    PROVE  /\ DOMAIN s \subseteq Nat \ {0} /\ IsFiniteSet(DOMAIN s)
           /\ \A i \in DOMAIN s : s[i] \in Rule
<1>1. DOMAIN s = 1..Len(s) /\ Len(s) \in Nat
  OBVIOUS
<1>2. IsFiniteSet(1..Len(s))
  BY <1>1, FS_Interval
<1> QED
  BY <1>1, <1>2

(***************************************************************************)
(* Reading a file that pushes rules: the ones already in the Vec stay, so  *)
(* what was covered stays covered, and the new file is covered as well.    *)
(***************************************************************************)
LEMMA PushKeepsCovered ==
    ASSUME IInv, NEW f \in Files, outcome' = outcome,
           permissive_mask \subseteq permissive_mask',
           sigma_rules' = sigma_rules \cup {f},
           \A i \in DOMAIN kernel_rules :
               i \in DOMAIN kernel_rules' /\ kernel_rules'[i] = kernel_rules[i],
           outcome[f].type \in EventTypes \ permissive_mask' =>
               /\ ~outcome[f].blocked
               /\ \A i \in DOMAIN outcome[f].terms :
                     \E k \in DOMAIN kernel_rules' :
                         kernel_rules'[k] = [type |-> outcome[f].type,
                                             term |-> outcome[f].terms[i].term]
    PROVE  CoveredSoFar'
<1> SUFFICES ASSUME NEW g \in sigma_rules', outcome[g].type \in EventTypes \ permissive_mask'
             PROVE  /\ ~outcome[g].blocked
                    /\ \A i \in DOMAIN outcome[g].terms :
                          \E k \in DOMAIN kernel_rules' :
                              kernel_rules'[k] = [type |-> outcome[g].type,
                                                  term |-> outcome[g].terms[i].term]
  BY DEF CoveredSoFar
<1>1. CASE g = f
  BY <1>1
<1>2. CASE g \in sigma_rules
  <2>1. outcome[g].type \in EventTypes \ permissive_mask
    OBVIOUS
  <2>2. /\ ~outcome[g].blocked
        /\ \A i \in DOMAIN outcome[g].terms :
              \E k \in DOMAIN kernel_rules :
                  kernel_rules[k] = [type |-> outcome[g].type,
                                     term |-> outcome[g].terms[i].term]
    BY <1>2, <2>1 DEF IInv, CoveredSoFar
  <2> QED
    BY <2>2
<1> QED
  BY <1>1, <1>2

(***************************************************************************)
(* Keeping only the positions that pass a test keeps the typing, and the   *)
(* coverage of every type none of whose rules is dropped.                  *)
(***************************************************************************)
LEMMA RestrictKeeps ==
    ASSUME IInv, NEW keep \in SUBSET DOMAIN kernel_rules,
           kernel_rules' = Restrict(kernel_rules, keep),
           outcome' = outcome, sigma_rules' = sigma_rules,
           permissive_mask \subseteq permissive_mask',
           \A i \in DOMAIN kernel_rules \ keep : kernel_rules[i].type \in permissive_mask'
    PROVE  /\ DOMAIN kernel_rules' = keep /\ keep \subseteq Nat \ {0} /\ IsFiniteSet(keep)
           /\ \A i \in keep : kernel_rules'[i] = kernel_rules[i] /\ kernel_rules'[i] \in Rule
           /\ CoveredSoFar'
<1>1. DOMAIN kernel_rules \subseteq Nat \ {0} /\ IsFiniteSet(DOMAIN kernel_rules)
      /\ \A i \in DOMAIN kernel_rules : kernel_rules[i] \in Rule
  BY DEF IInv, TypeOK
<1>2. IsFiniteSet(keep)
  BY <1>1, FS_Subset
<1>3. DOMAIN kernel_rules' = keep /\ \A i \in keep : kernel_rules'[i] = kernel_rules[i]
  BY DEF Restrict
<1>4. ASSUME NEW g \in sigma_rules, outcome[g].type \in EventTypes \ permissive_mask'
      PROVE  /\ ~outcome[g].blocked
             /\ \A i \in DOMAIN outcome[g].terms :
                   \E k \in keep : kernel_rules[k] = [type |-> outcome[g].type,
                                                      term |-> outcome[g].terms[i].term]
  <2>1. /\ ~outcome[g].blocked
        /\ \A i \in DOMAIN outcome[g].terms :
              \E k \in DOMAIN kernel_rules :
                  kernel_rules[k] = [type |-> outcome[g].type,
                                     term |-> outcome[g].terms[i].term]
    BY <1>4 DEF IInv, CoveredSoFar
  <2>2. ASSUME NEW i \in DOMAIN outcome[g].terms
        PROVE  \E k \in keep : kernel_rules[k] = [type |-> outcome[g].type,
                                                  term |-> outcome[g].terms[i].term]
    <3>1. PICK k \in DOMAIN kernel_rules :
              kernel_rules[k] = [type |-> outcome[g].type,
                                 term |-> outcome[g].terms[i].term]
      BY <2>1
    <3>2. kernel_rules[k].type \notin permissive_mask'
      BY <1>4, <3>1
    <3> QED
      BY <3>1, <3>2
  <2> QED
    BY <2>1, <2>2
<1>5. CoveredSoFar'
  BY <1>3, <1>4 DEF CoveredSoFar
<1> QED
  BY <1>1, <1>2, <1>3, <1>5

-----------------------------------------------------------------------------
\* Each step of Engine::new keeps the invariant: one step per action.
LEMMA NextIInv == IInv /\ [Next]_vars => IInv'
<1> SUFFICES ASSUME IInv, [Next]_vars PROVE IInv'
  OBVIOUS
<1>0. /\ TypeOK /\ OneNotePerPermissiveType /\ AlwaysPermissive \subseteq permissive_mask
      /\ BudgetRespected
  BY DEF IInv
<1>1. ASSUME NEW f \in Files, SkipEntry(f) PROVE IInv'
  <2>1. TypeOK'
    BY <1>0, <1>1 DEF TypeOK, SkipEntry, NextEntry
  <2> QED
    BY <1>1, <2>1 DEF IInv, SkipEntry, NextEntry, OnlyLiveRules, CoveredSoFar,
                      OneNotePerPermissiveType, BudgetRespected
<1>2. ASSUME NEW f \in Files, LoadOnly(f) PROVE IInv'
  <2>1. TypeOK'
    BY <1>0, <1>2 DEF TypeOK, LoadOnly, NextEntry, Load
  <2>2. outcome[f].type \notin EventTypes \ permissive_mask
    BY <1>2 DEF LoadOnly, EventTypes
  <2>3. CoveredSoFar'
    BY <1>2, <2>2 DEF IInv, CoveredSoFar, LoadOnly, NextEntry, Load
  <2> QED
    BY <1>2, <2>1, <2>3 DEF IInv, LoadOnly, NextEntry, Load, OnlyLiveRules,
                            OneNotePerPermissiveType, BudgetRespected
<1>3. ASSUME NEW f \in Files, outcome[f].type \notin permissive_mask \cup {0}
      PROVE  outcome[f].type \in EventTypes \ permissive_mask
  <2>1. outcome[f] \in OutcomeType
    BY <1>0, EngineAssumption DEF TypeOK, EngineAssumption
  <2> QED
    BY <1>3, <2>1 DEF OutcomeType, EventTypes
<1>4. ASSUME NEW f \in Files, FailOpen(f) PROVE IInv'
  <2>1. {outcome[f].type} \in SUBSET (EventTypes \ permissive_mask)
    BY <1>3, <1>4 DEF FailOpen
  <2>2. /\ permissive_mask' = permissive_mask \cup {outcome[f].type}
        /\ permissive_mask' \subseteq EventTypes
        /\ permissive_notes' \in [PushableTypes -> Nat]
        /\ OneNotePerPermissiveType'
    BY <1>0, <1>4, <2>1, MakePermissiveNotesOnce DEF FailOpen
  <2>3. TypeOK'
    BY <1>0, <1>4, <2>2 DEF TypeOK, FailOpen, NextEntry, Load
  <2>4. CoveredSoFar'
    BY <1>4, <2>2 DEF IInv, CoveredSoFar, FailOpen, NextEntry, Load
  <2>5. phase = "reading" /\ phase' = "reading" /\ kernel_rules' = kernel_rules
    BY <1>4 DEF FailOpen, NextEntry
  <2> QED
    BY <2>2, <2>3, <2>4, <2>5 DEF IInv, OnlyLiveRules, BudgetRespected
<1>5. ASSUME NEW f \in Files, PushTerms(f) PROVE IInv'
  <2> DEFINE n == Len(outcome[f].terms)
  <2>1. /\ outcome[f].type \in EventTypes \ permissive_mask
        /\ kernel_rules \in Seq(Rule) /\ n \in Nat
        /\ DOMAIN outcome[f].terms = 1..n
    <3>1. outcome[f] \in OutcomeType
      BY <1>0, EngineAssumption DEF TypeOK, EngineAssumption
    <3>2. outcome[f].terms \in Seq([term : Term, fits : BOOLEAN])
      BY <3>1 DEF OutcomeType
    <3> QED
      BY <1>3, <1>5, <3>2 DEF PushTerms, NextEntry, IInv
  <2>2. /\ kernel_rules' \in Seq(Rule)
        /\ \A i \in DOMAIN kernel_rules : i \in DOMAIN kernel_rules' /\ kernel_rules'[i] = kernel_rules[i]
        /\ \A i \in 1..n : \E j \in DOMAIN kernel_rules' :
              kernel_rules'[j] = [type |-> outcome[f].type, term |-> outcome[f].terms[i].term]
    <3>1. kernel_rules' = kernel_rules \o Lowered(f, n)
      BY <1>5 DEF PushTerms
    <3>2. n <= Len(outcome[f].terms)
      BY <2>1
    <3> HIDE DEF n
    <3> QED
      BY <1>0, <2>1, <3>1, <3>2, PushProperties
  <2>3. TypeOK'
    BY <1>0, <1>5, <2>2, SequenceTyped DEF TypeOK, PushTerms, NextEntry, Load
  <2>4. CoveredSoFar'
    <3>1. ~outcome[f].blocked /\ outcome' = outcome /\ permissive_mask' = permissive_mask
          /\ sigma_rules' = sigma_rules \cup {f}
      BY <1>5 DEF PushTerms, NextEntry, Load
    <3> QED
      BY <2>1, <2>2, <3>1, PushKeepsCovered
  <2>5. phase = "reading" /\ phase' = "reading"
        /\ UNCHANGED <<permissive_mask, permissive_notes>>
    BY <1>5 DEF PushTerms, NextEntry
  <2> QED
    BY <1>0, <2>2, <2>3, <2>4, <2>5
       DEF IInv, OnlyLiveRules, BudgetRespected, OneNotePerPermissiveType
<1>6. ASSUME NEW f \in Files, PushUntilTooLong(f) PROVE IInv'
  <2>1. PICK k \in DOMAIN outcome[f].terms :
            kernel_rules' = kernel_rules \o Lowered(f, k - 1)
    BY <1>6 DEF PushUntilTooLong
  <2>2. /\ outcome[f].type \in EventTypes \ permissive_mask
        /\ kernel_rules \in Seq(Rule)
        /\ k - 1 \in Nat /\ k - 1 <= Len(outcome[f].terms)
    <3>1. outcome[f] \in OutcomeType
      BY <1>0, EngineAssumption DEF TypeOK, EngineAssumption
    <3>2. outcome[f].terms \in Seq([term : Term, fits : BOOLEAN])
      BY <3>1 DEF OutcomeType
    <3>3. k \in 1..Len(outcome[f].terms)
      BY <2>1, <3>2
    <3> QED
      BY <1>3, <1>6, <3>2, <3>3 DEF PushUntilTooLong, NextEntry, IInv
  <2>3. /\ kernel_rules' \in Seq(Rule)
        /\ \A i \in DOMAIN kernel_rules : i \in DOMAIN kernel_rules' /\ kernel_rules'[i] = kernel_rules[i]
    BY <1>0, <2>1, <2>2, PushProperties
  <2>4. /\ permissive_mask' = permissive_mask \cup {outcome[f].type}
        /\ permissive_mask' \subseteq EventTypes
        /\ permissive_notes' \in [PushableTypes -> Nat]
        /\ OneNotePerPermissiveType'
    <3>1. {outcome[f].type} \in SUBSET (EventTypes \ permissive_mask)
      BY <2>2
    <3> QED
      BY <1>0, <1>6, <3>1, MakePermissiveNotesOnce DEF PushUntilTooLong
  <2>5. TypeOK'
    BY <1>0, <1>6, <2>3, <2>4, SequenceTyped DEF TypeOK, PushUntilTooLong, NextEntry, Load
  <2>6. CoveredSoFar'
    <3>1. outcome' = outcome /\ sigma_rules' = sigma_rules \cup {f}
      BY <1>6 DEF PushUntilTooLong, NextEntry, Load
    <3>2. outcome[f].type \notin EventTypes \ permissive_mask'
      BY <2>4
    <3> QED
      BY <2>3, <2>4, <3>1, <3>2, PushKeepsCovered
  <2>7. phase = "reading" /\ phase' = "reading"
    BY <1>6 DEF PushUntilTooLong, NextEntry
  <2> QED
    BY <1>0, <2>3, <2>4, <2>5, <2>6, <2>7 DEF IInv, OnlyLiveRules, BudgetRespected
<1>7. CASE NoDirectory
  <2>1. TypeOK'
    BY <1>0, <1>7 DEF TypeOK, NoDirectory
  <2> QED
    BY <1>7, <2>1 DEF IInv, NoDirectory, OnlyLiveRules, CoveredSoFar,
                      OneNotePerPermissiveType, BudgetRespected
<1>8. CASE Retain
  <2> DEFINE keep == LiveAt(kernel_rules, permissive_mask)
  <2>1. /\ keep \in SUBSET DOMAIN kernel_rules
        /\ \A i \in DOMAIN kernel_rules \ keep : kernel_rules[i].type \in permissive_mask'
        /\ \A i \in keep : kernel_rules[i].type \notin permissive_mask
    BY <1>8 DEF Retain, LiveAt
  <2>2. /\ phase' = "fitting" /\ kernel_rules' = Restrict(kernel_rules, keep)
        /\ UNCHANGED <<outcome, remaining, sigma_rules, permissive_mask, permissive_notes>>
    BY <1>8 DEF Retain
  <2> HIDE DEF keep
  <2>3. /\ DOMAIN kernel_rules' = keep /\ keep \subseteq Nat \ {0} /\ IsFiniteSet(keep)
        /\ \A i \in keep : kernel_rules'[i] = kernel_rules[i] /\ kernel_rules'[i] \in Rule
        /\ CoveredSoFar'
    BY <2>1, <2>2, RestrictKeeps
  <2>4. TypeOK'
    BY <1>0, <2>2, <2>3 DEF TypeOK
  <2>5. OnlyLiveRules'
    BY <2>1, <2>2, <2>3 DEF OnlyLiveRules
  <2> QED
    BY <1>0, <2>2, <2>3, <2>4, <2>5 DEF IInv, OneNotePerPermissiveType, BudgetRespected
<1>9. CASE Fits
  <2>1. TypeOK'
    BY <1>0, <1>9 DEF TypeOK, Fits
  <2>2. OnlyLiveRules' /\ BudgetRespected'
    BY <1>9 DEF Fits, IInv, OnlyLiveRules, BudgetRespected
  <2> QED
    BY <1>9, <2>1, <2>2 DEF IInv, Fits, CoveredSoFar, OneNotePerPermissiveType
<1>10. CASE Overflow
  <2> DEFINE lost == {kernel_rules[i].type : i \in Evicted(kernel_rules)}
             keep == LiveAt(kernel_rules, permissive_mask \cup lost) \ Evicted(kernel_rules)
             below == {i \in DOMAIN kernel_rules : Rank(kernel_rules, i) < MAX_KERNEL_RULES}
  <2>1. \A i \in DOMAIN kernel_rules : kernel_rules[i].type \in EventTypes \ permissive_mask
    BY <1>10 DEF IInv, TypeOK, Rule, OnlyLiveRules, Overflow
  <2>2. lost \in SUBSET (EventTypes \ permissive_mask)
    BY <2>1 DEF Evicted
  <2>3. /\ phase' = "ready" /\ MakePermissive(lost)
        /\ kernel_rules' = Restrict(kernel_rules, keep)
        /\ UNCHANGED <<outcome, remaining, sigma_rules>>
    BY <1>10 DEF Overflow
  <2>4. /\ permissive_mask' = permissive_mask \cup lost
        /\ permissive_mask' \subseteq EventTypes
        /\ permissive_notes' \in [PushableTypes -> Nat]
        /\ OneNotePerPermissiveType'
    BY <1>0, <2>2, <2>3, MakePermissiveNotesOnce
  <2>5. /\ keep \in SUBSET DOMAIN kernel_rules
        /\ \A i \in DOMAIN kernel_rules \ keep : kernel_rules[i].type \in permissive_mask'
        /\ \A i \in keep : kernel_rules[i].type \notin permissive_mask'
    BY <2>4 DEF LiveAt
  <2>6. IsFiniteSet(keep) /\ Cardinality(keep) <= MAX_KERNEL_RULES
    <3>1. /\ DOMAIN kernel_rules \subseteq Nat /\ IsFiniteSet(DOMAIN kernel_rules)
          /\ MAX_KERNEL_RULES \in Nat
      BY <1>0, EngineAssumption DEF TypeOK, EngineAssumption
    <3>2. IsFiniteSet(below) /\ Cardinality(below) <= MAX_KERNEL_RULES
      BY <3>1, RankBelow
    <3>3. keep \in SUBSET below
      <4>1. \A i \in DOMAIN kernel_rules : Rank(kernel_rules, i) \in Nat
        <5>1. ASSUME NEW i \in DOMAIN kernel_rules
              PROVE  Rank(kernel_rules, i) \in Nat
          <6>1. {j \in DOMAIN kernel_rules : j < i} \in SUBSET DOMAIN kernel_rules
            OBVIOUS
          <6> QED
            BY <3>1, <6>1, FS_Subset, FS_CardinalityType DEF Rank
        <5> QED
          BY <5>1
      <4> QED
        BY <3>1, <4>1 DEF LiveAt, Evicted
    <3> HIDE DEF keep, below
    <3>4. Cardinality(keep) <= Cardinality(below) /\ IsFiniteSet(keep)
      BY <3>2, <3>3, FS_Subset
    <3>5. Cardinality(keep) \in Nat /\ Cardinality(below) \in Nat
      BY <3>2, <3>4, FS_CardinalityType
    <3> QED
      BY <3>1, <3>2, <3>4, <3>5
  <2> HIDE DEF lost, keep, below
  <2>7. /\ DOMAIN kernel_rules' = keep /\ keep \subseteq Nat \ {0}
        /\ \A i \in keep : kernel_rules'[i] = kernel_rules[i] /\ kernel_rules'[i] \in Rule
        /\ CoveredSoFar'
    BY <2>3, <2>4, <2>5, RestrictKeeps
  <2>8. TypeOK'
    BY <1>0, <2>3, <2>4, <2>6, <2>7 DEF TypeOK
  <2>9. OnlyLiveRules' /\ BudgetRespected'
    BY <2>3, <2>5, <2>6, <2>7 DEF OnlyLiveRules, BudgetRespected
  <2>10. AlwaysPermissive \subseteq permissive_mask'
    BY <1>0, <2>4
  <2> QED
    BY <2>3, <2>4, <2>7, <2>8, <2>9, <2>10 DEF IInv
<1>11. CASE UNCHANGED vars
  BY <1>11 DEF vars, IInv, TypeOK, OnlyLiveRules, CoveredSoFar,
               OneNotePerPermissiveType, BudgetRespected
<1> QED
  BY <1>1, <1>2, <1>4, <1>5, <1>6, <1>7, <1>8, <1>9, <1>10, <1>11 DEF Next

-----------------------------------------------------------------------------
\* The invariant holds of every behaviour of Engine::new.
LEMMA Invariant == Spec => []IInv
BY InitIInv, NextIInv, PTL DEF Spec

\* The variables of Engine::new keep their types.
THEOREM TypeCorrect == Spec => []TypeOK
<1>1. IInv => TypeOK
  BY DEF IInv
<1> QED
  BY <1>1, Invariant, PTL

(***************************************************************************)
(* The published rule set fits the kernel's loop bound and holds no rule   *)
(* of a type that is never filtered.                                       *)
(***************************************************************************)
THEOREM BudgetTheorem == Spec => []BudgetRespected
<1>1. IInv => BudgetRespected
  BY DEF IInv
<1> QED
  BY <1>1, Invariant, PTL

(***************************************************************************)
(* A type that is filtered has every term of every loaded rule of that     *)
(* type in the kernel: nothing is cut without the permissive bit.          *)
(***************************************************************************)
THEOREM CoverageTheorem == Spec => []EveryTermCovered
<1>1. IInv => EveryTermCovered
  BY DEF IInv, CoveredSoFar, EveryTermCovered
<1> QED
  BY <1>1, Invariant, PTL

\* Each pushable type that fails open is explained exactly once.
THEOREM NotesTheorem == Spec => []OneNotePerPermissiveType
<1>1. IInv => OneNotePerPermissiveType
  BY DEF IInv
<1> QED
  BY <1>1, Invariant, PTL

-----------------------------------------------------------------------------
(***************************************************************************)
(* When what can be filtered fits the budget, the order in which read_dir  *)
(* yields the files changes nothing: for any directory and any budget.     *)
(***************************************************************************)

Live    == LiveAt(kernel_rules, permissive_mask)
Healthy == HealthyTerms(PushableTypes)

\* The kernel rule a healthy term becomes.
TermAt(h) == [type |-> outcome[h[1]].type, term |-> outcome[h[1]].terms[h[2]].term]

\* place tells which healthy term each live rule comes from, one to one.
Placed(place, rules, live, healthy) ==
    /\ place \in [live -> healthy]
    /\ \A k, l \in live : place[k] = place[l] => k = l
    /\ \A h \in healthy : \E k \in live : place[k] = h
    /\ \A k \in live : rules[k] = TermAt(place[k])

\* The Vec holds the healthy terms, and the faulty types are the open ones.
Exact ==
    /\ permissive_mask \cap PushableTypes = FaultyTypes \cap PushableTypes
    /\ \E place \in [Live -> Healthy] : Placed(place, kernel_rules, Live, Healthy)

(***************************************************************************)
(* That holds at any moment while the directory is read, whatever was read *)
(* first: a type that turns faulty takes its rules out of the live ones    *)
(* and its terms out of the healthy ones in the same step.  Once the Vec   *)
(* is cut, it holds where nothing had to be cut.                           *)
(***************************************************************************)
OrderInv ==
    /\ IInv
    /\ sigma_rules \cap remaining = {}
    /\ phase # "ready" \/ Cardinality(Healthy) <= MAX_KERNEL_RULES => Exact

-----------------------------------------------------------------------------
Faulty(f) == outcome[f].blocked \/ \E i \in DOMAIN outcome[f].terms : ~outcome[f].terms[i].fits

LEMMA FaultyIff ==
    \A t : t \in FaultyTypes <=> \E f \in sigma_rules : outcome[f].type = t /\ Faulty(f)
BY DEF FaultyTypes, Faulty

HealthyMeaning ==
    \A h : h \in Healthy <=>
              \E f \in sigma_rules : \E i \in DOMAIN outcome[f].terms :
                  h = <<f, i>> /\ outcome[f].type \in PushableTypes \ FaultyTypes

LEMMA HealthyIff == HealthyMeaning
<1>1. ASSUME NEW h, h \in Healthy
      PROVE  \E f \in sigma_rules : \E i \in DOMAIN outcome[f].terms :
                 h = <<f, i>> /\ outcome[f].type \in PushableTypes \ FaultyTypes
  <2>1. PICK f \in sigma_rules : /\ outcome[f].type \in PushableTypes \ FaultyTypes
                                 /\ h \in {<<f, i>> : i \in DOMAIN outcome[f].terms}
    BY <1>1 DEF Healthy, HealthyTerms
  <2> QED
    BY <2>1
<1>2. ASSUME NEW f \in sigma_rules, NEW i \in DOMAIN outcome[f].terms,
             outcome[f].type \in PushableTypes \ FaultyTypes
      PROVE  <<f, i>> \in Healthy
  BY <1>2 DEF Healthy, HealthyTerms
<1> QED
  BY <1>1, <1>2 DEF HealthyMeaning

\* What a file adds to the faulty types when it is loaded.
LEMMA FaultyGrows ==
    ASSUME NEW f, outcome' = outcome, sigma_rules' = sigma_rules \cup {f}
    PROVE  FaultyTypes' = FaultyTypes \cup (IF Faulty(f) THEN {outcome[f].type} ELSE {})
<1>1. \A t : t \in FaultyTypes' <=> \E g \in sigma_rules' : outcome[g].type = t /\ Faulty(g)
  BY DEF FaultyTypes, Faulty
<1> QED
  BY <1>1, FaultyIff

-----------------------------------------------------------------------------
(***************************************************************************)
(* A type that fails open while file f is read: its rules and its terms go *)
(* together, whether or not some terms of f were pushed first.             *)
(***************************************************************************)
LEMMA FailOpenExact ==
    ASSUME IInv, Exact, NEW f \in Files, Faulty(f),
           outcome[f].type \in EventTypes \ permissive_mask,
           outcome' = outcome, sigma_rules' = sigma_rules \cup {f},
           permissive_mask' = permissive_mask \cup {outcome[f].type},
           DOMAIN kernel_rules \subseteq DOMAIN kernel_rules',
           \A k \in DOMAIN kernel_rules : kernel_rules'[k] = kernel_rules[k],
           \A k \in DOMAIN kernel_rules' \ DOMAIN kernel_rules :
               kernel_rules'[k].type = outcome[f].type
    PROVE  Exact'
<1> DEFINE t == outcome[f].type
<1>1. PICK place \in [Live -> Healthy] : Placed(place, kernel_rules, Live, Healthy)
  BY DEF Exact
<1>2. FaultyTypes' = FaultyTypes \cup {t}
  BY FaultyGrows
<1>3. permissive_mask' \cap PushableTypes = FaultyTypes' \cap PushableTypes
  BY <1>2 DEF Exact
<1>4. Live' = {k \in Live : kernel_rules[k].type # t}
  BY DEF Live, LiveAt
<1>5. \A h : h \in Healthy' <=> h \in Healthy /\ outcome[h[1]].type # t
  <2>1. \A h : h \in Healthy' <=>
            \E g \in sigma_rules \cup {f} : \E i \in DOMAIN outcome[g].terms :
                h = <<g, i>> /\ outcome[g].type \in PushableTypes \ FaultyTypes'
    <3>1. HealthyMeaning'
      BY HealthyIff, PTL
    <3> QED
      BY <3>1 DEF HealthyMeaning
  <2> QED
    BY <2>1, <1>2, HealthyIff DEF HealthyMeaning
<1>6. \A h : TermAt(h).type = outcome[h[1]].type
  BY DEF TermAt
<1> DEFINE kept == [k \in Live' |-> place[k]]
<1>7. \A k \in Live : kernel_rules[k].type = outcome[place[k][1]].type
  BY <1>1, <1>6 DEF Placed
<1>8. kept \in [Live' -> Healthy']
  BY <1>1, <1>4, <1>5, <1>7 DEF Placed
<1>9. Placed(kept, kernel_rules', Live', Healthy')
  <2>1. \A h \in Healthy' : \E k \in Live' : kept[k] = h
    BY <1>1, <1>4, <1>5, <1>7 DEF Placed
  <2>2. \A k \in Live' : kernel_rules'[k] = TermAt(kept[k])
    BY <1>1, <1>4, <1>6 DEF Placed, Live, LiveAt
  <2>3. \A k, l \in Live' : kept[k] = kept[l] => k = l
    BY <1>1, <1>4 DEF Placed
  <2> QED
    BY <1>8, <2>1, <2>2, <2>3 DEF Placed
<1> QED
  <2> HIDE DEF kept
  <2>1. \E new \in [Live' -> Healthy'] : Placed(new, kernel_rules', Live', Healthy')
    BY <1>8, <1>9
  <2> QED
    BY <1>3, <2>1 DEF Exact, Placed, TermAt

(***************************************************************************)
(* A file whose terms all fit adds them to the rules and to the healthy    *)
(* terms alike, behind what is there.                                      *)
(***************************************************************************)
LEMMA PushExact ==
    ASSUME IInv, Exact, NEW f \in Files, f \notin sigma_rules, ~Faulty(f),
           outcome[f].type \in EventTypes \ permissive_mask,
           NEW n \in Nat, DOMAIN outcome[f].terms = 1..n,
           outcome' = outcome, sigma_rules' = sigma_rules \cup {f},
           permissive_mask' = permissive_mask,
           kernel_rules \in Seq(Rule), kernel_rules' \in Seq(Rule),
           Len(kernel_rules') = Len(kernel_rules) + n,
           \A k \in DOMAIN kernel_rules : kernel_rules'[k] = kernel_rules[k],
           \A i \in 1..n : kernel_rules'[Len(kernel_rules) + i] =
               [type |-> outcome[f].type, term |-> outcome[f].terms[i].term]
    PROVE  Exact'
<1> DEFINE t   == outcome[f].type
           len == Len(kernel_rules)
           new == (len + 1)..(len + n)
<1>1. PICK place \in [Live -> Healthy] : Placed(place, kernel_rules, Live, Healthy)
  BY DEF Exact
<1>2. FaultyTypes' = FaultyTypes
  BY FaultyGrows
<1>3. t \in PushableTypes \ FaultyTypes
  <2>1. AlwaysPermissive \subseteq permissive_mask
    BY DEF IInv
  <2>2. t \in PushableTypes
    BY <2>1 DEF AlwaysPermissive, PushableTypes, EventTypes,
                ET_EXECVE, ET_FILE, ET_LSM, ET_MODULE, ET_NETWORK
  <2> QED
    BY <2>2 DEF Exact
<1>4. /\ len \in Nat /\ DOMAIN kernel_rules = 1..len /\ DOMAIN kernel_rules' = 1..(len + n)
      /\ Live \subseteq 1..len
  BY DEF Live, LiveAt
<1>5. \A k \in new : k - len \in 1..n /\ k = len + (k - len) /\ k \notin 1..len
  BY <1>4
<1>6. \A k \in new :
          kernel_rules'[k] = [type |-> t, term |-> outcome[f].terms[k - len].term]
  BY <1>5
<1>7. DOMAIN kernel_rules' = DOMAIN kernel_rules \cup new
  BY <1>4
<1> HIDE DEF new, len
<1>8. Live' = Live \cup new
  <2>1. ASSUME NEW k \in new PROVE kernel_rules'[k].type = t
    <3> DEFINE x == outcome[f].terms[k - len].term
    <3>1. kernel_rules'[k] = [type |-> t, term |-> x]
      BY <1>6
    <3> HIDE DEF x, t
    <3> QED
      BY <3>1
  <2>2. Live' = {k \in DOMAIN kernel_rules' : kernel_rules'[k].type \notin permissive_mask}
        /\ Live = {k \in DOMAIN kernel_rules : kernel_rules[k].type \notin permissive_mask}
    BY DEF Live, LiveAt
  <2> QED
    BY <1>7, <2>1, <2>2
<1>9. \A h : h \in Healthy' <=> h \in Healthy \/ \E i \in 1..n : h = <<f, i>>
  <2>1. \A h : h \in Healthy' <=>
            \E g \in sigma_rules \cup {f} : \E i \in DOMAIN outcome[g].terms :
                h = <<g, i>> /\ outcome[g].type \in PushableTypes \ FaultyTypes
    <3>1. HealthyMeaning'
      BY HealthyIff, PTL
    <3> QED
      BY <1>2, <3>1 DEF HealthyMeaning
  <2> QED
    BY <1>3, <2>1, HealthyIff DEF HealthyMeaning
<1>10. \A i : <<f, i>> \notin Healthy
  BY HealthyIff DEF HealthyMeaning
<1> DEFINE grown == [k \in Live' |-> IF k \in Live THEN place[k] ELSE <<f, k - len>>]
<1>11. /\ \A k \in Live : grown[k] = place[k] /\ place[k] \in Healthy
       /\ \A k \in new : grown[k] = <<f, k - len>> /\ k \notin Live
  BY <1>1, <1>4, <1>5, <1>8 DEF len
<1>12. grown \in [Live' -> Healthy']
  <2>1. \A k \in Live' : grown[k] \in Healthy'
    BY <1>5, <1>8, <1>9, <1>11
  <2> QED
    BY <2>1
<1>13. \A k, l \in Live' : grown[k] = grown[l] => k = l
  <2> HIDE DEF grown
  <2>1. ASSUME NEW k \in Live, NEW l \in Live, grown[k] = grown[l] PROVE k = l
    BY <1>1, <1>11, <2>1 DEF Placed
  <2>2. ASSUME NEW k \in Live, NEW l \in new PROVE grown[k] # grown[l]
    <3>1. grown[k] \in Healthy
      BY <1>11
    <3>2. grown[l] \notin Healthy
      <4> DEFINE i == l - len
      <4>1. grown[l] = <<f, i>>
        BY <1>11
      <4> HIDE DEF i
      <4> QED
        BY <1>10, <4>1
    <3> QED
      BY <3>1, <3>2
  <2>3. ASSUME NEW k \in new, NEW l \in new, grown[k] = grown[l] PROVE k = l
    <3>1. k - len = l - len
      BY <1>11, <2>3
    <3> QED
      BY <1>4, <3>1 DEF new
  <2> QED
    BY <1>8, <2>1, <2>2, <2>3
<1>14. \A h \in Healthy' : \E k \in Live' : grown[k] = h
  <2> HIDE DEF grown
  <2>1. ASSUME NEW h \in Healthy PROVE \E k \in Live' : grown[k] = h
    BY <1>1, <1>8, <1>11 DEF Placed
  <2>2. ASSUME NEW i \in 1..n PROVE \E k \in Live' : grown[k] = <<f, i>>
    <3>1. len + i \in new /\ (len + i) - len = i
      BY <1>4 DEF new
    <3> QED
      BY <1>8, <1>11, <3>1
  <2>3. ASSUME NEW h \in Healthy', h \notin Healthy PROVE \E k \in Live' : grown[k] = h
    <3>1. PICK i \in 1..n : h = <<f, i>>
      BY <1>9, <2>3
    <3> QED
      BY <2>2, <3>1
  <2> QED
    BY <2>1, <2>3
<1>15. \A k \in Live' : kernel_rules'[k] = TermAt(grown[k])
  <2> HIDE DEF grown
  <2>1. ASSUME NEW k \in Live PROVE kernel_rules'[k] = TermAt(grown[k])
    BY <1>1, <1>4, <1>11 DEF Placed
  <2>2. ASSUME NEW k \in new PROVE kernel_rules'[k] = TermAt(grown[k])
    BY <1>6, <1>11 DEF TermAt
  <2> QED
    BY <1>8, <2>1, <2>2
<1>16. \E p \in [Live' -> Healthy'] : Placed(p, kernel_rules', Live', Healthy')
  <2> HIDE DEF grown
  <2> QED
    BY <1>12, <1>13, <1>14, <1>15 DEF Placed
<1>17. permissive_mask' \cap PushableTypes = FaultyTypes' \cap PushableTypes
  BY <1>2 DEF Exact
<1> QED
  BY <1>16, <1>17 DEF Exact, Placed, TermAt

\* A file of a type that is open already, or of none, changes neither side.
LEMMA LoadOnlyExact ==
    ASSUME Exact, NEW f \in Files, AlwaysPermissive \subseteq permissive_mask,
           outcome[f].type \in permissive_mask \cup {0},
           outcome' = outcome, sigma_rules' = sigma_rules \cup {f},
           permissive_mask' = permissive_mask, kernel_rules' = kernel_rules
    PROVE  Exact'
<1>1. FaultyTypes' \cap PushableTypes = FaultyTypes \cap PushableTypes
  <2>1. outcome[f].type \in PushableTypes => outcome[f].type \in FaultyTypes
    BY DEF Exact, PushableTypes, ET_EXECVE, ET_FILE, ET_LSM
  <2> QED
    BY <2>1, FaultyGrows
<1>2. Healthy' = Healthy
  <2>1. \A h : h \in Healthy' <=>
            \E g \in sigma_rules \cup {f} : \E i \in DOMAIN outcome[g].terms :
                h = <<g, i>> /\ outcome[g].type \in PushableTypes \ FaultyTypes'
    <3>1. HealthyMeaning'
      BY HealthyIff, PTL
    <3> QED
      BY <3>1 DEF HealthyMeaning
  <2>2. outcome[f].type \notin PushableTypes \ FaultyTypes
    BY DEF Exact, PushableTypes, ET_EXECVE, ET_FILE, ET_LSM
  <2>3. \A h : h \in Healthy' <=> h \in Healthy
    BY <1>1, <2>1, <2>2, HealthyIff DEF HealthyMeaning
  <2>4. Healthy' \subseteq Healthy /\ Healthy \subseteq Healthy'
    BY <2>3
  <2> QED
    BY <2>4
<1>3. Live' = Live
  BY DEF Live, LiveAt
<1> QED
  BY <1>1, <1>2, <1>3 DEF Exact, Placed, TermAt

\* Nothing that Exact speaks of changes.
LEMMA SameExact ==
    ASSUME Exact, UNCHANGED <<outcome, sigma_rules, kernel_rules, permissive_mask>>
    PROVE  Exact' /\ Healthy' = Healthy
<1>1. FaultyTypes' = FaultyTypes /\ Healthy' = Healthy /\ Live' = Live
  BY DEF FaultyTypes, Healthy, HealthyTerms, Live, LiveAt
<1> QED
  BY <1>1 DEF Exact, Placed, TermAt

\* One position per healthy term.
LEMMA ExactCounts ==
    ASSUME IInv, Exact, phase # "reading"
    PROVE  /\ Live = DOMAIN kernel_rules
           /\ Cardinality(DOMAIN kernel_rules) = Cardinality(Healthy)
<1>1. PICK place \in [Live -> Healthy] : Placed(place, kernel_rules, Live, Healthy)
  BY DEF Exact
<1>2. Live = DOMAIN kernel_rules
  BY DEF IInv, OnlyLiveRules, Live, LiveAt
<1>3. place \in Bijection(Live, Healthy)
  BY <1>1 DEF Placed, Bijection, Injection, Surjection, IsInjective
<1>4. ExistsBijection(Live, Healthy) /\ IsFiniteSet(Live)
  BY <1>2, <1>3 DEF ExistsBijection, IInv, TypeOK
<1> QED
  BY <1>2, <1>4, FS_Bijection

LEMMA OrderInitial == Init => OrderInv
<1> SUFFICES ASSUME Init PROVE OrderInv
  OBVIOUS
<1>1. IInv
  BY InitIInv
<1>2. sigma_rules = {} /\ kernel_rules = <<>> /\ permissive_mask = AlwaysPermissive
  BY DEF Init
<1>3. FaultyTypes = {} /\ Healthy = {} /\ Live = {}
  BY <1>2, FaultyIff, HealthyIff DEF HealthyMeaning, Live, LiveAt
<1>4. permissive_mask \cap PushableTypes = {}
  BY <1>2 DEF AlwaysPermissive, PushableTypes, ET_EXECVE, ET_FILE, ET_LSM,
              ET_MODULE, ET_NETWORK
<1>5. \E place \in [Live -> Healthy] : Placed(place, kernel_rules, Live, Healthy)
  <2>1. [k \in {} |-> 0] \in [Live -> Healthy]
    BY <1>3
  <2> QED
    BY <1>3, <2>1 DEF Placed
<1> QED
  BY <1>1, <1>2, <1>3, <1>4, <1>5 DEF OrderInv, Exact

\* What a file with an event type that is not open yet brings.
LEMMA FileFacts ==
    ASSUME IInv, phase = "reading", NEW f \in Files,
           outcome[f].type \notin permissive_mask \cup {0}
    PROVE  /\ outcome[f].type \in EventTypes \ permissive_mask
           /\ kernel_rules \in Seq(Rule)
           /\ Len(outcome[f].terms) \in Nat
           /\ DOMAIN outcome[f].terms = 1..Len(outcome[f].terms)
<1>1. outcome[f] \in OutcomeType
  BY EngineAssumption DEF IInv, TypeOK, EngineAssumption
<1>2. outcome[f].terms \in Seq([term : Term, fits : BOOLEAN])
  BY <1>1 DEF OutcomeType
<1> QED
  BY <1>1, <1>2 DEF IInv, OutcomeType, EventTypes

\* One step per action of Engine::new.
LEMMA OrderStep == OrderInv /\ [Next]_vars => OrderInv'
<1> SUFFICES ASSUME OrderInv, [Next]_vars PROVE OrderInv'
  OBVIOUS
<1>0. IInv /\ IInv' /\ AlwaysPermissive \subseteq permissive_mask
  BY NextIInv DEF OrderInv, IInv
<1>1. ASSUME NEW f \in Files, SkipEntry(f) PROVE OrderInv'
  <2>1. Exact' /\ Healthy' = Healthy
    BY <1>1, SameExact DEF SkipEntry, NextEntry, OrderInv
  <2> QED
    BY <1>0, <1>1, <2>1 DEF SkipEntry, NextEntry, OrderInv
<1>2. ASSUME NEW f \in Files, LoadOnly(f) PROVE OrderInv'
  <2>1. Exact'
    BY <1>0, <1>2, LoadOnlyExact DEF LoadOnly, NextEntry, Load, OrderInv
  <2> QED
    BY <1>0, <1>2, <2>1 DEF LoadOnly, NextEntry, Load, OrderInv
<1>3. ASSUME NEW f \in Files, FailOpen(f) PROVE OrderInv'
  <2>1. /\ phase = "reading" /\ Exact /\ outcome' = outcome /\ Faulty(f)
        /\ sigma_rules' = sigma_rules \cup {f} /\ kernel_rules' = kernel_rules
        /\ permissive_mask' = permissive_mask \cup {outcome[f].type}
    BY <1>3 DEF FailOpen, NextEntry, Load, MakePermissive, OrderInv, Faulty
  <2>2. outcome[f].type \in EventTypes \ permissive_mask
    BY <1>0, <1>3, <2>1, FileFacts DEF FailOpen
  <2>3. Exact'
    BY <1>0, <2>1, <2>2, FailOpenExact
  <2> QED
    BY <1>0, <1>3, <2>1, <2>3 DEF FailOpen, NextEntry, OrderInv
<1>4. ASSUME NEW f \in Files, PushTerms(f) PROVE OrderInv'
  <2> DEFINE n == Len(outcome[f].terms)
  <2>1. /\ phase = "reading" /\ Exact /\ outcome' = outcome /\ ~Faulty(f)
        /\ f \notin sigma_rules
        /\ sigma_rules' = sigma_rules \cup {f} /\ permissive_mask' = permissive_mask
        /\ kernel_rules' = kernel_rules \o Lowered(f, n)
    BY <1>4 DEF PushTerms, NextEntry, Load, OrderInv, Faulty
  <2>2. /\ outcome[f].type \in EventTypes \ permissive_mask
        /\ kernel_rules \in Seq(Rule) /\ n \in Nat /\ DOMAIN outcome[f].terms = 1..n
    BY <1>0, <1>4, <2>1, FileFacts DEF PushTerms
  <2> HIDE DEF n
  <2>3. /\ kernel_rules' \in Seq(Rule) /\ Len(kernel_rules') = Len(kernel_rules) + n
        /\ \A k \in DOMAIN kernel_rules : kernel_rules'[k] = kernel_rules[k]
        /\ \A i \in 1..n : kernel_rules'[Len(kernel_rules) + i] =
               [type |-> outcome[f].type, term |-> outcome[f].terms[i].term]
    <3>1. n <= Len(outcome[f].terms)
      BY <2>2 DEF n
    <3> QED
      BY <1>0, <2>1, <2>2, <3>1, PushProperties DEF IInv
  <2>4. Exact'
    BY <1>0, <2>1, <2>2, <2>3, PushExact
  <2> QED
    BY <1>0, <1>4, <2>1, <2>4 DEF PushTerms, NextEntry, OrderInv
<1>5. ASSUME NEW f \in Files, PushUntilTooLong(f) PROVE OrderInv'
  <2>1. PICK k \in DOMAIN outcome[f].terms :
            ~outcome[f].terms[k].fits /\ kernel_rules' = kernel_rules \o Lowered(f, k - 1)
    BY <1>5 DEF PushUntilTooLong
  <2>2. /\ phase = "reading" /\ Exact /\ outcome' = outcome /\ Faulty(f)
        /\ sigma_rules' = sigma_rules \cup {f}
        /\ permissive_mask' = permissive_mask \cup {outcome[f].type}
    BY <1>5, <2>1 DEF PushUntilTooLong, NextEntry, Load, MakePermissive, OrderInv, Faulty
  <2>3. /\ outcome[f].type \in EventTypes \ permissive_mask
        /\ kernel_rules \in Seq(Rule)
        /\ k - 1 \in Nat /\ k - 1 <= Len(outcome[f].terms)
    BY <1>0, <1>5, <2>1, <2>2, FileFacts DEF PushUntilTooLong
  <2> DEFINE m == k - 1
  <2> HIDE DEF m
  <2>4. /\ kernel_rules' \in Seq(Rule) /\ Len(kernel_rules') = Len(kernel_rules) + m
        /\ \A i \in DOMAIN kernel_rules : i \in DOMAIN kernel_rules'
                                          /\ kernel_rules'[i] = kernel_rules[i]
        /\ \A i \in 1..m : kernel_rules'[Len(kernel_rules) + i] =
               [type |-> outcome[f].type, term |-> outcome[f].terms[i].term]
    BY <1>0, <2>1, <2>3, PushProperties DEF IInv, m
  <2>5. ASSUME NEW i \in DOMAIN kernel_rules' \ DOMAIN kernel_rules
        PROVE  kernel_rules'[i].type = outcome[f].type
    <3> DEFINE j == i - Len(kernel_rules)
    <3>1. j \in 1..m /\ i = Len(kernel_rules) + j
      <4>1. /\ Len(kernel_rules) \in Nat /\ m \in Nat
            /\ DOMAIN kernel_rules = 1..Len(kernel_rules)
            /\ DOMAIN kernel_rules' = 1..(Len(kernel_rules) + m)
        BY <2>3, <2>4 DEF m
      <4> QED
        BY <2>5, <4>1
    <3> HIDE DEF j
    <3>2. kernel_rules'[i] = [type |-> outcome[f].type, term |-> outcome[f].terms[j].term]
      BY <2>4, <3>1
    <3> QED
      BY <3>2
  <2>6. Exact'
    BY <1>0, <2>2, <2>3, <2>4, <2>5, FailOpenExact
  <2> QED
    BY <1>0, <1>5, <2>2, <2>6 DEF PushUntilTooLong, NextEntry, OrderInv
<1>6. CASE NoDirectory
  <2>1. Exact' /\ Healthy' = Healthy
    BY <1>6, SameExact DEF NoDirectory, OrderInv
  <2> QED
    BY <1>0, <1>6, <2>1 DEF NoDirectory, OrderInv
<1>7. CASE Retain
  <2>1. /\ Exact /\ phase' = "fitting"
        /\ UNCHANGED <<outcome, remaining, sigma_rules, permissive_mask>>
        /\ kernel_rules' = Restrict(kernel_rules, Live)
    BY <1>7 DEF Retain, OrderInv, Live
  <2>2. /\ FaultyTypes' = FaultyTypes /\ Healthy' = Healthy
    BY <2>1 DEF FaultyTypes, Healthy, HealthyTerms
  <2>3. DOMAIN kernel_rules' = Live /\ \A k \in Live : kernel_rules'[k] = kernel_rules[k]
    BY <2>1 DEF Restrict
  <2>4. Live' = Live
    BY <2>1, <2>3 DEF Live, LiveAt
  <2>5. PICK place \in [Live -> Healthy] : Placed(place, kernel_rules, Live, Healthy)
    BY <2>1 DEF Exact
  <2>6. Placed(place, kernel_rules', Live, Healthy)
    BY <2>3, <2>5 DEF Placed
  <2>7. Exact'
    BY <2>1, <2>2, <2>4, <2>6 DEF Exact, Placed, TermAt
  <2> QED
    BY <1>0, <2>1, <2>7 DEF OrderInv
<1>8. CASE Fits
  <2>1. Exact' /\ Healthy' = Healthy
    BY <1>8, SameExact DEF Fits, OrderInv
  <2> QED
    BY <1>0, <1>8, <2>1 DEF Fits, OrderInv
\* What overflows did not fit.
<1>9. CASE Overflow
  <2>1. /\ Exact /\ phase = "fitting" /\ phase' = "ready"
        /\ UNCHANGED <<outcome, remaining, sigma_rules>>
        /\ Cardinality(DOMAIN kernel_rules) > MAX_KERNEL_RULES
    BY <1>9 DEF Overflow, OrderInv
  <2>2. Healthy' = Healthy
    BY <2>1 DEF FaultyTypes, Healthy, HealthyTerms
  <2>3. Cardinality(DOMAIN kernel_rules) = Cardinality(Healthy)
    BY <1>0, <2>1, ExactCounts
  <2>4. Cardinality(DOMAIN kernel_rules) \in Nat /\ MAX_KERNEL_RULES \in Nat
    BY <1>0, FS_CardinalityType, EngineAssumption DEF IInv, TypeOK, EngineAssumption
  <2>5. ~(Cardinality(Healthy') <= MAX_KERNEL_RULES)
    BY <2>1, <2>2, <2>3, <2>4
  <2> QED
    BY <1>0, <2>1, <2>5 DEF OrderInv
<1>10. CASE UNCHANGED vars
  <2>1. UNCHANGED <<outcome, sigma_rules, kernel_rules, permissive_mask>>
        /\ phase' = phase /\ remaining' = remaining
    BY <1>10 DEF vars
  <2>2. Healthy' = Healthy
    BY <2>1 DEF FaultyTypes, Healthy, HealthyTerms
  <2>3. Exact => Exact'
    BY <2>1, SameExact
  <2> QED
    BY <1>0, <2>1, <2>2, <2>3 DEF OrderInv
<1> QED
  BY <1>1, <1>2, <1>3, <1>4, <1>5, <1>6, <1>7, <1>8, <1>9, <1>10 DEF Next

(***************************************************************************)
(* For every directory, every order in which it is read and every budget:  *)
(* what can be filtered and fits is filtered, all of it and nothing else.  *)
(***************************************************************************)
THEOREM OrderTheorem == Spec => []OrderIrrelevantWithinBudget
<1>1. ASSUME OrderInv PROVE OrderIrrelevantWithinBudget
  <2> SUFFICES ASSUME phase = "ready", Cardinality(Healthy) <= MAX_KERNEL_RULES
               PROVE  /\ permissive_mask \cap PushableTypes = FaultyTypes \cap PushableTypes
                      /\ Cardinality(DOMAIN kernel_rules) = Cardinality(Healthy)
                      /\ {kernel_rules[k] : k \in DOMAIN kernel_rules} =
                             {TermAt(h) : h \in Healthy}
    BY DEF OrderIrrelevantWithinBudget, Healthy, TermAt
  <2>1. IInv /\ Exact
    BY <1>1 DEF OrderInv
  <2>2. Live = DOMAIN kernel_rules
        /\ Cardinality(DOMAIN kernel_rules) = Cardinality(Healthy)
    BY <2>1, ExactCounts
  <2>3. PICK place \in [Live -> Healthy] : Placed(place, kernel_rules, Live, Healthy)
    BY <2>1 DEF Exact
  <2>4. {kernel_rules[k] : k \in Live} = {TermAt(h) : h \in Healthy}
    <3>1. \A k \in Live : place[k] \in Healthy /\ kernel_rules[k] = TermAt(place[k])
      BY <2>3 DEF Placed
    <3>2. \A h \in Healthy : \E k \in Live : kernel_rules[k] = TermAt(h)
      BY <2>3, <3>1 DEF Placed
    <3> QED
      BY <3>1, <3>2
  <2> QED
    BY <2>1, <2>2, <2>4 DEF Exact
<1> QED
  BY <1>1, OrderInitial, OrderStep, PTL DEF Spec

-----------------------------------------------------------------------------
\* Where the rules of the Vec come from: each is a term of a file that is loaded.
OriginKnown ==
    \A k \in DOMAIN kernel_rules : \E f \in sigma_rules :
        /\ ~outcome[f].blocked
        /\ \E i \in DOMAIN outcome[f].terms :
              kernel_rules[k] = [type |-> outcome[f].type,
                                 term |-> outcome[f].terms[i].term]

\* The rules that a file pushes come from it.
LEMMA OriginGrows ==
    ASSUME IInv, OriginKnown, phase = "reading", NEW f \in Files, NEW m \in Nat,
           outcome[f].type \notin permissive_mask \cup {0}, ~outcome[f].blocked,
           m <= Len(outcome[f].terms),
           outcome' = outcome, sigma_rules' = sigma_rules \cup {f},
           kernel_rules' = kernel_rules \o Lowered(f, m)
    PROVE  OriginKnown'
<1>1. /\ outcome[f].type \in EventTypes /\ kernel_rules \in Seq(Rule)
      /\ Len(outcome[f].terms) \in Nat
      /\ DOMAIN outcome[f].terms = 1..Len(outcome[f].terms)
  BY FileFacts
<1>2. /\ kernel_rules' \in Seq(Rule) /\ Len(kernel_rules') = Len(kernel_rules) + m
      /\ \A k \in DOMAIN kernel_rules : kernel_rules'[k] = kernel_rules[k]
      /\ \A i \in 1..m : kernel_rules'[Len(kernel_rules) + i] =
             [type |-> outcome[f].type, term |-> outcome[f].terms[i].term]
  BY <1>1, PushProperties DEF IInv
<1>3. /\ DOMAIN kernel_rules = 1..Len(kernel_rules) /\ Len(kernel_rules) \in Nat
      /\ DOMAIN kernel_rules' = 1..(Len(kernel_rules) + m)
  BY <1>1, <1>2
<1>4. ASSUME NEW k \in DOMAIN kernel_rules'
      PROVE  \E g \in sigma_rules' :
                /\ ~outcome'[g].blocked
                /\ \E i \in DOMAIN outcome'[g].terms :
                      kernel_rules'[k] = [type |-> outcome'[g].type,
                                          term |-> outcome'[g].terms[i].term]
  <2>1. CASE k \in DOMAIN kernel_rules
    <3>1. PICK g \in sigma_rules :
              /\ ~outcome[g].blocked
              /\ \E i \in DOMAIN outcome[g].terms :
                    kernel_rules[k] = [type |-> outcome[g].type,
                                       term |-> outcome[g].terms[i].term]
      BY <2>1 DEF OriginKnown
    <3>2. kernel_rules'[k] = kernel_rules[k] /\ g \in sigma_rules' /\ outcome'[g] = outcome[g]
      BY <1>2, <2>1
    <3> QED
      BY <3>1, <3>2
  <2>2. CASE k \notin DOMAIN kernel_rules
    <3>1. PICK i \in 1..m : k = Len(kernel_rules) + i
      <4>1. /\ k \in 1..(Len(kernel_rules) + m) /\ k \notin 1..Len(kernel_rules)
            /\ Len(kernel_rules) \in Nat /\ m \in Nat
        BY <1>3, <2>2
      <4> DEFINE i == k - Len(kernel_rules)
      <4>2. i \in 1..m /\ k = Len(kernel_rules) + i
        BY <4>1
      <4> QED
        BY <4>2
    <3>2. i \in DOMAIN outcome[f].terms
      BY <1>1
    <3>3. kernel_rules'[k] = [type |-> outcome[f].type, term |-> outcome[f].terms[i].term]
      BY <1>2, <3>1
    <3>4. f \in sigma_rules' /\ outcome'[f] = outcome[f]
      OBVIOUS
    <3> QED
      BY <3>2, <3>3, <3>4
  <2> QED
    BY <2>1, <2>2
<1> QED
  BY <1>4 DEF OriginKnown

\* A Vec that only loses rules, beside a Sigma engine that only gains files.
LEMMA OriginKept ==
    ASSUME OriginKnown, outcome' = outcome, sigma_rules \subseteq sigma_rules',
           DOMAIN kernel_rules' \subseteq DOMAIN kernel_rules,
           \A k \in DOMAIN kernel_rules' : kernel_rules'[k] = kernel_rules[k]
    PROVE  OriginKnown'
BY DEF OriginKnown

LEMMA OriginInitial == Init => OriginKnown
BY DEF Init, OriginKnown

\* One step per action of Engine::new.
LEMMA OriginStep == IInv /\ OriginKnown /\ [Next]_vars => OriginKnown'
<1> SUFFICES ASSUME IInv, OriginKnown, [Next]_vars PROVE OriginKnown'
  OBVIOUS
<1>1. ASSUME NEW f \in Files, SkipEntry(f) \/ LoadOnly(f) \/ FailOpen(f)
      PROVE  OriginKnown'
  <2>1. outcome' = outcome /\ sigma_rules \subseteq sigma_rules' /\ kernel_rules' = kernel_rules
    BY <1>1 DEF SkipEntry, LoadOnly, FailOpen, NextEntry, Load
  <2> QED
    BY <2>1, OriginKept
<1>2. ASSUME NEW f \in Files, PushTerms(f) PROVE OriginKnown'
  <2>1. /\ phase = "reading" /\ outcome' = outcome /\ sigma_rules' = sigma_rules \cup {f}
        /\ outcome[f].type \notin permissive_mask \cup {0} /\ ~outcome[f].blocked
        /\ kernel_rules' = kernel_rules \o Lowered(f, Len(outcome[f].terms))
    BY <1>2 DEF PushTerms, NextEntry, Load
  <2>2. Len(outcome[f].terms) \in Nat
    BY <2>1, FileFacts
  <2>3. Len(outcome[f].terms) <= Len(outcome[f].terms)
    BY <2>2
  <2> QED
    BY <2>1, <2>2, <2>3, OriginGrows
<1>3. ASSUME NEW f \in Files, PushUntilTooLong(f) PROVE OriginKnown'
  <2>1. PICK k \in DOMAIN outcome[f].terms :
            kernel_rules' = kernel_rules \o Lowered(f, k - 1)
    BY <1>3 DEF PushUntilTooLong
  <2>2. /\ phase = "reading" /\ outcome' = outcome /\ sigma_rules' = sigma_rules \cup {f}
        /\ outcome[f].type \notin permissive_mask \cup {0} /\ ~outcome[f].blocked
    BY <1>3 DEF PushUntilTooLong, NextEntry, Load
  <2>3. k - 1 \in Nat /\ k - 1 <= Len(outcome[f].terms)
    BY <2>1, <2>2, FileFacts
  <2> QED
    BY <2>1, <2>2, <2>3, OriginGrows
<1>4. CASE NoDirectory \/ Fits \/ UNCHANGED vars
  <2>1. outcome' = outcome /\ sigma_rules' = sigma_rules /\ kernel_rules' = kernel_rules
    BY <1>4 DEF NoDirectory, Fits, vars
  <2> QED
    BY <2>1, OriginKept
<1>5. CASE Retain
  <2>1. /\ outcome' = outcome /\ sigma_rules' = sigma_rules
        /\ DOMAIN kernel_rules' \subseteq DOMAIN kernel_rules
        /\ \A k \in DOMAIN kernel_rules' : kernel_rules'[k] = kernel_rules[k]
    BY <1>5 DEF Retain, Restrict, LiveAt
  <2> QED
    BY <2>1, OriginKept
<1>6. CASE Overflow
  <2>1. /\ outcome' = outcome /\ sigma_rules' = sigma_rules
        /\ DOMAIN kernel_rules' \subseteq DOMAIN kernel_rules
        /\ \A k \in DOMAIN kernel_rules' : kernel_rules'[k] = kernel_rules[k]
    BY <1>6 DEF Overflow, Restrict, LiveAt
  <2> QED
    BY <2>1, OriginKept
<1> QED
  BY <1>1, <1>2, <1>3, <1>4, <1>5, <1>6 DEF Next
=============================================================================
