----------------------------- MODULE RuleEngine -----------------------------
(***************************************************************************)
(* Engine::new (agent/engine.rs): the rules directory is read once, file   *)
(* by file, in the order the file system yields them; each file goes to    *)
(* the Sigma engine and, when it can be lowered, to the kernel rule set;   *)
(* what cannot be filtered turns its event type permissive.  The reading   *)
(* of one file is one step: nothing else runs beside it.                   *)
(***************************************************************************)
EXTENDS XdrCommon, FiniteSets, Functions

CONSTANTS
    Files,            \* the entries of the rules directory
    Term,             \* lowered patterns
    Outcome,          \* what one file can come to, see OutcomeType
    MAX_KERNEL_RULES  \* the kernel's rule budget

(***************************************************************************)
(* What reading one file comes to: load - the file has the extension, is   *)
(* readable and the Sigma engine takes it; type - its event type, 0 when   *)
(* it has none or does not parse a second time; blocked - extract_pushdown *)
(* gave a permissive_reason; terms - what it extracted otherwise, and for  *)
(* each term whether lower_term finds room for its pattern.                *)
(***************************************************************************)
OutcomeType == [load : BOOLEAN, type : 0..5, blocked : BOOLEAN,
                terms : Seq([term : Term, fits : BOOLEAN])]

ASSUME EngineAssumption ==
    /\ IsFiniteSet(Files)
    /\ Outcome \subseteq OutcomeType
    /\ MAX_KERNEL_RULES \in Nat

VARIABLES
    outcome,          \* the directory's contents: what each file comes to
    phase,            \* "reading", "fitting", "ready"
    remaining,        \* directory entries not yet read
    sigma_rules,      \* files loaded in the Sigma engine
    kernel_rules,     \* the Vec of lowered rules, by position
    permissive_mask,  \* event types that fail open
    permissive_notes  \* number of notes that explain each pushable type

vars == <<outcome, phase, remaining, sigma_rules, kernel_rules,
          permissive_mask, permissive_notes>>

Rule == [type : EventTypes, term : Term]

\* The rules one file contributes: its terms up to the k-th.
Lowered(f, k) == [i \in 1..k |-> [type |-> outcome[f].type,
                                  term |-> outcome[f].terms[i].term]]

LiveAt(rules, mask) == {i \in DOMAIN rules : rules[i].type \notin mask}
Rank(rules, i)      == Cardinality({j \in DOMAIN rules : j < i})

Init ==
    /\ outcome \in [Files -> Outcome]
    /\ phase = "reading"
    /\ remaining = Files
    /\ sigma_rules = {}
    /\ kernel_rules = <<>>
    /\ permissive_mask = AlwaysPermissive
    /\ permissive_notes = [t \in PushableTypes |-> 0]

\* Mutated: an overflowing type that failed open before is noted once more.
MakePermissiveTwice(types) ==
    /\ permissive_mask' = permissive_mask \cup types
    /\ permissive_notes' = [t \in PushableTypes |->
            permissive_notes[t] + (IF t \in permissive_mask' THEN 1 ELSE 0)]

\* permissive_mask |= 1 << t, with the note that says why.
MakePermissive(types) ==
    /\ permissive_mask' = permissive_mask \cup types
    /\ permissive_notes' = [t \in PushableTypes |->
            permissive_notes[t] + (IF t \in types THEN 1 ELSE 0)]

NextEntry(f) ==
    /\ phase = "reading"
    /\ f \in remaining
    /\ remaining' = remaining \ {f}
    /\ UNCHANGED <<outcome, phase>>

Load(f) ==
    /\ outcome[f].load
    /\ sigma_rules' = sigma_rules \cup {f}

\* read_dir fails: the agent starts with no rule at all.
NoDirectory ==
    /\ phase = "reading" /\ remaining = Files /\ remaining # {}
    /\ remaining' = {}
    /\ UNCHANGED <<outcome, phase, sigma_rules, kernel_rules,
                   permissive_mask, permissive_notes>>

SkipEntry(f) ==
    /\ NextEntry(f)
    /\ ~outcome[f].load
    /\ UNCHANGED <<sigma_rules, kernel_rules, permissive_mask, permissive_notes>>

\* No event type, or one that fails open already: nothing to lower.
LoadOnly(f) ==
    /\ NextEntry(f)
    /\ Load(f)
    /\ outcome[f].type \in permissive_mask \cup {0}
    /\ UNCHANGED <<kernel_rules, permissive_mask, permissive_notes>>

FailOpen(f) ==
    /\ NextEntry(f)
    /\ Load(f)
    /\ outcome[f].type \notin permissive_mask \cup {0}
    /\ outcome[f].blocked
    /\ MakePermissive({outcome[f].type})
    /\ UNCHANGED kernel_rules

\* Mutated: a rule without an event type is lowered as one of type 0, any event.
PushTermsOfAnyType(f) ==
    /\ NextEntry(f)
    /\ Load(f)
    /\ outcome[f].type \notin permissive_mask
    /\ ~outcome[f].blocked
    /\ \A i \in DOMAIN outcome[f].terms : outcome[f].terms[i].fits
    /\ kernel_rules' = kernel_rules \o Lowered(f, Len(outcome[f].terms))
    /\ UNCHANGED <<permissive_mask, permissive_notes>>

PushTerms(f) ==
    /\ NextEntry(f)
    /\ Load(f)
    /\ outcome[f].type \notin permissive_mask \cup {0}
    /\ ~outcome[f].blocked
    /\ \A i \in DOMAIN outcome[f].terms : outcome[f].terms[i].fits
    /\ kernel_rules' = kernel_rules \o Lowered(f, Len(outcome[f].terms))
    /\ UNCHANGED <<permissive_mask, permissive_notes>>

\* Mutated: the pattern that is too long is left out, its type stays filtered.
PushUntilTooLongSilently(f) ==
    /\ NextEntry(f)
    /\ Load(f)
    /\ outcome[f].type \notin permissive_mask \cup {0}
    /\ ~outcome[f].blocked
    /\ \E k \in DOMAIN outcome[f].terms :
          /\ ~outcome[f].terms[k].fits
          /\ \A i \in 1..k-1 : outcome[f].terms[i].fits
          /\ kernel_rules' = kernel_rules \o Lowered(f, k - 1)
    /\ UNCHANGED <<permissive_mask, permissive_notes>>

\* The k-th pattern is too long: the ones before it are already pushed.
PushUntilTooLong(f) ==
    /\ NextEntry(f)
    /\ Load(f)
    /\ outcome[f].type \notin permissive_mask \cup {0}
    /\ ~outcome[f].blocked
    /\ \E k \in DOMAIN outcome[f].terms :
          /\ ~outcome[f].terms[k].fits
          /\ \A i \in 1..k-1 : outcome[f].terms[i].fits
          /\ kernel_rules' = kernel_rules \o Lowered(f, k - 1)
    /\ MakePermissive({outcome[f].type})

\* Mutated: the budget is measured first, doomed rules included.
RetainNothing ==
    /\ phase = "reading" /\ remaining = {}
    /\ phase' = "fitting"
    /\ UNCHANGED <<outcome, remaining, sigma_rules, kernel_rules,
                   permissive_mask, permissive_notes>>

\* The rules of types that fail open leave before the budget is measured.
Retain ==
    /\ phase = "reading" /\ remaining = {}
    /\ phase' = "fitting"
    /\ kernel_rules' = Restrict(kernel_rules, LiveAt(kernel_rules, permissive_mask))
    /\ UNCHANGED <<outcome, remaining, sigma_rules, permissive_mask, permissive_notes>>

\* Mutated: one rule more than the kernel loop visits is kept.
EvictedOffByOne(rules) == {i \in DOMAIN rules : Rank(rules, i) > MAX_KERNEL_RULES}

\* The Vec is cut at the budget.
Evicted(rules) == {i \in DOMAIN rules : Rank(rules, i) >= MAX_KERNEL_RULES}

Fits ==
    /\ phase = "fitting"
    /\ Cardinality(DOMAIN kernel_rules) <= MAX_KERNEL_RULES
    /\ phase' = "ready"
    /\ UNCHANGED <<outcome, remaining, sigma_rules, kernel_rules,
                   permissive_mask, permissive_notes>>

\* Mutated: a type that overflowed keeps the rules that made it.
OverflowKeepingRules ==
    /\ phase = "fitting"
    /\ Cardinality(DOMAIN kernel_rules) > MAX_KERNEL_RULES
    /\ phase' = "ready"
    /\ MakePermissive({kernel_rules[i].type : i \in Evicted(kernel_rules)})
    /\ kernel_rules' = Restrict(kernel_rules, DOMAIN kernel_rules \ Evicted(kernel_rules))
    /\ UNCHANGED <<outcome, remaining, sigma_rules>>

\* Every type that loses a rule fails open, and gives up the rules it kept.
Overflow ==
    /\ phase = "fitting"
    /\ Cardinality(DOMAIN kernel_rules) > MAX_KERNEL_RULES
    /\ phase' = "ready"
    /\ LET lost == {kernel_rules[i].type : i \in Evicted(kernel_rules)}
       IN  /\ MakePermissive(lost)
           /\ kernel_rules' = Restrict(kernel_rules,
                 LiveAt(kernel_rules, permissive_mask \cup lost) \ Evicted(kernel_rules))
    /\ UNCHANGED <<outcome, remaining, sigma_rules>>

Next ==
    \/ \E f \in Files : \/ SkipEntry(f) \/ LoadOnly(f) \/ FailOpen(f)
                        \/ PushTerms(f) \/ PushUntilTooLong(f)
    \/ NoDirectory \/ Retain \/ Fits \/ Overflow

Spec == Init /\ [][Next]_vars

-----------------------------------------------------------------------------
\* Every variable stays in its type.
TypeOK ==
    /\ outcome \in [Files -> Outcome]
    /\ phase \in {"reading", "fitting", "ready"}
    /\ remaining \subseteq Files /\ sigma_rules \subseteq Files
    /\ DOMAIN kernel_rules \subseteq Nat \ {0} /\ IsFiniteSet(DOMAIN kernel_rules)
    /\ \A i \in DOMAIN kernel_rules : kernel_rules[i] \in Rule
    /\ permissive_mask \subseteq EventTypes
    /\ permissive_notes \in [PushableTypes -> Nat]

(***************************************************************************)
(* The rule set fits the loop bound the kernel evaluates, and no rule of   *)
(* it is wasted on a type that is never filtered: add_kernel_rules accepts *)
(* what Engine::new returns, whatever overflowed on the way.               *)
(***************************************************************************)
BudgetRespected ==
    phase = "ready" =>
        /\ Cardinality(DOMAIN kernel_rules) <= MAX_KERNEL_RULES
        /\ \A i \in DOMAIN kernel_rules : kernel_rules[i].type \notin permissive_mask

(***************************************************************************)
(* No loaded rule is silently narrowed: a type the kernel filters has every*)
(* term of every Sigma rule of that type among the kernel rules.  The cut  *)
(* at the budget, a pattern that is too long after others were pushed, and *)
(* a type that fails open half way through the directory must all end in   *)
(* the permissive bit.                                                     *)
(***************************************************************************)
EveryTermCovered ==
    phase = "ready" =>
        \A f \in sigma_rules :
            outcome[f].type \in EventTypes \ permissive_mask =>
                /\ ~outcome[f].blocked
                /\ \A i \in DOMAIN outcome[f].terms :
                      \E k \in DOMAIN kernel_rules :
                          kernel_rules[k] = [type |-> outcome[f].type,
                                             term |-> outcome[f].terms[i].term]

(***************************************************************************)
(* The startup report explains each filterable type that fails open once,  *)
(* and no type that is filtered, however many of its files are at fault.   *)
(***************************************************************************)
OneNotePerPermissiveType ==
    \A t \in PushableTypes :
        permissive_notes[t] = IF t \in permissive_mask THEN 1 ELSE 0

\* The files of a type that cannot be lowered, and the terms of the others.
FaultyTypes ==
    {outcome[f].type : f \in {g \in sigma_rules :
        \/ outcome[g].blocked
        \/ \E i \in DOMAIN outcome[g].terms : ~outcome[g].terms[i].fits}}
HealthyTerms(types) ==
    UNION {{<<f, i>> : i \in DOMAIN outcome[f].terms} :
           f \in {g \in sigma_rules : outcome[g].type \in types \ FaultyTypes}}

(***************************************************************************)
(* When what can be filtered fits the budget, the order in which read_dir  *)
(* yields the files changes nothing: exactly the faulty types fail open and*)
(* the kernel gets exactly the terms of the healthy ones.                  *)
(***************************************************************************)
OrderIrrelevantWithinBudget ==
    LET healthy == HealthyTerms(PushableTypes)
    IN  phase = "ready" /\ Cardinality(healthy) <= MAX_KERNEL_RULES =>
            /\ permissive_mask \cap PushableTypes = FaultyTypes \cap PushableTypes
            /\ Cardinality(DOMAIN kernel_rules) = Cardinality(healthy)
            /\ {kernel_rules[k] : k \in DOMAIN kernel_rules} =
                   {[type |-> outcome[h[1]].type,
                     term |-> outcome[h[1]].terms[h[2]].term] : h \in healthy}

(***************************************************************************)
(* What Engine::new says of the types it fails open at the budget: they    *)
(* "genuinely" do not fit beside the rules that are loaded.  Code and      *)
(* comment disagree.                                                       *)
(***************************************************************************)
OverflowIsGenuine ==
    phase = "ready" =>
        \A t \in (permissive_mask \cap PushableTypes) \ FaultyTypes :
            Cardinality(DOMAIN kernel_rules) + Cardinality(HealthyTerms({t}))
                > MAX_KERNEL_RULES
=============================================================================
