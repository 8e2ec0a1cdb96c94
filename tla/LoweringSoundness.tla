------------------------- MODULE LoweringSoundness -------------------------
(***************************************************************************)
(* One Sigma rule alone in the rules directory: the agent lowers it, the   *)
(* kernel then sees events and decides which of them reach the agent.      *)
(* What the whole directory adds - other rules, the budget, the upload -   *)
(* is the subject of RuleEngine and FastPath.                              *)
(***************************************************************************)
EXTENDS SigmaLowering

CONSTANTS Rules,   \* the Sigma rules a directory may hold
          Events   \* the records of the events the probes may report

ASSUME LoweringAssumption ==
    Rules \subseteq SigmaRule /\ Events \subseteq Record /\ MAX_PATH_SCAN \in Nat

VARIABLES
    rule,     \* the rule of the directory
    block,    \* the RULES_ARRAY value computed from it, NoBlock before
    seen      \* {}, then the one event observed, with both verdicts on it

vars == <<rule, block, seen>>

NoBlock == [mask |-> {}, count |-> 0, rules |-> <<>>]

\* A kernel rule of another event type, which keeps the block from being empty.
Neighbour(type) ==
    lower_term(IF type = ET_EXECVE THEN ET_LSM ELSE ET_EXECVE,
               PatternTerm(SubSeq(ModuleLoad, 1, 1), MATCH_EXACT))

\* Engine::new on this one file; a long pattern turns its type permissive.
BlockOf(r) ==
    LET out    == OutcomeOf(r)
        lowers == out.type \notin AlwaysPermissive \cup {0}
        open   == lowers /\ (out.blocked \/ \E i \in DOMAIN out.terms : ~out.terms[i].fits)
        rules  == IF open \/ ~lowers THEN <<>>
                  ELSE [i \in DOMAIN out.terms |-> lower_term(out.type, out.terms[i].term)]
    IN  [mask  |-> AlwaysPermissive \cup (IF open THEN {out.type} ELSE {}),
         count |-> Len(rules) + 1,
         rules |-> rules \o <<Neighbour(out.type)>>]

Init ==
    /\ rule \in Rules
    /\ block = NoBlock
    /\ seen = {}

Lower ==
    /\ block = NoBlock
    /\ block' = BlockOf(rule)
    /\ UNCHANGED <<rule, seen>>

\* An event reaches the kernel filter, and would reach Sigma.
Observe(ev) ==
    /\ block # NoBlock
    /\ seen = {}
    /\ seen' = {[ev     |-> ev,
                 fires  |-> SigmaFires(rule, ev),
                 passes |-> passes_kernel_filter(block, ev.type, ev.comm, ev.path)]}
    /\ UNCHANGED <<rule, block>>

Next == Lower \/ \E ev \in Events : Observe(ev)
Spec == Init /\ [][Next]_vars

-----------------------------------------------------------------------------
(***************************************************************************)
(* The kernel filter accepts a superset of what Sigma accepts: no event    *)
(* that makes the rule fire is dropped, whatever mixture of modifiers,     *)
(* wildcards, several values, several selections, filters and condition    *)
(* the rule is made of.  Stated for FILE and LSM events and the rules that *)
(* were classified as such: the other ones are in ExecveSuperset and in    *)
(* MixedRuleSuperset.  (extract_pushdown, lower_term)                      *)
(***************************************************************************)
KernelFilterIsSuperset ==
    TakenForGranted(rule) => \A s \in seen :
        /\ s.ev.type \in {ET_FILE, ET_LSM} /\ s.ev.type = classify_event_type(rule)
        /\ s.fires
        => s.passes

(***************************************************************************)
(* The filter is worth its cost: when a rule is nothing but alternatives   *)
(* on the pushed field and was lowered, the kernel forwards no FILE or LSM *)
(* event with a measurable path that Sigma then rejects.  A match kind     *)
(* widened on the way down would break only this.  (modifier_kind, anchor) *)
(***************************************************************************)
FilterIsExactForAlternatives ==
    LET type == classify_event_type(rule)
    IN  \A s \in seen :
            /\ OnlyAlternatives(rule) /\ type \in {ET_FILE, ET_LSM} \ block.mask
            /\ s.ev.type = type /\ Len(s.ev.path) < MAX_PATH_SCAN
            => (s.passes => s.fires)

(***************************************************************************)
(* The superset for program executions.  The comment of extract_pushdown   *)
(* says the filter must accept a superset of what Sigma accepts and that   *)
(* Image is the executable path; process_event gives Sigma the comm as     *)
(* Image.                                                                  *)
(***************************************************************************)
ExecveSuperset ==
    \A s \in seen : s.ev.type = ET_EXECVE /\ s.fires => s.passes

(***************************************************************************)
(* The superset for rules that name a module load in one selection and a   *)
(* file in another.  The comment of extract_pushdown says it turns a type  *)
(* permissive the moment a branch could match what the union rejects; such *)
(* a rule is a MODULE rule, which never gets there, and its FILE branch    *)
(* has no kernel rule.  (classify_event_type)                              *)
(***************************************************************************)
MixedRuleSuperset ==
    \A s \in seen :
        s.ev.type = ET_FILE /\ classify_event_type(rule) = ET_MODULE /\ s.fires => s.passes
=============================================================================
