---------------------------- MODULE KernelFilter ----------------------------
(***************************************************************************)
(* passes_kernel_filter (openxdr-ebpf/src/main.rs) on strings: does any    *)
(* rule of the RULES_ARRAY block want this event?  PatternMatch shows that *)
(* on byte buffers the compare is Anchored.                                *)
(***************************************************************************)
EXTENDS XdrCommon

CONSTANT MAX_PATH_SCAN

(***************************************************************************)
(* A KernelRule: the field it checks ("none" when neither check flag is    *)
(* set; lower_term never sets both), its pattern and match kind.           *)
(***************************************************************************)
KernelRule(type, check, kind, pat) ==
    [event_type |-> type, check |-> check, kind |-> kind, pat |-> pat]

\* What a slot of the zeroed map holds: a rule of type 0 that checks nothing.
ZeroRule == KernelRule(ET_ANY, "none", MATCH_EXACT, <<>>)

RuleMatches(rule, type, comm, path) ==
    /\ rule.event_type \in {type, ET_ANY}
    /\ rule.check = "comm" => Anchored(comm, rule.pat, rule.kind)
    /\ rule.check = "path" => Anchored(path, rule.pat, rule.kind)

\* Mutated: a block without rules wants no event.
passes_kernel_filter_DropIfEmpty(block, type, comm, path) ==
    \/ type \in block.mask
    \/ Len(path) >= MAX_PATH_SCAN
    \/ \E i \in 1..Least(block.count, Len(block.rules)) :
          RuleMatches(block.rules[i], type, comm, path)

(***************************************************************************)
(* comm and path are what the event's buffers hold.  Every uncertain case  *)
(* forwards: the type fails open, there are no rules, the path's NUL lies  *)
(* beyond the scan.                                                        *)
(***************************************************************************)
passes_kernel_filter(block, type, comm, path) ==
    \/ type \in block.mask
    \/ block.count = 0
    \/ Len(path) >= MAX_PATH_SCAN
    \/ \E i \in 1..Least(block.count, Len(block.rules)) :
          RuleMatches(block.rules[i], type, comm, path)
=============================================================================
