--------------------------- MODULE SigmaLowering ---------------------------
(***************************************************************************)
(* How one Sigma rule becomes kernel rules: classify_event_type,           *)
(* extract_pushdown, modifier_kind, anchor and lower_term of               *)
(* agent/engine.rs, beside what the Sigma engine makes of the same rule    *)
(* (an external crate, modelled from how process_event calls it).          *)
(*                                                                         *)
(* A rule is [category, blocks, accepts]: blocks is the detection mapping  *)
(* in file order, each block [selection, mapping, fields], and accepts is  *)
(* the condition, as the sets of blocks of which it is true.  A field is   *)
(* [name, mods, values]; a value is [string, text], its text a sequence of *)
(* characters and the wildcards Star and Query.                            *)
(***************************************************************************)
EXTENDS KernelFilter, AgentEvent, SequencesExt

CONSTANTS Char,          \* what strings are made of
          Star, Query,   \* "*" and "?"
          MAX_COMM, MAX_PATTERN_LEN

Anchors  == {"startswith", "endswith"}
NoKind   == 99

\* The rules a file may hold, and the records a probe may write.
Value     == [string : BOOLEAN, text : Seq(Char)]
Item      == [name : STRING, mods : Seq(STRING), values : Seq(Value)]
Block     == [selection : BOOLEAN, mapping : BOOLEAN, fields : Seq(Item)]
SigmaRule == [category : STRING, blocks : Seq(Block), accepts : SUBSET SUBSET Nat]
Record    == [type : EventTypes, comm : Seq(Char), path : Seq(Char),
              user : Seq(Char), args : Seq(Char)]

BaseType(category) ==
    CASE category = "process_creation" -> ET_EXECVE
      [] category = "syscall"          -> ET_FILE
      [] category = "lsm"              -> ET_LSM
      [] category \in {"network", "network_connection"} -> ET_NETWORK
      [] OTHER                         -> 0

Selections(rule) == {b \in ToSet(rule.blocks) : b.selection}
FieldsNamed(b, name) == {e \in ToSet(b.fields) : e.name = name}
collect_scalars(e) ==
    FlattenSeq([j \in DOMAIN e.values |->
                   IF e.values[j].string THEN <<e.values[j]>> ELSE <<>>])

\* A selection that names init_module anywhere makes the whole rule a MODULE rule.
classify_event_type(rule) ==
    IF \E b \in Selections(rule) : b.mapping /\
          \E e \in FieldsNamed(b, "Syscall") :
              \E v \in ToSet(collect_scalars(e)) : v.text = ModuleLoad
    THEN ET_MODULE ELSE BaseType(rule.category)

PushField(type) == IF type = ET_FILE THEN "TargetFilename" ELSE "Image"
PushSlot(type)  == IF type = ET_LSM THEN "comm" ELSE "path"

\* Mutated: a modifier that is not known is ignored, and exact reads as prefix.
modifier_kind_Lenient(mods) ==
    IF "endswith" \in ToSet(mods) THEN MATCH_SUFFIX ELSE MATCH_PREFIX

\* The last anchoring modifier decides; `all` only changes and for or.
modifier_kind(mods) ==
    LET starts == {i \in DOMAIN mods : mods[i] = "startswith"}
        ends   == {i \in DOMAIN mods : mods[i] = "endswith"}
    IN  IF ~(ToSet(mods) \subseteq Anchors \cup {"all"}) THEN NoKind
        ELSE IF starts \cup ends = {} THEN MATCH_EXACT
        ELSE IF \E i \in starts : \A j \in ends : j < i THEN MATCH_PREFIX ELSE MATCH_SUFFIX

PatternTerm(pat, kind) == [pat |-> pat, kind |-> kind]

\* Mutated: an interior star is cut away with the leading one.
anchor_AnyStar(v, kind) ==
    IF Query \in ToSet(v) \/ kind = NoKind THEN {}
    ELSE {t \in {PatternTerm(SelectSeq(v, LAMBDA ch : ch # Star),
                      IF Star \in ToSet(v) THEN MATCH_SUFFIX ELSE kind)} : t.pat # <<>>}

\* The term of a value, or no term when the kernel cannot compare it.
anchor(v, kind) ==
    LET stars == {i \in DOMAIN v : v[i] = Star}
        whole == IF stars = {} /\ kind # NoKind THEN {PatternTerm(v, kind)} ELSE {}
        tail  == IF stars = {1} /\ kind = MATCH_EXACT
                 THEN {PatternTerm(Tail(v), MATCH_SUFFIX)} ELSE {}
        front == IF stars = {Len(v)} /\ stars # {1} /\ kind = MATCH_EXACT
                 THEN {PatternTerm(Front(v), MATCH_PREFIX)} ELSE {}
    IN  {t \in whole \cup tail \cup front : Query \notin ToSet(v) /\ t.pat # <<>>}

\* The terms a selection block gives, one per string value of the pushed field.
FieldTerms(e) ==
    [j \in DOMAIN collect_scalars(e) |->
        anchor(collect_scalars(e)[j].text, modifier_kind(e.mods))]

BlockTerms(b, field) ==
    FlattenSeq([i \in DOMAIN b.fields |->
                   IF b.fields[i].name = field THEN FieldTerms(b.fields[i]) ELSE <<>>])

(***************************************************************************)
(* A branch that can match what the union of the terms would reject: it is *)
(* no mapping, has a modifier or a wildcard the kernel cannot compare, or  *)
(* does not constrain the field at all.                                    *)
(***************************************************************************)
Unpushable(b, field) ==
    \/ ~b.mapping
    \/ \E e \in FieldsNamed(b, field) : modifier_kind(e.mods) = NoKind
    \/ {} \in ToSet(BlockTerms(b, field))
    \/ BlockTerms(b, field) = <<>>

SelectionTerms(rule, field) ==
    FlattenSeq([i \in DOMAIN rule.blocks |->
                   IF rule.blocks[i].selection THEN BlockTerms(rule.blocks[i], field)
                   ELSE <<>>])

\* Mutated: a branch without a constraint on the field is skipped.
extract_pushdown_SkipOpenBranches(rule, type) ==
    LET field == PushField(type)
        sels  == {b \in Selections(rule) : ~(b.mapping /\ BlockTerms(b, field) = <<>>)}
    IN  [blocked |-> \/ type \notin PushableTypes
                     \/ sels = {}
                     \/ \E b \in sels : Unpushable(b, field),
         terms   |-> SelectionTerms(rule, field)]

extract_pushdown(rule, type) ==
    LET field == PushField(type)
    IN  [blocked |-> \/ type \notin PushableTypes
                     \/ Selections(rule) = {}
                     \/ \E b \in Selections(rule) : Unpushable(b, field),
         terms   |-> SelectionTerms(rule, field)]

lower_term_fits(type, pat) ==
    Len(pat) <= IF PushSlot(type) = "comm" THEN MAX_COMM ELSE MAX_PATTERN_LEN

\* What reading the rule comes to, as RuleEngine's Outcome.
OutcomeOf(rule) ==
    LET type == classify_event_type(rule)
        push == extract_pushdown(rule, type)
    IN  [load    |-> TRUE,
         type    |-> type,
         blocked |-> push.blocked,
         terms   |-> IF push.blocked THEN <<>>
                     ELSE [i \in DOMAIN push.terms |->
                              LET t == CHOOSE x \in push.terms[i] : TRUE
                              IN  [term |-> t, fits |-> lower_term_fits(type, t.pat)]]]

\* lower_term: the pattern goes to the one slot of its event type.
lower_term(type, t) == KernelRule(type, PushSlot(type), t.kind, t.pat)

-----------------------------------------------------------------------------
(***************************************************************************)
(* The Sigma engine (external).  process_event names the fields of an      *)
(* AgentEvent for it (the two of the destination are left out).            *)
(***************************************************************************)
EventCategory(ev) ==
    CASE ev.event_type = "EXECVE"  -> "process_creation"
      [] ev.event_type = "SYSCALL" -> "syscall"
      [] ev.event_type = "LSM"     -> "lsm"
      [] OTHER                     -> ev.event_type

\* process_event's field map: Image is the process name, which is comm.
SigmaField(ev, name) ==
    CASE name = "Image"          -> {ev.process_name}
      [] name = "User"           -> {ev.user_name}
      [] name = "CommandLine"    -> ev.cmdline
      [] name = "TargetFilename" -> ev.file_path
      [] name = "Syscall"        -> ev.syscall
      [] OTHER                   -> {}

\* Does the glob v match all of s?  reach[j]: how much of s its first j signs may match.
Glob(s, v) ==
    LET reach[j \in 0..Len(v)] ==
            IF j = 0 THEN {0}
            ELSE IF v[j] = Star THEN UNION {k..Len(s) : k \in reach[j - 1]}
            ELSE {i \in 1..Len(s) : i - 1 \in reach[j - 1] /\ v[j] \in {s[i], Query}}
    IN  Len(s) \in reach[Len(v)]

ValueMatches(s, v, mods) ==
    Glob(s, (IF mods \cap {"endswith", "contains"} # {} THEN <<Star>> ELSE <<>>)
            \o v.text \o
            (IF mods \cap {"startswith", "contains"} # {} THEN <<Star>> ELSE <<>>))

FieldHolds(ev, e) ==
    LET mods == ToSet(e.mods)
    IN  \E s \in SigmaField(ev, e.name) :
            IF "all" \in mods THEN \A v \in ToSet(e.values) : ValueMatches(s, v, mods)
                              ELSE \E v \in ToSet(e.values) : ValueMatches(s, v, mods)

\* A block that is no mapping (keywords, a list) may hold of anything: it does.
BlockHolds(ev, b) == b.mapping => \A e \in ToSet(b.fields) : FieldHolds(ev, e)

\* Does the rule fire on what the readers make of a probe's record?
SigmaFires(rule, rec) ==
    LET ev == EngineEvent(rec)
    IN  /\ EventCategory(ev) = rule.category
        /\ {i \in DOMAIN rule.blocks : BlockHolds(ev, rule.blocks[i])} \in rule.accepts

(***************************************************************************)
(* What extract_pushdown takes for granted of a rule and never looks at:   *)
(* the condition is true of no event that no selection block holds of; a   *)
(* list of values is all strings or has none; and a field has one          *)
(* anchoring modifier at most (of two, the kernel compares with the last). *)
(***************************************************************************)
TakenForGranted(rule) ==
    /\ \A blocks \in rule.accepts :
          \E i \in blocks \cap DOMAIN rule.blocks : rule.blocks[i].selection
    /\ \A b \in ToSet(rule.blocks) : \A e \in ToSet(b.fields) :
          /\ \A v, w \in ToSet(e.values) : v.string = w.string
          /\ ~(Anchors \subseteq ToSet(e.mods))

\* The rule is nothing but alternatives: selections of one field each, any of them.
OnlyAlternatives(rule) ==
    /\ \A b \in ToSet(rule.blocks) :
          /\ b.selection /\ b.mapping /\ Len(b.fields) = 1
          /\ \A e \in ToSet(b.fields) : "all" \notin ToSet(e.mods)
    /\ rule.accepts = (SUBSET DOMAIN rule.blocks) \ {{}}
=============================================================================
