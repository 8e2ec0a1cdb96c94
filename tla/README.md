# A verification project for OpenXDR

OpenXDR is a Linux detection agent: eBPF probes report system calls, a small
rule filter in the kernel drops what no Sigma rule can want, and an agent in
user space names the users, evaluates the Sigma rules and writes alerts. These
TLA+ modules model the paths on which a detection can be lost: finding the
arguments of a system call, recording them, lowering rules into the kernel,
matching bytes there, starting up, carrying events to the engine, and writing
alerts.

## 1. Inventory

| Component | Source | State | Operations | Correct when |
|---|---|---|---|---|
| Pattern compare | `openxdr-common/src/lib.rs` | none (loop-bounded, branchless) | `pattern_matches`, `prefix_matches`, `suffix_matches` | it decides exact / prefix / suffix on the string in the buffer |
| Kernel filter | `openxdr-ebpf/src/main.rs` `passes_kernel_filter` | reads `RULES_ARRAY` | one decision per event | every uncertain case forwards |
| Probes | `openxdr-ebpf/src/main.rs` | per-CPU `SCRATCH`, perf rings | `execve(at)`, `open(at)`, `bprm_check`, `(f)init_module`, `connect` | what they record is what the call was |
| Rule lowering | `agent/engine.rs` | none | `classify_event_type`, `extract_pushdown`, `modifier_kind`, `anchor`, `lower_term` | the kernel filter accepts a superset of what Sigma accepts |
| Engine construction | `agent/engine.rs` `Engine::new` | `kernel_rules`, `permissive_mask`, `permissive_notes` | read a file, fail open, retain, cut at the budget | no type is filtered with part of its rules |
| Upload and start | `agent/app.rs`, `agent-ebpf/src/kernel.rs` | the map value, open rings | attach, build, upload, open | no wanted event is dropped on a watched CPU |
| Readers, channel | `agent/app.rs` | rings, batch, channel | read, send, evaluate, exit | per-source order, no silent loss, progress |
| `UserManager` | `agent/user.rs` | uid -> name cache | `get_user`, `resolve_user` | one lookup per user |
| Alert sinks | `agent/engine.rs` `process_event` | `syslog: Option<..>` | write, send, reconnect | stdout complete, syslog a subsequence, few losses per restart |
| `SyscallAbi` | `agent/syscall_abi.rs` | offsets, `has_open`, `discovered`, diagnostics | `parse`, `read`, `resolve`, `discover`, fallback | every offset is right or reported, and no good file is rejected |
| Load and attach | `agent-ebpf/src/kernel.rs` | globals, links | `new`, `attach_*`, `take_*` | the agent runs with all its probes, but for an open probe that cannot exist or was reported |
| Configuration, entry point | `agent/config.rs`, `main.rs` | none | print host facts | - |

How they interact: `App::run` discovers where the kernel puts the arguments of
five system calls (`SyscallAbi`), hands the offsets to the probes as globals, the probes (they filter from that moment,
with an empty rule block), builds the engine from the rules directory, writes
`RULES_ARRAY` with one map update, and opens one ring per probe and CPU. Probes
write rings; reader loops, all polled by the one main task, read batches, ask
`UserManager` (which runs `id -nu` and blocks the task), and send to an
unbounded channel; the telemetry task calls `Engine::process_event`, which
asks Sigma and writes the matches to stdout and syslog.

Hard behaviours: tracefs files may be cut short or missing, and the kernel's header
longer than today's; eight probes share one buffer per CPU, and one of them may be
interrupted by the others; the directory order is arbitrary; rules of one type may turn the
type permissive after others were lowered; the map update is not atomic for
probes on other CPUs; the probes see events before, during and after it; readers
block one another and feed themselves through `id`; rings fill, readers die, the
agent exits with a filled channel; syslogd restarts at any moment; strings fill
buffers. The list with lines is `hazards` in `PROJECT.json`.

## 2. Modules

| Module | Models | Extends / composes |
|---|---|---|
| `XdrCommon` | event types, match kinds, what a pattern means (`Anchored`), what a bounded read leaves (`Captured`) | - |
| `PatternMatch` | one event against one rule, byte for byte, in three stages | `XdrCommon` |
| `PatternMatchProofs` | the matcher is right for all sizes | `PatternMatch` |
| `SyscallAbi` | discovery of the argument offsets, globals, attachment of the probes | - |
| `KernelProbes` | the eight probes of a CPU on the shared `SCRATCH` buffer | `SyscallAbi` |
| `KernelProbesProofs` | offsets and coverage for all headers and all damage to the files; fields of an event are of one call, or of the calls a preempted LSM program ran amid, and hold what they are named for | `KernelProbes` |
| `KernelFilter` | `passes_kernel_filter` on strings | `XdrCommon` |
| `AgentEvent` | what each of the five readers makes of a probe's record | `XdrCommon` |
| `SigmaLowering` | a Sigma rule to kernel rules; the Sigma engine (external) | `KernelFilter`, `AgentEvent` |
| `SigmaLoweringProofs` | what the terms of a rule mean, for rules of any size: lists, modifiers, globs | `SigmaLowering` |
| `LoweringSoundness` | one rule lowered, one event judged by kernel and Sigma | `SigmaLowering` |
| `LoweringSoundnessProofs` | the filter accepts a superset, and no more for alternatives | `LoweringSoundness`, `SigmaLoweringProofs` |
| `RuleEngine` | `Engine::new` over a directory of files | `XdrCommon` |
| `RuleEngineProofs` | its invariants for all directories, orders, budgets; below the budget the order does not matter | `RuleEngine` |
| `FastPath` | start-up, torn upload, rings, system calls | `SigmaLowering`, instance of `RuleEngine` |
| `FastPathProofs` | no missed detection and no idle filter, from the theorems about the engine and about lowering | `FastPath`, `SigmaLoweringProofs`, instance of `RuleEngineProofs` |
| `EventPipeline` | rings to Sigma engine, users, exit | refines `LossyFifo` |
| `EventPipelineProofs` | types, lookups, order, and the refinement | `EventPipeline` |
| `LossyFifo` | abstract: per source, accepted = delivered later, in order | - |
| `AlertSink` | stdout and syslog of one engine | refines `AlertLog` |
| `AlertLog` | abstract: stdout complete and numbered, syslog a subsequence | - |
| `AlertSinkProofs` | the refinement and the bound on losses | `AlertSink` |
| `MC*` | constants for TLC | the module named |

Operators whose names carry a suffix (`EvictedOffByOne`, `Retain` / `RetainNothing`)
and the comment "Mutated:" are plausible wrong versions of the definition that
follows them; no specification uses them. They document what each property would catch.

### Correspondence with the code

* **Strings** are sequences of characters. `PatternMatch` alone works on zero-padded
  buffers; its theorem lets the other modules use `Anchored(Captured(s, n), p, kind)`.
  The code masks indices with `N - 1`; buffers are powers of two (`ASSUME PowerOfTwo`),
  so the mask is `% N`.
  An earlier read of `argv[0]` may leave its tail behind the terminator of the path
  (`CaptureArgv0`): a failing string read zeroes the buffer, a good one leaves the rest.
* **SyscallAbi**: `Discover` reads the format file of one tracepoint from the first mount
  whose file parses and resolves its fields, or falls back; `LoadProbes` sets the globals;
  `Attach` and `SkipOpen` go through the programs in the order of `App::run`, and
  `StartFails` is the error of any of them. A format file is its list of fields, cut after
  some line: a line cut before its second `;` is skipped, one cut before the digits of its
  size fails the whole file.
* **KernelProbes**: `SCRATCH` is cut into cells where a field of one of the structs
  or its padding starts, and each struct is a function from fields to cells, so that what
  one probe leaves is seen by the next through another layout. Padding is output with its
  struct and written by no program. An event names the calls its LSM program ran amid
  (`amid`). A cell holds the number of the call it was written
  for and the name of what was read. A tracepoint program is one step, since nothing
  of this CPU that uses the buffer interrupts it; the LSM program is three (pid and
  uid; comm and file name; filter and output), and on a `preemptible` kernel tracepoints and other LSM programs run
  between them.
* **AgentEvent**: one operator per reader loop. An optional field is a set of at most one
  string. The argument slots of an `execve` arrive joined.
* **RuleEngine**: one action reads one directory entry as the body of the loop in
  `Engine::new` does (`SkipEntry`, `LoadOnly`, `FailOpen`, `PushTerms`,
  `PushUntilTooLong`), then `Retain`, then `Fits` or `Overflow`. `kernel_rules` is a
  function on positions, so `retain` is `Restrict` and order survives. What a file
  comes to is its `Outcome`; `SigmaLowering!OutcomeOf` computes it from the rule, and
  `FastPath` plugs the two together.
* **SigmaLowering**: `extract_pushdown`'s early returns are the disjuncts of
  `Unpushable`; which of them is reported first is left out. YAML that is no mapping is
  `mapping = FALSE`; values that are not strings are `string = FALSE`. The loops that append
  to `values`, `branch_terms` and `terms` are concatenations (`collect_scalars`,
  `BlockTerms`, `SelectionTerms`). `SigmaRule` and `Record` are the rules a file may hold
  and the records a probe may write; the proofs are about all of them.
* **FastPath**: `Syscall` is one probe run on one CPU: fill the event, ask the filter,
  output. It is one step, which a tracepoint program is; for LSM events `NoMissedDetection`
  and `NothingForwardedInVain`, checked and proved, hold only where the LSM program is not
  preempted by a probe that overwrites `SCRATCH`. `KernelProbes` has that case.
  `CopyPart` copies count, mask or one slot of the map value; any order.
* **EventPipeline**: `turn` is the reader that holds the main task. `read_events().await`
  gives it up only when the ring is empty (`Yield`): on a ring with events it is ready at
  once, and the same reader goes on (`ReadBatch` with `turn = s`). `Resolve` / `Resolved` are the two sides of the blocking
  `id`, during which kernel and telemetry go on. An event is the stamp its source gave it.
  Stamps grow, so in `LossyFifo` a set of stamps is a queue: `Deliver` takes the least one.
  A set cannot hold an event twice; `EvaluatedInOrder` excludes that on the sequence.
* **AlertSink**: `TakeBatch` is the entry of the sink part of `process_event` with its
  one reconnection; `Send`, `SendFails`, `WriteOnly` are the iterations of its loop.
  `starts` numbers syslogd's lives; a connection to an earlier life is dead.

### The Sigma engine

`null_sigma` is not in the repository. It is modelled from its use: an event is a map of
field names to strings; a rule fires when the logsource category equals the event's and
the condition holds; `startswith`, `endswith`, `contains` and `all` have Sigma's meaning;
`*` and `?` are globs. A block that is not a mapping is taken to hold of every event.
Case folding and escaped wildcards are left out. What Sigma makes of values that are no
strings and of two anchoring modifiers on one field is not known here: the model has an
answer (their text, and `contains`), and the superset does not depend on it: the proof
looks at the pushed field only, and `TakenForGranted` excludes both there. Left out, too,
are the fields DestinationIp and DestinationPort, which are never pushed into the kernel.

## 3. What is checked

| Run | Instance | Shows |
|---|---|---|
| `pattern_match` | 2 bytes, strings up to 6, patterns up to 3, buffers of 4 and 8, scan of 5, an `argv[0]` before it or none | the buffer shorter than the scan (openat) and longer (execve); each string length around both limits, over every residue |
| `rule_engine` | 4 files of 8 fates, budget 2 | all directory orders; overflow of one or two types, patterns too long, late fail-open; symmetric files |
| `lowering` | all rules of `MCRules`, 3 categories, strings up to 3, number values, two anchoring modifiers, conditions true without a selection | the superset and its exactness |
| `kernel_probes` | 2 architectures, headers of 16 and 24 bytes, 1 short read, 3 calls | offsets, coverage, fields of one call and as named |
| `alert_sink` | 6 alerts, batches up to 3, 2 restarts | promise of the sinks, loss bound, completeness |
| `event_pipeline` | 2 sources, 2 users, rings and batches of 2 | order, no repetition, lookups, no event left behind once the probes are quiet |
| `fast_path` | 3 files of 8 kinds, 2 CPUs, budget 2, buffers 4 and 8, scan 6 | no missed detection, nothing forwarded in vain, unfiltered operation when the upload fails |
| `overflow_genuine`, `execve_superset`, `mixed_rule`, `next_alert_retries`, `long_paths` | as above | five disagreements between the code and its comments, under `findings` |

The bounds keep what the properties tell apart: one string on each side of every limit,
more rules than the budget with types on both sides of the cut, one event more than a
ring holds, and one restart while a batch is being written with another one after it.
The two header lengths are today's, which the defaults assume, and a longer one, on which
every default is wrong; three calls are one that leaves its fields in the buffer, an LSM
program, and one that interrupts it. Bounds named `Max...`
in a guard exist for TLC only.

`KernelFilterIsSuperset` is stated for FILE and LSM events and rules classified as
their type, under what `extract_pushdown` takes for granted (`TakenForGranted`): no
condition is true without a selection, a list of values is all strings or has none, and a
field has one anchoring modifier at most. The run also enumerates rules outside that
hypothesis, and fails without any one of the three parts. For EXECVE it does not hold (`ExecveSuperset`): Sigma's `Image` is the
comm, the kernel's is the filename. Nor does it hold for the FILE branch of a rule that
another branch made a MODULE rule (`MixedRuleSuperset`).
`NoMissedDetection` therefore leaves EXECVE out as well; it speaks of rules that fire
on an event of the type they were classified as. For NETWORK it says little: a rule of
category `network` does not fire in the model, because `process_event` passes the category
on as `NETWORK`, and whether the external engine folds case is unknown.

`NothingForwardedInVain` is its complement, as a filter that forwards everything misses
nothing. It speaks of FILE and LSM again; of rules that are alternatives
(`OnlyAlternatives`), because of a conjunction the kernel checks one field only; and of
events the filter is meant to judge: no write, a path within the scan, a block with rules.

Deadlock is not checked where the system stops by design: the models end when a
bounded number of events, files or alerts is used up.

**Fairness.** `AlertSink`: `WF(Emit)`, as the loop over the matches awaits nothing; that
`println!` and the send to the syslog socket return is assumed, though a pipe nobody reads
or a full socket queue may block them. `EventPipeline`: `WF(MainTask)`, as tokio
polls the main task while a reader of it can go on (`id` ends), and `WF(Evaluate)` for the
spawned telemetry task. Which of several woken readers is polled, and whether the one that
holds the task ever gives it back, is left open, as the code leaves it open: a ring that is
refilled as fast as it is read keeps its reader busy, and nothing is promised for the
others. `QuietPipelineDrains` therefore has the silence of the probes as its hypothesis
(`<>[][FALSE]_produced`); what it shows is that neither lookups nor the order in which
readers got the task, nor the end of some of them, leaves an event behind that was in the
ring of a reader that goes on. The run's `MaxEvents` makes every behaviour quiet in the
end, so the busy case is no part of the check. No fairness is assumed of programs, the
kernel, syslogd, errors or the exit.

`SourceOrderKept` permits what the code permits: a full ring that refuses an event, which
nobody counts, and a reader that ends with what its ring holds.

## 4. What is proved

TLAPS checks these for every value of the constants.

* `MatcherCorrect` (`PatternMatchProofs`): `TypeOK` and `VerdictIsAnchored`, from
  `BufferAssumption` and `PowerOfTwo`. The inductive invariant says what `buf` and
  `path_len` are in each phase: the zero-padded capture of `path`, and its exact length
  once a terminator was found. Lemmas: the NULs of a captured buffer start at its length
  (`NulsOfCaptured`), the scan finds the first one (`ScanMeasures`), the index mask is
  harmless because offset and pattern fit (`MaskIsIdentity`), and then the compare is the
  anchored meaning, kind by kind (`CompareIsAnchored`).
* `TypeCorrect`, `BudgetTheorem`, `CoverageTheorem`, `NotesTheorem`
  (`RuleEngineProofs`), from `EngineAssumption`. `EveryTermCovered` only speaks of the
  ready engine; the inductive invariant keeps, in every phase, that each loaded file of
  a type that is still filtered is unblocked and has all its terms among
  `kernel_rules`. Pushing keeps it (positions of a concatenation), `Retain` and
  `Overflow` keep it because they remove rules of permissive types only: `Evicted`
  rules make their type permissive in the same step. That `kernel_rules` is a sequence while the directory is read, and
  that ranks of a finite set of positions count it (`RankBelow`), carries the budget.
* `OrderTheorem` (`RuleEngineProofs`), from `EngineAssumption`. While the directory is read,
  in any order, the live rules are in one-to-one correspondence with the healthy terms of
  the files read so far: a type that turns faulty takes its rules out of the first and its
  terms out of the second in the same step (`OrderInv`). At the end both sides speak of
  the same files whatever the order was. (One position per term: a bijection says of the
  Vec what a multiset would, and needs no induction.)
* `OffsetTheorem`, `ProbeTheorem` (`KernelProbesProofs`), from `AbiAssumption`. The invariant
  (`AbiInv`) says that the fields of what was read are a prefix of the true file, so that a
  field that is accepted has its true offset, whatever was cut off; that what differs from
  it is in the diagnostics; and that `attached` is what `AttachOrder` up to `step` holds,
  but for the open probe where it may be left out.
* `StartUpIsSound`, `OwnEvents`, `FaithfulEvents`, `ProbesTypeCorrect`
  (`KernelProbesProofs`): the same with the probes running, and of every event that each
  named field was written for the call it reports and holds the argument it is named
  for, or was reported as a fallback. The probes write every field of their struct before
  they output it; padding is written by nobody and is no part of the claim. The event of an
  LSM program that was preempted may hold fields of calls that ran amid it, and of no
  others: an LSM program under way knows of the older ones beside it, so what it wrote has
  been overwritten by one of those or by a later call (`LsmInv`). Without preemption there
  are none of either.
* `TermMeansValue` (`SigmaLoweringProofs`), `SupersetTheorem` and `ExactTheorem`
  (`LoweringSoundnessProofs`), from `LoweringAssumption`: `Rules` and `Events` are any sets
  of rules and records, so the number of selections, fields and values, and the length of
  every string, are open. The argument goes up in four steps.
  *Globs*: `Glob` and `FlattenSeq` are recursive functions; that they meet their equations,
  and what follows from these, is shown by induction, which `NatInduct` gets from the
  well-foundedness of `<` (the element that `WFMin` gives for the set of exceptions has a
  predecessor outside of it). A run of plain signs moves a match by its length and compares
  it (`LiteralRun`); from that a glob with a star in front, behind, both or none is a
  suffix, prefix, substring or whole compare.
  *One value*: `TermMeansValue` puts that beside `modifier_kind` and `anchor`. The term
  wants no string the value does not match, and all it matches unless the field has two
  anchoring modifiers.
  *One rule*: the terms of a rule are those of the strings of the pushed fields of its
  selections, none lost (`TermsOfField`, `TermsOfBlock`, `TermsOfRule`). When a rule fires
  and is not blocked, some selection holds of the event; it constrains the pushed field; a
  value of that field matches, and its term is in the list (`RuleSound`). For alternatives
  the way back is open (`RuleExact`).
  *The block*: a term of a rule that was not failed open is a slot below the count, and the
  one other rule of the block is of another type (`BlockDecides`). The inductive invariant
  (`LoweringInv`) says that the block is the one of the rule and that an observed event
  carries the verdicts of both filters on it; the `lowering` instance satisfies it.
* `FastPathTypeCorrect`, `DetectionTheorem`, `SharpnessTheorem`, `UnfilteredTheorem`
  (`FastPathProofs`), from `FastPathAssumption`, which gives the constants their types and assumes nothing of the
  lowering: that each rule alone is lowered to kernel rules that want the events it fires on
  is `RuleSound`, and that what `SigmaLowering` computes is what `RuleEngine` assumes of its
  outcomes is `OutcomeTyped`. The block is empty until the update,
  complete when it ends, and no ring is open in between; slot `i` holds the rule of rank
  `i - 1`. From `CoverageTheorem` each term of a loaded file of a filtered type is then
  in some slot below the count. Where the upload is torn, and in which order, plays no role because nobody is
  listening: the theorem fails with the first ring opened earlier, as the mutant shows.
  `SharpnessTheorem` goes back the other way: a slot below the count holds a rule and no
  padding, as ranks leave no gap (`RankOnto`, `SlotHasRule`); every rule of the Vec, after
  `retain` and the cut too, is a term of a file that is loaded and was not blocked
  (`OriginKnown`, inductive with the engine's invariant); and `RuleExact` says that such a
  term matches only what its rule fires on (`ForwardedMeansWanted`).
* `PipelineTypeCorrect`, `LookupTheorem`, `InOrderTheorem`, `FifoTheorem`
  (`EventPipelineProofs`), from `PipelineAssumption`. A user who was looked up is cached,
  or is the user of the event at the head of the batch, whose lookup is under way
  (`LookupInv`). For the order, every queue is ordered inside, whatever is further on its way is earlier,
  a ring holds events of its own source, and none is later than the last produced
  (`OrderInv`). `FifoTheorem` shows that initial states are initial, that an output taken
  into a ring is an `Accept`, that evaluating the head of the channel delivers the least
  stamp that waits, and that all other steps stutter.
* `OneBatchTheorem` and `SinkImplementsLog` (`AlertSinkProofs`), from
  `SinkAssumption`. The first needs a relation between `wasted`, `starts` and whether the
  connection is to the current life: a batch is wasted only by a failed send to an earlier
  life, and every later batch is on a connection of this one. The second shows
  that initial states are initial and every step is an `Alert` or a stutter, because
  `Len(stdout)` is always `raised - pending`.

Outside the proofs are the hypotheses about the kernel: tracepoint programs are not
interrupted by another probe of their CPU, an LSM program that is preempted stays on its
CPU, a failing string read zeroes the buffer and a good one leaves the tail.

Outside them, too, is the Sigma engine: the theorems about lowering are about the model of
it described in section 2.

Only model-checked: liveness (`EveryAlertWritten`, `QuietPipelineDrains`), which is beyond
the prover. The properties of the five runs that show a disagreement are false.

## 5. Not modelled

`agent/config.rs` (host facts, formatting), `main.rs`, `errors.rs`, the scratch crate and the
rule corpus: no state that changes. `take_*` only look a map up. Of the modelled parts:
the eight argv slots of an `execve` one by one, the bytes of the connect address, the text of
alerts and of the start-up report, ring reading below `read_events`, CPU hotplug (the CPUs
are listed once).

Seen while reading the code, and left to the reader because no property is about them:

* `engine.rs:228` reports "no rules - events dropped in kernel" for a type without rules,
  also when no type has one and the filter forwards everything.
* `syscall_abi.rs`: a format line that is cut after its second `;` fails the whole file (as
  modelled), where the test's comment (:464-465) speaks of the incomplete line only. The
  next mount or the default takes over, which is reported, so no offset goes wrong silently.
* `ModuleEvent` and `NetworkEvent` go out with padding (bytes 25-27 and 45) that no probe
  writes: it holds what an earlier call left in `SCRATCH`. The readers never look at it.
* A reader whose ring is refilled as fast as it is read keeps the main task: the other
  readers and `ctrl_c` wait for as long as that lasts.
* `argv_truncated` of the execve event is never set, and the comment "ExecveEvent is ~670
  bytes" in `try_execve_enter` is out of date (the struct still fits the buffer).
* An `open` call is reported to Sigma as `openat` (`FromFile`).
* The `u16` sum in `resolve` overflows only for header lengths no kernel writes.

## 6. Plan

1. Done: all modules of section 2, and the proofs of section 4.
2. The argv slots one by one, with `argc` and the reader's `offset + 128` guard.
