----------------------------- MODULE SyscallAbi -----------------------------
(***************************************************************************)
(* Where the probes look for a system call's arguments, and which probes   *)
(* run at all: SyscallAbi::discover reads the format file of five          *)
(* tracepoints from tracefs, EbpfKernel::new hands the offsets to the      *)
(* probes as globals, and App::run attaches the probes one after the       *)
(* other.  Reads of tracefs may come back short, a mount may be missing,   *)
(* the kernel's header may be longer than the agent assumes, and every     *)
(* attachment may fail.                                                    *)
(***************************************************************************)
EXTENDS Integers, Sequences, FiniteSetsExt

CONSTANTS
    Arches,     \* architectures the agent may be built for
    Bases,      \* offsets a kernel may give the first argument
    MaxShort    \* bound on the reads that come back short

Tracefs == {1, 2}     \* /sys/kernel/tracing, then /sys/kernel/debug/tracing

ASSUME AbiAssumption ==
    /\ Arches \subseteq {"x86_64", "aarch64"}
    /\ Bases \subseteq Nat
    /\ MaxShort \in Nat

VARIABLES
    kernel,       \* the machine: [arch, base, mounts], mounts a subset of Tracefs
    stage,        \* "discovering", "loading", "attaching", "running", "aborted"
    step,         \* position in Tracepoints or AttachOrder
    short,        \* how many reads came back short
    whole,        \* the tracepoints whose format was read to the end
    abi,          \* the fields of struct SyscallAbi: [offsets, has_open, discovered]
    diagnostics,  \* the set of <<tracepoint, field, kind of message>>
    globals,      \* the offsets the probes use
    attached      \* the programs attached

abiVars == <<kernel, stage, step, short, whole, abi, diagnostics, globals, attached>>

-----------------------------------------------------------------------------
\* What the kernel's format files say.

Tracepoints == <<"execve", "execveat", "open", "openat", "connect">>
TracepointSet == {Tracepoints[i] : i \in 1..5}

Args == [execve   |-> <<"filename", "argv", "envp">>,
         execveat |-> <<"fd", "filename", "argv", "envp", "flags">>,
         open     |-> <<"filename", "flags", "mode">>,
         openat   |-> <<"dfd", "filename", "flags", "mode">>,
         connect  |-> <<"fd", "uservaddr", "addrlen">>]

Header == {"common_pid", "__syscall_nr"}

TrueOffset(base, n) == base + 8 * n

HeaderLines(base) == <<[name |-> "common_pid", offset |-> 4, size |-> 4],
                       [name |-> "__syscall_nr", offset |-> base - 8, size |-> 4]>>

Format(tp, base) ==
    [i \in 1..(2 + Len(Args[tp])) |->
        IF i <= 2 THEN HeaderLines(base)[i]
        ELSE [name |-> Args[tp][i - 2], offset |-> TrueOffset(base, i - 3), size |-> 8]]

\* aarch64 kernels have no open system call.
Exists(tp) == tp = "open" => kernel.arch = "x86_64"

(***************************************************************************)
(* A read yields the first k lines; a short one may end in a line cut      *)
(* before its second ';' ("early": fewer than three parts) or between it   *)
(* and the digits of the size ("late": a third part that is no number).    *)
(***************************************************************************)
Text(tp, k, cut) == [lines |-> [i \in 1..k |-> Format(tp, kernel.base)[i]], cut |-> cut]
WholeText(tp)    == Text(tp, 2 + Len(Args[tp]), "none")
Texts(tp) == {WholeText(tp)} \cup
             {Text(tp, k, cut) : k \in 0..(1 + Len(Args[tp])), cut \in {"none", "early", "late"}}

\* What each mount may yield; a tracepoint that does not exist has no file.
Reads(tp) == IF Exists(tp) THEN [kernel.mounts -> Texts(tp)] ELSE {<<>>}

-----------------------------------------------------------------------------
\* TracepointFormat; <<>> stands for the Err of parse and read.

\* A line without three parts is skipped, one with a bad number fails the whole file.
parse(text) == IF text.cut = "late" THEN <<>> ELSE text.lines

\* The first mount whose file parses; texts has the mounts that can be read.
read(texts) ==
    LET good == {m \in DOMAIN texts : parse(texts[m]) # <<>>}
    IN  IF good = {} THEN <<>> ELSE parse(texts[Min(good)])

Named(fmt, field) == {i \in DOMAIN fmt : fmt[i].name = field}
Proper(fmt)       == {i \in DOMAIN fmt : fmt[i].name \notin Header}

offset_of(fmt, field) == fmt[Min(Named(fmt, field))]
arg_base(fmt)         == fmt[Min(Proper(fmt))].offset

ARG_BASE_DEFAULT == 16
sys_arg(n) == ARG_BASE_DEFAULT + 8 * n

\* The argument number the agent assumes for each field it needs.
ArgNumber == [execve   |-> [filename |-> 0],
              execveat |-> [filename |-> 1],
              open     |-> [filename |-> 0, flags |-> 1],
              openat   |-> [filename |-> 1, flags |-> 2],
              connect  |-> [fd |-> 0, uservaddr |-> 1]]
Wanted(tp) == DOMAIN ArgNumber[tp]

arithmetic_default ==
    [tp \in TracepointSet |-> [f \in Wanted(tp) |-> sys_arg(ArgNumber[tp][f])]]

\* Mutated: an argument must lie behind the first one.
valid_Strict(fmt, field) ==
    /\ Named(fmt, field) # {} /\ Proper(fmt) # {}
    /\ LET line == offset_of(fmt, field)
           base == arg_base(fmt)
       IN  /\ line.offset > base /\ line.offset <= base + 40
           /\ (line.offset - base) % 8 = 0
           /\ line.size = 8

\* Does resolve accept what the file says of the field?
valid(fmt, field) ==
    /\ Named(fmt, field) # {} /\ Proper(fmt) # {}
    /\ LET line == offset_of(fmt, field)
           base == arg_base(fmt)
       IN  /\ line.offset >= base /\ line.offset <= base + 40
           /\ (line.offset - base) % 8 = 0
           /\ line.size = 8

resolve(fmt, field, fallback) ==
    IF valid(fmt, field) THEN offset_of(fmt, field).offset ELSE fallback

\* Mutated: a field that is missing falls back without a word.
messages_Silent(fmt, field, fallback) ==
    IF ~valid(fmt, field) THEN IF Named(fmt, field) = {} THEN {} ELSE {"fallback"}
    ELSE IF resolve(fmt, field, fallback) # fallback THEN {"differs"}
    ELSE {}

\* What resolve pushes on the diagnostics.
messages(fmt, field, fallback) ==
    IF ~valid(fmt, field) THEN {"fallback"}
    ELSE IF resolve(fmt, field, fallback) # fallback THEN {"differs"}
    ELSE {}

-----------------------------------------------------------------------------
AbiInit ==
    /\ kernel \in [arch : Arches, base : Bases, mounts : SUBSET Tracefs]
    /\ stage = "discovering" /\ step = 1
    /\ short = 0 /\ whole = {}
    /\ abi = [offsets |-> arithmetic_default, has_open |-> FALSE, discovered |-> FALSE]
    /\ diagnostics = {}
    /\ globals = arithmetic_default
    /\ attached = {}

NextTracepoint ==
    /\ step' = IF step = Len(Tracepoints) THEN 1 ELSE step + 1
    /\ stage' = IF step = Len(Tracepoints) THEN "loading" ELSE stage

\* Its format was read: every field the agent needs is resolved.
Resolve(tp, fmt) ==
    /\ abi' = [offsets    |-> [abi.offsets EXCEPT ![tp] =
                                  [f \in Wanted(tp) |->
                                      resolve(fmt, f, arithmetic_default[tp][f])]],
               has_open   |-> abi.has_open \/ tp = "open",
               discovered |-> TRUE]
    /\ diagnostics' = diagnostics \cup
           UNION {{<<tp, f, m>> : m \in messages(fmt, f, arithmetic_default[tp][f])}
                  : f \in Wanted(tp)}

\* "<error>, using fallback offsets."
FallBack(tp) ==
    /\ diagnostics' = diagnostics \cup {<<tp, f, "fallback">> : f \in Wanted(tp)}
    /\ UNCHANGED abi

\* The next tracepoint, from what the mounts yield.
Discover ==
    /\ stage = "discovering"
    /\ LET tp == Tracepoints[step] IN
       \E texts \in Reads(tp) :
           LET damaged == {m \in DOMAIN texts : texts[m] # WholeText(tp)}
               fmt     == read(texts)
           IN  /\ short' = short + Cardinality(damaged) /\ short' <= MaxShort
               /\ whole' = IF damaged = {} /\ DOMAIN texts # {} THEN whole \cup {tp} ELSE whole
               /\ IF fmt = <<>> THEN FallBack(tp) ELSE Resolve(tp, fmt)
    /\ NextTracepoint
    /\ UNCHANGED <<kernel, globals, attached>>

\* return_offset_struct, then one set_global per field; loading may fail.
LoadProbes ==
    /\ stage = "loading"
    /\ globals' = abi.offsets
    /\ stage' = "attaching"
    /\ UNCHANGED <<kernel, step, short, whole, abi, diagnostics, attached>>

AttachOrder == <<"execve", "execveat", "open", "openat",
                 "init_module", "finit_module", "connect", "lsm">>

NextProgram ==
    /\ step' = IF step = Len(AttachOrder) THEN step ELSE step + 1
    /\ stage' = IF step = Len(AttachOrder) THEN "running" ELSE stage

Attach ==
    /\ stage = "attaching"
    /\ AttachOrder[step] = "open" => abi.has_open
    /\ attached' = attached \cup {AttachOrder[step]}
    /\ NextProgram
    /\ UNCHANGED <<kernel, short, whole, abi, diagnostics, globals>>

\* Mutated: a missing open probe is passed over on every architecture.
Refuses_Never == FALSE

\* "sys_enter_open missing on x86_64 - coverage hole"
Refuses == abi.discovered /\ kernel.arch = "x86_64"

\* "Notice: sys_enter_open absent (expected on aarch64)"
SkipOpen ==
    /\ stage = "attaching" /\ AttachOrder[step] = "open"
    /\ ~abi.has_open /\ ~Refuses
    /\ NextProgram
    /\ UNCHANGED <<kernel, short, whole, abi, diagnostics, globals, attached>>

\* A load or an attachment fails, or the open probe is refused: App::run
\* returns, and the programs go with the EbpfKernel.
StartFails ==
    /\ stage \in {"loading", "attaching"}
    /\ stage' = "aborted"
    /\ attached' = {}
    /\ UNCHANGED <<kernel, step, short, whole, abi, diagnostics, globals>>

AbiNext == Discover \/ LoadProbes \/ Attach \/ SkipOpen \/ StartFails

AbiSpec == AbiInit /\ [][AbiNext]_abiVars

-----------------------------------------------------------------------------
\* Every variable stays in its type.
AbiTypeOK ==
    /\ kernel \in [arch : Arches, base : Bases, mounts : SUBSET Tracefs]
    /\ stage \in {"discovering", "loading", "attaching", "running", "aborted"}
    /\ step \in 1..(IF stage = "discovering" THEN 5 ELSE 8)
    /\ short \in 0..MaxShort
    /\ whole \subseteq TracepointSet
    /\ abi.has_open \in BOOLEAN /\ abi.discovered \in BOOLEAN
    /\ \A offsets \in {abi.offsets, globals} :
          /\ DOMAIN offsets = TracepointSet
          /\ \A tp \in TracepointSet : offsets[tp] \in [Wanted(tp) -> Nat]
    /\ attached \subseteq {AttachOrder[i] : i \in 1..8}

\* The offset of the field on this kernel.
Actual(tp, f) ==
    TrueOffset(kernel.base, (CHOOSE n \in DOMAIN Args[tp] : Args[tp][n] = f) - 1)

(***************************************************************************)
(* "A silent fallback is the failure mode this feature exists to prevent": *)
(* whatever was cut out of the format files and wherever the kernel's      *)
(* arguments start, the probes use the right offset for a field or the     *)
(* operator is told that it fell back; and an offset other than the        *)
(* compiled-in one is never used without saying so.                        *)
(* (resolve, SyscallAbi::discover)                                         *)
(***************************************************************************)
NoSilentMisread ==
    stage \in {"attaching", "running"} =>
        \A tp \in TracepointSet : \A f \in Wanted(tp) :
            /\ globals[tp][f] = Actual(tp, f) \/ <<tp, f, "fallback">> \in diagnostics
            /\ globals[tp][f] = arithmetic_default[tp][f] \/ <<tp, f, "differs">> \in diagnostics

(***************************************************************************)
(* A file that was read to the end is believed: validation rejects no      *)
(* field of a true format, also of a kernel whose header is longer.        *)
(***************************************************************************)
WholeFileIsBelieved ==
    stage \in {"attaching", "running"} =>
        \A tp \in whole : \A f \in Wanted(tp) :
            /\ globals[tp][f] = Actual(tp, f)
            /\ <<tp, f, "fallback">> \notin diagnostics

(***************************************************************************)
(* No coverage hole: an agent that watches has every probe attached; open  *)
(* alone may be missing, where the kernel has no such call or where not    *)
(* one format file was read to its end.  (the attach functions)            *)
(***************************************************************************)
OpenCoverage ==
    stage = "running" =>
        /\ {"execve", "execveat", "openat", "init_module", "finit_module", "connect", "lsm"}
              \subseteq attached
        /\ "open" \in attached \/ ~Exists("open") \/ whole = {}
=============================================================================
