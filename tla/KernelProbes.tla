---------------------------- MODULE KernelProbes ----------------------------
(***************************************************************************)
(* The eight probes on one CPU.  All build their event in the one SCRATCH  *)
(* buffer of the CPU, which keeps what the last probe left, and each lays  *)
(* its own struct over it.  A tracepoint program is not interrupted by     *)
(* another probe of its CPU; the LSM program is on kernels that run it     *)
(* with preemption on.  The probes read the arguments at the offsets that  *)
(* SyscallAbi set, from the moment each is attached.  Whether an event     *)
(* passes the rules is the subject of FastPath: here the filter says yes   *)
(* or no.                                                                  *)
(***************************************************************************)
EXTENDS SyscallAbi, Functions

CONSTANT MaxCalls    \* bound on the calls the programs of this CPU make

ASSUME MaxCallsAssumption == MaxCalls \in Nat

VARIABLES
    preemptible,  \* does the kernel run LSM programs with preemption on?
    calls,        \* how many calls were made: the number of the last one
    scratch,      \* what each field-wide cell of SCRATCH holds: <<call, content>>
    lsm,          \* LSM programs under way: call |-> next part, and the calls
                  \* it went in amid
    out           \* the event that was just output, or none

probeVars == <<preemptible, calls, scratch, lsm, out>>
vars      == <<abiVars, probeVars>>

-----------------------------------------------------------------------------
(***************************************************************************)
(* SCRATCH, cut where a field of one of the structs, or its padding, starts *)
(* or ends: the cells are named by their first byte.                       *)
(***************************************************************************)
Cells == {0, 8, 24, 25, 28, 29, 45, 46, 48, 128, 132, 156, 536, 1560, 1562}

(***************************************************************************)
(* Each struct as the cells of its fields.  pad is what repr(C) puts       *)
(* between and behind the fields: no program writes it, and it goes out    *)
(* with the struct.  argc stands for argv_truncated and argc.              *)
(***************************************************************************)
PathCells    == {24, 25, 28, 29, 45, 46, 48, 128, 132, 156}
ExecveEvent  == [ids |-> {0}, comm |-> {8}, filename |-> PathCells,
                 argv |-> {536}, argc |-> {1560}, pad |-> {1562}]
FileEvent    == [path |-> {0, 8, 24, 25, 28, 29, 45, 46, 48}, flags |-> {128}, ids |-> {132}]
LSMEvent     == [ids |-> {0}, comm |-> {8}, filename |-> PathCells]
ModuleEvent  == [ids |-> {0}, comm |-> {8}, kind |-> {24}, pad |-> {25}]
NetworkEvent == [ids |-> {0}, comm |-> {8}, fd |-> {24, 25}, is_ipv6 |-> {28},
                 daddr |-> {29}, pad |-> {45}, dport |-> {46}]

Struct == [execve |-> ExecveEvent, execveat |-> ExecveEvent,
           open |-> FileEvent, openat |-> FileEvent,
           init_module |-> ModuleEvent, finit_module |-> ModuleEvent,
           connect |-> NetworkEvent, lsm |-> LSMEvent]

\* The fields that a reader of the event looks at.
Fields(prog) == DOMAIN Struct[prog] \ {"pad"}

\* Writing the fields in content on behalf of a call leaves the other cells alone.
Write(struct, content, id) ==
    [c \in Cells |->
        IF \E f \in DOMAIN content : c \in struct[f]
        THEN <<id, content[CHOOSE f \in DOMAIN content : c \in struct[f]]>>
        ELSE scratch[c]]

\* PerfEventArray::output copies the struct; amid are the calls that id overlapped.
Event(prog, buffer, id, amid) ==
    [prog |-> prog, call |-> id, amid |-> amid,
     body |-> [f \in DOMAIN Struct[prog] |-> {buffer[c] : c \in Struct[prog][f]}]]

-----------------------------------------------------------------------------
(***************************************************************************)
(* What a probe reads.  An argument is known by its name; "other" is a     *)
(* word of the context that is no argument.  bad are the words that are    *)
(* NULL, or that cannot be followed as a pointer.                          *)
(***************************************************************************)
Word(tp, offset) ==
    LET at == {n \in DOMAIN Args[tp] : TrueOffset(kernel.base, n - 1) = offset}
    IN  IF at = {} THEN "other" ELSE Args[tp][CHOOSE n \in at : TRUE]

Zero  == "zero"
Argv0 == "argv[0]"    \* argv[0], or nothing when it or the filename failed to read

\* Mutated: argv and argc are left as they are when there is no argv to read.
ExecveContent_Unzeroed(filename, argv, bad) ==
    IF argv \in bad
    THEN [ids |-> "ids", comm |-> "comm",
          filename |-> IF filename \in bad THEN Zero ELSE filename]
    ELSE [ids |-> "ids", comm |-> "comm", argv |-> argv, argc |-> argv,
          filename |-> IF filename \in bad THEN Argv0 ELSE filename]

(***************************************************************************)
(* All fields are cleared first.  argv[0] stands in for the filename, which *)
(* overwrites it when it can be read.                                      *)
(***************************************************************************)
ExecveContent(filename, argv, bad) ==
    [ids |-> "ids", comm |-> "comm",
     filename |-> IF filename \notin bad THEN filename
                  ELSE IF argv \notin bad THEN Argv0 ELSE Zero,
     argv |-> IF argv \in bad THEN Zero ELSE argv,
     argc |-> IF argv \in bad THEN Zero ELSE argv]

FileContent(filename, flags, bad) ==
    [path |-> IF filename \in bad THEN Zero ELSE filename, flags |-> flags, ids |-> "ids"]

ModuleContent == [ids |-> "ids", comm |-> "comm", kind |-> "kind"]

\* The address is followed twice; when the second read fails the fill stops there.
NetworkContent(fd, addr, lost) ==
    IF lost THEN [ids |-> "ids", comm |-> "comm", fd |-> fd, daddr |-> Zero]
    ELSE [ids |-> "ids", comm |-> "comm", fd |-> fd,
          daddr |-> addr, is_ipv6 |-> addr, dport |-> addr]

-----------------------------------------------------------------------------
Init ==
    /\ AbiInit
    /\ preemptible \in BOOLEAN
    /\ calls = 0
    /\ scratch = [c \in Cells |-> <<0, Zero>>]
    /\ lsm = <<>>
    /\ out = {}

\* The agent's own steps.
Agent ==
    /\ AbiNext
    /\ out' = {}
    /\ UNCHANGED <<preemptible, calls, scratch, lsm>>

\* Mutated: a program runs before the agent has attached it.
Enters_Detached(prog) ==
    /\ calls < MaxCalls
    /\ preemptible \/ lsm = <<>>
    /\ calls' = calls + 1

\* A program on the CPU enters the kernel where prog is attached.
Enters(prog) ==
    /\ prog \in attached
    /\ calls < MaxCalls
    /\ preemptible \/ lsm = <<>>
    /\ calls' = calls + 1

\* A tracepoint program fills its struct and may output it, in one go.
RunTracepoint(prog, content, outputs) ==
    /\ scratch' = Write(Struct[prog], content, calls')
    /\ out' = IF outputs THEN {Event(prog, scratch', calls', {})} ELSE {}
    /\ UNCHANGED <<abiVars, preemptible, lsm>>

\* try_execve_enter; the argument behind the filename is argv in both calls.
ExecveEnter(prog) ==
    /\ Enters(prog)
    /\ LET filename == Word(prog, globals[prog].filename)
           argv     == Word(prog, globals[prog].filename + 8)
       IN  \E bad \in SUBSET {filename, argv}, outputs \in BOOLEAN :
               RunTracepoint(prog, ExecveContent(filename, argv, bad), outputs)

\* Mutated: open is read at the offsets of openat.
FileOpen_AsOpenat(prog) ==
    /\ Enters(prog)
    /\ LET filename == Word(prog, globals.openat.filename)
           flags    == Word(prog, globals.openat.flags)
       IN  \E bad \in SUBSET {filename}, outputs \in BOOLEAN :
               RunTracepoint(prog, FileContent(filename, flags, bad), outputs)

FileOpen(prog) ==
    /\ Enters(prog)
    /\ LET filename == Word(prog, globals[prog].filename)
           flags    == Word(prog, globals[prog].flags)
       IN  \E bad \in SUBSET {filename}, outputs \in BOOLEAN :
               RunTracepoint(prog, FileContent(filename, flags, bad), outputs)

ModuleEnter(prog) ==
    /\ Enters(prog)
    /\ RunTracepoint(prog, ModuleContent, TRUE)

\* Without an IP address the probe returns before it touches SCRATCH.
ConnectIgnored ==
    /\ Enters("connect")
    /\ out' = {}
    /\ UNCHANGED <<abiVars, preemptible, scratch, lsm>>

ConnectEnter ==
    /\ Enters("connect")
    /\ \E lost \in BOOLEAN :
           RunTracepoint("connect",
               NetworkContent(Word("connect", globals.connect.fd),
                              Word("connect", globals.connect.uservaddr), lost),
               ~lost)

(***************************************************************************)
(* bprm_check: pid and uid, then comm and an empty filename, then filter   *)
(* and output.  A preempted program goes on where it was; a migrated task  *)
(* does not exist, it stays on its CPU.                                    *)
(***************************************************************************)
LsmEnter ==
    /\ Enters("lsm")
    /\ scratch' = Write(LSMEvent, [ids |-> "ids"], calls')
    /\ lsm' = [c \in DOMAIN lsm \cup {calls'} |->
                  IF c = calls' THEN [next |-> "fill", amid |-> DOMAIN lsm] ELSE lsm[c]]
    /\ out' = {}
    /\ UNCHANGED <<abiVars, preemptible>>

LsmFill(c) ==
    /\ lsm[c].next = "fill"
    /\ scratch' = Write(LSMEvent, [comm |-> "comm", filename |-> Zero], c)
    /\ lsm' = [lsm EXCEPT ![c].next = "output"]
    /\ out' = {}
    /\ UNCHANGED <<abiVars, preemptible, calls>>

LsmOutput(c) ==
    /\ lsm[c].next = "output"
    /\ lsm' = Restrict(lsm, DOMAIN lsm \ {c})
    /\ out' \in {{}, {Event("lsm", scratch, c, lsm[c].amid \cup (c + 1)..calls)}}
    /\ UNCHANGED <<abiVars, preemptible, calls, scratch>>

Next ==
    \/ Agent
    \/ \E prog \in {"execve", "execveat"} : ExecveEnter(prog)
    \/ \E prog \in {"open", "openat"} : FileOpen(prog)
    \/ \E prog \in {"init_module", "finit_module"} : ModuleEnter(prog)
    \/ ConnectIgnored \/ ConnectEnter
    \/ LsmEnter
    \/ \E c \in DOMAIN lsm : LsmFill(c) \/ LsmOutput(c)

Spec == Init /\ [][Next]_vars

-----------------------------------------------------------------------------
\* Every variable stays in its type; an LSM program is under way where it is attached.
TypeOK ==
    /\ AbiTypeOK
    /\ preemptible \in BOOLEAN
    /\ calls \in 0..MaxCalls
    /\ DOMAIN scratch = Cells
    /\ \A c \in Cells : scratch[c][1] \in 0..calls
    /\ DOMAIN lsm \subseteq 1..calls
    /\ \A c \in DOMAIN lsm : lsm[c] \in [next : {"fill", "output"}, amid : SUBSET (1..calls)]
    /\ lsm # <<>> => "lsm" \in attached
    /\ \A e \in out : e.prog \in attached /\ e.call \in 1..calls

(***************************************************************************)
(* The shared buffer leaks nothing old: each named field of an event was   *)
(* written for the call the event reports, though every probe left its own *)
(* struct in SCRATCH before and they clear it field by field.  Only an     *)
(* event of an LSM program that was preempted may be torn, and then by no  *)
(* call but those that ran amid it.  The padding is not covered: it holds  *)
(* what an earlier probe left there, and no reader of an event looks at it. *)
(* ("Clear fields that might have old data from previous runs")            *)
(***************************************************************************)
EventIsOwn ==
    \A e \in out :
        /\ e.amid # {} => preemptible /\ e.prog = "lsm"
        /\ \A f \in Fields(e.prog) : \A cell \in e.body[f] : cell[1] \in {e.call} \cup e.amid

\* The argument an event field is named for, and the field whose offset leads to it.
Meaning == {[prog |-> p, field |-> "filename", arg |-> "filename", slot |-> "filename"]
                : p \in {"execve", "execveat"}}
    \cup {[prog |-> p, field |-> "argv", arg |-> "argv", slot |-> "filename"]
                : p \in {"execve", "execveat"}}
    \cup {[prog |-> p, field |-> "path", arg |-> "filename", slot |-> "filename"]
                : p \in {"open", "openat"}}
    \cup {[prog |-> p, field |-> "flags", arg |-> "flags", slot |-> "flags"]
                : p \in {"open", "openat"}}
    \cup {[prog |-> "connect", field |-> "fd", arg |-> "fd", slot |-> "fd"],
          [prog |-> "connect", field |-> "daddr", arg |-> "uservaddr", slot |-> "uservaddr"],
          [prog |-> "connect", field |-> "dport", arg |-> "uservaddr", slot |-> "uservaddr"]}

(***************************************************************************)
(* Every field of an event holds the argument it is named for, or nothing  *)
(* (argv[0] in place of the filename), on every kernel and after every     *)
(* damage to the format files - or the start-up report named the field as  *)
(* a fallback.  The open probe read at openat's offsets broke this once.   *)
(* (SyscallAbi::discover, EbpfKernel::new, the try_ functions)             *)
(***************************************************************************)
EventIsFaithful ==
    \A e \in out : \A m \in Meaning :
        /\ e.prog = m.prog
        /\ <<m.prog, m.slot, "fallback">> \notin diagnostics
        => \A cell \in e.body[m.field] : cell[2] \in {m.arg, Zero, Argv0}
=============================================================================
