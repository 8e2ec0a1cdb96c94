-------------------------- MODULE KernelProbesProofs --------------------------
(***************************************************************************)
(* The named fields of an event are its own call's, and hold the arguments *)
(* they are named for, for any number of calls on the CPU, any kernel      *)
(* header and any damage to the format files.                              *)
(***************************************************************************)
EXTENDS KernelProbes, FiniteSetTheorems, TLAPS

(***************************************************************************)
(* The offsets of SyscallAbi are right or reported, and no probe is left   *)
(* out in silence, for every kernel header length, any number of short     *)
(* reads and every outcome of the attachments.                             *)
(***************************************************************************)

\* The first k lines of the format file.
Prefix(tp, k) == [i \in 1..k |-> Format(tp, kernel.base)[i]]

\* Where an argument stands among the arguments of its call.
Place(tp, f) == ArgNumber[tp][f] + 1

\* The signatures of the system calls have three to five arguments, no two alike.
LEMMA Signatures ==
    ASSUME NEW tp \in TracepointSet
    PROVE  /\ Len(Args[tp]) \in 3..5 /\ DOMAIN Args[tp] = 1..Len(Args[tp])
           /\ \A n \in DOMAIN Args[tp] : Args[tp][n] \notin Header
           /\ Wanted(tp) # {}
<1>0. tp \in {"execve", "execveat", "open", "openat", "connect"}
    BY DEF TracepointSet, Tracepoints
<1>1. CASE tp = "execve"
    BY <1>1 DEF Wanted, ArgNumber, Args, Header
<1>2. CASE tp = "execveat"
    BY <1>2 DEF Wanted, ArgNumber, Args, Header
<1>3. CASE tp = "open"
    BY <1>3 DEF Wanted, ArgNumber, Args, Header
<1>4. CASE tp = "openat"
    BY <1>4 DEF Wanted, ArgNumber, Args, Header
<1>5. CASE tp = "connect"
    BY <1>5 DEF Wanted, ArgNumber, Args, Header
<1>q. QED BY <1>0, <1>1, <1>2, <1>3, <1>4, <1>5

\* The argument numbers of arithmetic_default are those of the signatures.
LEMMA ArgNumbers ==
    ASSUME NEW tp \in TracepointSet, NEW f \in Wanted(tp)
    PROVE  /\ ArgNumber[tp][f] \in 0..2
           /\ Place(tp, f) \in DOMAIN Args[tp]
           /\ \A n \in DOMAIN Args[tp] : Args[tp][n] = f <=> n = Place(tp, f)
<1>0. tp \in {"execve", "execveat", "open", "openat", "connect"}
    BY DEF TracepointSet, Tracepoints
<1>1. CASE tp = "execve"
    BY <1>1 DEF Wanted, Place, ArgNumber, Args
<1>2. CASE tp = "execveat"
    BY <1>2 DEF Wanted, Place, ArgNumber, Args
<1>3. CASE tp = "open"
    BY <1>3 DEF Wanted, Place, ArgNumber, Args
<1>4. CASE tp = "openat"
    BY <1>4 DEF Wanted, Place, ArgNumber, Args
<1>5. CASE tp = "connect"
    BY <1>5 DEF Wanted, Place, ArgNumber, Args
<1>q. QED BY <1>0, <1>1, <1>2, <1>3, <1>4, <1>5

\* What a format file holds, line by line.
Line(tp, j, line) ==
    /\ j <= 2 => line.name \in Header
    /\ j > 2  => /\ j - 2 \in DOMAIN Args[tp]
                 /\ line.name = Args[tp][j - 2]
                 /\ line.offset = TrueOffset(kernel.base, j - 3)
                 /\ line.size = 8

LEMMA Lines ==
    ASSUME NEW tp \in TracepointSet, NEW k \in 0..(2 + Len(Args[tp])), NEW j \in 1..k
    PROVE  Line(tp, j, Prefix(tp, k)[j])
<1>1. Len(Args[tp]) \in 3..5 /\ DOMAIN Args[tp] = 1..Len(Args[tp])
    BY Signatures
<1>2. j \in 1..(2 + Len(Args[tp]))
    BY <1>1
<1>3. Prefix(tp, k)[j] = IF j <= 2 THEN HeaderLines(kernel.base)[j]
                         ELSE [name   |-> Args[tp][j - 2],
                               offset |-> TrueOffset(kernel.base, j - 3), size |-> 8]
    BY <1>2 DEF Prefix, Format
<1>4. HeaderLines(kernel.base)[1].name \in Header /\ HeaderLines(kernel.base)[2].name \in Header
    BY DEF HeaderLines, Header
<1>5. j <= 2 => j = 1 \/ j = 2
    BY <1>2
<1>6. j > 2 => j - 2 \in DOMAIN Args[tp] /\ ~(j <= 2)
    BY <1>1, <1>2
<1>q. QED BY <1>3, <1>4, <1>5, <1>6 DEF Line

\* The offset of a field follows from its argument number.
LEMMA ActualIs ==
    ASSUME NEW tp \in TracepointSet, NEW f \in Wanted(tp)
    PROVE  Actual(tp, f) = kernel.base + 8 * ArgNumber[tp][f]
<1>1. (CHOOSE n \in DOMAIN Args[tp] : Args[tp][n] = f) = Place(tp, f)
    BY ArgNumbers
<1>2. Place(tp, f) - 1 = ArgNumber[tp][f]
    BY ArgNumbers DEF Place
<1>q. QED BY <1>1, <1>2 DEF Actual, TrueOffset

\* What Min returns.
LEMMA MinIs ==
    ASSUME NEW S, NEW x \in S, S \subseteq Int, \A y \in S : x <= y
    PROVE  Min(S) = x
<1>1. ASSUME NEW y \in S, \A z \in S : y <= z
      PROVE  y = x
    <2>1. x \in Int /\ y \in Int /\ x <= y /\ y <= x
        BY <1>1
    <2>q. QED BY <2>1
<1>q. QED BY <1>1 DEF Min

(***************************************************************************)
(* Cutting lines off the end of a format file cannot make a field appear   *)
(* at an offset that is not its own.                                       *)
(***************************************************************************)
LEMMA LineOfField ==
    ASSUME NEW tp \in TracepointSet, NEW f \in Wanted(tp), kernel.base \in Nat,
           NEW k \in 0..(2 + Len(Args[tp])), Named(Prefix(tp, k), f) # {}
    PROVE  /\ offset_of(Prefix(tp, k), f).offset = Actual(tp, f)
           /\ offset_of(Prefix(tp, k), f).size = 8
<1> DEFINE i == Place(tp, f) + 2
<1>1. Len(Args[tp]) \in 3..5 /\ DOMAIN Args[tp] = 1..Len(Args[tp]) /\ ArgNumber[tp][f] \in 0..2
    BY Signatures, ArgNumbers
<1>2. ASSUME NEW j \in 1..k, Prefix(tp, k)[j].name = f
      PROVE  j = i
    <2>1. Place(tp, f) \in DOMAIN Args[tp] /\ Args[tp][Place(tp, f)] = f
        BY ArgNumbers
    <2>2. f \notin Header
        BY <2>1, Signatures
    <2>3. Line(tp, j, Prefix(tp, k)[j])
        BY Lines
    <2>4. Args[tp][j - 2] = f /\ j - 2 \in DOMAIN Args[tp]
        BY <1>1, <1>2, <2>2, <2>3 DEF Line
    <2>5. j - 2 = Place(tp, f)
        BY <2>4, ArgNumbers
    <2>q. QED BY <2>5
<1>3. Named(Prefix(tp, k), f) = {i} /\ i \in 1..k
    BY <1>2, Lines DEF Named, Prefix
<1>4. i > 2 /\ i - 3 = ArgNumber[tp][f]
    BY <1>1 DEF Place
<1>5. Min({i}) = i
    <2>1. i \in {i} /\ {i} \subseteq Int /\ \A y \in {i} : i <= y
        BY <1>3
    <2>2. \A S : i \in S /\ S \subseteq Int /\ (\A y \in S : i <= y) => Min(S) = i
        BY MinIs
    <2>q. QED BY <2>1, <2>2
<1>6. /\ Prefix(tp, k)[i].offset = TrueOffset(kernel.base, i - 3)
      /\ Prefix(tp, k)[i].size = 8
    <2>1. Line(tp, i, Prefix(tp, k)[i])
        BY <1>3, Lines
    <2>q. QED BY <2>1, <1>4 DEF Line
<1>q. QED BY <1>3, <1>4, <1>5, <1>6, ActualIs DEF offset_of, TrueOffset

\* resolve accepts every field of a file that was read to its end.
LEMMA WholeIsValid ==
    ASSUME NEW tp \in TracepointSet, NEW f \in Wanted(tp), kernel.base \in Nat
    PROVE  valid(Prefix(tp, 2 + Len(Args[tp])), f)
<1> DEFINE n == 2 + Len(Args[tp])
           fmt == Prefix(tp, n)
           i == Place(tp, f) + 2
<1>1. n \in 5..7 /\ n \in 0..(2 + Len(Args[tp])) /\ DOMAIN fmt = 1..n
    <2>1. Len(Args[tp]) \in 3..5
        BY Signatures
    <2>2. DOMAIN Prefix(tp, n) = 1..n
        BY DEF Prefix
    <2>3. \A l \in 3..5 : 2 + l \in 5..7 /\ 2 + l \in 0..(2 + l)
        OBVIOUS
    <2>q. QED BY <2>1, <2>2, <2>3
<1>2. i \in 3..n /\ i - 2 = Place(tp, f)
    BY Signatures, ArgNumbers DEF Place
<1>3. \A j \in 1..n : Line(tp, j, fmt[j])
    BY <1>1, Lines
<1> HIDE DEF n, fmt
<1>4. Named(fmt, f) # {}
    <2>1. fmt[i].name = f
        BY <1>1, <1>2, <1>3, ArgNumbers DEF Line
    <2>q. QED BY <1>1, <1>2, <2>1 DEF Named
<1>5. Min(Proper(fmt)) = 3 /\ 3 \in Proper(fmt)
    <2>1. 3 \in DOMAIN fmt /\ 3 \in 1..n /\ fmt[3].name = Args[tp][1] /\ 1 \in DOMAIN Args[tp]
        BY <1>1, <1>3 DEF Line
    <2>2. 3 \in Proper(fmt)
        BY <2>1, Signatures DEF Proper
    <2>3. \A j \in Proper(fmt) : j \in Int /\ 3 <= j
        BY <1>1, <1>3 DEF Proper, Line
    <2>4. Proper(fmt) \subseteq Int
        BY <2>3
    <2>q. QED BY <2>2, <2>3, <2>4, MinIs
<1>6. arg_base(fmt) = kernel.base
    <2>1. fmt[3].offset = TrueOffset(kernel.base, 0)
        BY <1>1, <1>3 DEF Line
    <2>q. QED BY <1>5, <2>1 DEF arg_base, TrueOffset
<1>7. /\ offset_of(fmt, f).offset = kernel.base + 8 * ArgNumber[tp][f]
      /\ offset_of(fmt, f).size = 8
    BY <1>1, <1>4, LineOfField, ActualIs DEF fmt
<1>8. ArgNumber[tp][f] \in 0..2
    BY ArgNumbers
<1>9. valid(fmt, f)
    BY <1>4, <1>5, <1>6, <1>7, <1>8 DEF valid
<1>q. QED BY <1>9 DEF fmt, n

(***************************************************************************)
(* Whatever the mounts yield, a format that read returns holds the first   *)
(* lines of the true one, and all of them when no read came back short.    *)
(***************************************************************************)
LEMMA ReadIsPrefix ==
    ASSUME NEW tp \in TracepointSet, kernel.mounts \subseteq Tracefs,
           NEW texts \in Reads(tp), read(texts) # <<>>
    PROVE  /\ \E k \in 0..(2 + Len(Args[tp])) : read(texts) = Prefix(tp, k)
           /\ (\A m \in DOMAIN texts : texts[m] = WholeText(tp))
                  => read(texts) = Prefix(tp, 2 + Len(Args[tp]))
<1> DEFINE good == {m \in DOMAIN texts : parse(texts[m]) # <<>>}
           m == Min(good)
<1>1. good # {} /\ read(texts) = parse(texts[m])
    BY DEF read
<1>2. Exists(tp) /\ texts \in [kernel.mounts -> Texts(tp)]
    <2>1. CASE ~Exists(tp)
        <3>1. texts = <<>>
            BY <2>1 DEF Reads
        <3>q. QED BY <3>1, <1>1
    <2>q. QED BY <2>1 DEF Reads
<1>3. m \in DOMAIN texts /\ texts[m] \in Texts(tp)
    <2>1. good \subseteq {1, 2}
        BY <1>2 DEF Tracefs
    <2>2. \E x \in good : \A y \in good : x <= y
        BY <1>1, <2>1
    <2>3. m \in good
        BY <2>2 DEF Min
    <2>q. QED BY <2>3, <1>2
<1>4. parse(texts[m]) = texts[m].lines
    BY <1>1 DEF parse
<1>5. Len(Args[tp]) \in 3..5
    BY Signatures
<1>6. WholeText(tp).lines = Prefix(tp, 2 + Len(Args[tp]))
    BY DEF WholeText, Text, Prefix
<1>7. \E k \in 0..(2 + Len(Args[tp])) : texts[m].lines = Prefix(tp, k)
    <2>1. CASE texts[m] = WholeText(tp)
        BY <2>1, <1>5, <1>6
    <2>2. CASE texts[m] # WholeText(tp)
        <3>1. PICK k \in 0..(1 + Len(Args[tp])), cut \in {"none", "early", "late"} :
                  texts[m] = Text(tp, k, cut)
            BY <2>2, <1>3 DEF Texts
        <3>2. k \in 0..(2 + Len(Args[tp])) /\ texts[m].lines = Prefix(tp, k)
            BY <3>1, <1>5 DEF Text, Prefix
        <3>q. QED BY <3>2
    <2>q. QED BY <2>1, <2>2
<1>q. QED BY <1>1, <1>3, <1>4, <1>6, <1>7

\* A file that was read to its end parses.
LEMMA WholeReads ==
    ASSUME NEW tp \in TracepointSet, NEW texts, DOMAIN texts # {}, DOMAIN texts \subseteq Tracefs,
           \A m \in DOMAIN texts : texts[m] = WholeText(tp)
    PROVE  read(texts) # <<>>
<1>1. WholeText(tp).lines # <<>>
    <2>1. Len(Args[tp]) \in 3..5
        BY Signatures
    <2>2. 1 \in DOMAIN WholeText(tp).lines
        BY <2>1 DEF WholeText, Text
    <2>q. QED BY <2>2
<1>2. \A m \in DOMAIN texts : parse(texts[m]) = WholeText(tp).lines
    BY DEF parse, WholeText, Text
<1> DEFINE good == {m \in DOMAIN texts : parse(texts[m]) # <<>>}
<1>3. good # {} /\ read(texts) = parse(texts[Min(good)])
    BY <1>1, <1>2 DEF read
<1>4. Min(good) \in good
    <2>1. good \subseteq {1, 2}
        BY DEF Tracefs
    <2>2. \E x \in good : \A y \in good : x <= y
        BY <1>3, <2>1
    <2>q. QED BY <2>2 DEF Min
<1>q. QED BY <1>3, <1>4

\* The compiled-in offsets are natural numbers.
LEMMA DefaultsAreNat ==
    ASSUME NEW tp \in TracepointSet
    PROVE  arithmetic_default[tp] \in [Wanted(tp) -> Nat]
<1>1. \A f \in Wanted(tp) : sys_arg(ArgNumber[tp][f]) \in Nat
    BY ArgNumbers DEF sys_arg, ARG_BASE_DEFAULT
<1>q. QED BY <1>1 DEF arithmetic_default

(***************************************************************************)
(* What resolve returns and pushes for the first k lines of a true file.   *)
(***************************************************************************)
LEMMA ResolveTells ==
    ASSUME NEW tp \in TracepointSet, NEW f \in Wanted(tp), kernel.base \in Nat,
           NEW k \in 0..(2 + Len(Args[tp])), NEW d \in Nat
    PROVE  LET offset == resolve(Prefix(tp, k), f, d)
               pushed == messages(Prefix(tp, k), f, d)
           IN  /\ offset \in Nat
               /\ offset = Actual(tp, f) \/ "fallback" \in pushed
               /\ offset = d \/ "differs" \in pushed
               /\ k = 2 + Len(Args[tp]) => offset = Actual(tp, f) /\ "fallback" \notin pushed
<1>1. CASE valid(Prefix(tp, k), f)
    <2>1. Named(Prefix(tp, k), f) # {}
        BY <1>1 DEF valid
    <2>2. resolve(Prefix(tp, k), f, d) = Actual(tp, f)
        BY <1>1, <2>1, LineOfField DEF resolve
    <2>3. Actual(tp, f) \in Nat
        BY ActualIs, ArgNumbers
    <2>q. QED BY <1>1, <2>2, <2>3 DEF messages
<1>2. CASE ~valid(Prefix(tp, k), f)
    <2>1. k # 2 + Len(Args[tp])
        BY <1>2, WholeIsValid
    <2>q. QED BY <1>2, <2>1 DEF messages, resolve
<1>q. QED BY <1>1, <1>2

-----------------------------------------------------------------------------
(***************************************************************************)
(* The inductive invariant.  A tracepoint is behind Discover (Done) or its *)
(* defaults are untouched; for those behind, each offset is right or       *)
(* reported, and those read to the end are right and not reported.         *)
(***************************************************************************)
Done(tp) == stage # "discovering" \/ \E i \in 1..(step - 1) : tp = Tracepoints[i]

Told(tp, f) ==
    /\ abi.offsets[tp][f] = Actual(tp, f) \/ <<tp, f, "fallback">> \in diagnostics
    /\ abi.offsets[tp][f] = arithmetic_default[tp][f] \/ <<tp, f, "differs">> \in diagnostics

Believed(tp, f) ==
    /\ abi.offsets[tp][f] = Actual(tp, f)
    /\ <<tp, f, "fallback">> \notin diagnostics

StepInv ==
    /\ AbiTypeOK
    /\ stage = "loading" => step = 1

OffsetInv ==
    /\ whole \subseteq TracepointSet
    /\ \A tp \in TracepointSet :
          IF Done(tp) THEN \A f \in Wanted(tp) : Told(tp, f) /\ (tp \in whole => Believed(tp, f))
          ELSE /\ tp \notin whole
               /\ abi.offsets[tp] = arithmetic_default[tp]
               /\ \A f, m : <<tp, f, m>> \notin diagnostics
    /\ whole # {} => abi.discovered
    /\ stage \in {"attaching", "running"} => globals = abi.offsets

ProbeInv ==
    /\ stage \in {"attaching", "running"} =>
          \A i \in 1..8 :
              /\ i < step \/ stage = "running"
              /\ AttachOrder[i] = "open" => Exists("open") /\ abi.discovered
              => AttachOrder[i] \in attached

AbiInv == StepInv /\ OffsetInv /\ ProbeInv

LEMMA AbiInitial == AbiInit => AbiInv
<1> SUFFICES ASSUME AbiInit PROVE AbiInv
    OBVIOUS
<1>1. StepInv
    <2>1. \A tp \in TracepointSet : arithmetic_default[tp] \in [Wanted(tp) -> Nat]
        BY DefaultsAreNat
    <2>2. DOMAIN arithmetic_default = TracepointSet
        BY DEF arithmetic_default
    <2>3. abi.offsets = arithmetic_default /\ abi.has_open = FALSE /\ abi.discovered = FALSE
        BY DEF AbiInit
    <2>q. QED BY <2>1, <2>2, <2>3, AbiAssumption DEF AbiInit, StepInv, AbiTypeOK
<1>2. OffsetInv
    <2>1. \A tp \in TracepointSet : ~Done(tp)
        BY DEF AbiInit, Done
    <2>q. QED BY <2>1 DEF AbiInit, OffsetInv
<1>3. ProbeInv
    BY DEF AbiInit, ProbeInv
<1>q. QED BY <1>1, <1>2, <1>3 DEF AbiInv

\* A step of Discover resolves one tracepoint and leaves the others alone.
LEMMA DiscoverStep ==
    ASSUME AbiInv, Discover
    PROVE  LET tp == Tracepoints[step] IN
           /\ tp \in TracepointSet /\ ~Done(tp)
           /\ \A t \in TracepointSet : Done(t)' <=> Done(t) \/ t = tp
           /\ whole' = whole \/ (whole' = whole \cup {tp} /\ abi'.discovered)
           /\ abi.discovered => abi'.discovered
           /\ abi'.has_open \in BOOLEAN /\ abi'.discovered \in BOOLEAN
           /\ DOMAIN abi'.offsets = TracepointSet
           /\ \A t \in TracepointSet : t # tp => abi'.offsets[t] = abi.offsets[t]
           /\ abi'.offsets[tp] \in [Wanted(tp) -> Nat]
           /\ diagnostics \subseteq diagnostics'
           /\ \A t, f, m : <<t, f, m>> \in diagnostics' \ diagnostics => t = tp
           /\ \A f \in Wanted(tp) :
                 /\ abi'.offsets[tp][f] = Actual(tp, f) \/ <<tp, f, "fallback">> \in diagnostics'
                 /\ abi'.offsets[tp][f] = arithmetic_default[tp][f]
                        \/ <<tp, f, "differs">> \in diagnostics'
                 /\ tp \in whole' => /\ abi'.offsets[tp][f] = Actual(tp, f)
                                     /\ <<tp, f, "fallback">> \notin diagnostics'
<1> DEFINE tp == Tracepoints[step]
<1>1. stage = "discovering" /\ step \in 1..5 /\ kernel.base \in Nat /\ kernel.mounts \subseteq Tracefs
    BY AbiAssumption DEF AbiInv, StepInv, AbiTypeOK, Discover
<1>2. tp \in TracepointSet
    BY <1>1 DEF TracepointSet
<1>3. /\ ~Done(tp)
      /\ \A t \in TracepointSet : Done(t)' <=> Done(t) \/ t = tp
    <2>1. \A i \in 1..5, j \in 1..5 : Tracepoints[i] = Tracepoints[j] => i = j
        BY DEF Tracepoints
    <2>2. ~Done(tp)
        BY <1>1, <2>1 DEF Done
    <2>3. CASE step = 5
        <3>1. stage' = "loading"
            BY <2>3 DEF Discover, NextTracepoint, Tracepoints
        <3>2. \A t \in TracepointSet : \E i \in 1..5 : t = Tracepoints[i]
            BY DEF TracepointSet
        <3>3. \A i \in 1..5 : i \in 1..(step - 1) \/ i = step
            BY <2>3
        <3>q. QED BY <1>1, <2>2, <3>1, <3>2, <3>3 DEF Done
    <2>4. CASE step # 5
        <3>1. stage' = "discovering" /\ step' = step + 1
            BY <1>1, <2>4 DEF Discover, NextTracepoint, Tracepoints
        <3>2. 1..(step' - 1) = 1..(step - 1) \cup {step}
            BY <1>1, <3>1
        <3>q. QED BY <1>1, <2>2, <3>1, <3>2 DEF Done
    <2>q. QED BY <2>2, <2>3, <2>4
<1>4. PICK texts \in Reads(tp) :
          LET damaged == {m \in DOMAIN texts : texts[m] # WholeText(tp)}
              fmt     == read(texts)
          IN  /\ whole' = IF damaged = {} /\ DOMAIN texts # {} THEN whole \cup {tp} ELSE whole
              /\ IF fmt = <<>> THEN FallBack(tp) ELSE Resolve(tp, fmt)
    BY DEF Discover
<1>5. /\ tp \notin whole /\ abi.offsets[tp] = arithmetic_default[tp]
      /\ \A f, m : <<tp, f, m>> \notin diagnostics
    BY <1>2, <1>3 DEF AbiInv, OffsetInv
<1>6. /\ DOMAIN abi.offsets = TracepointSet
      /\ abi.has_open \in BOOLEAN /\ abi.discovered \in BOOLEAN
      /\ \A t \in TracepointSet : abi.offsets[t] \in [Wanted(t) -> Nat]
    BY DEF AbiInv, StepInv, AbiTypeOK
<1> HIDE DEF tp
<1>7. CASE read(texts) = <<>>
    <2>1. FallBack(tp)
        BY <1>4, <1>7
    <2>2. abi' = abi
        BY <2>1 DEF FallBack
    <2>3. \A t, f, m : <<t, f, m>> \in diagnostics' <=>
              <<t, f, m>> \in diagnostics \/ (t = tp /\ f \in Wanted(tp) /\ m = "fallback")
        BY <2>1 DEF FallBack
    <2>4. whole' = whole
        <3>1. DOMAIN texts \subseteq Tracefs
            BY <1>1 DEF Reads
        <3>q. QED BY <1>2, <1>4, <1>7, <3>1, WholeReads
    <2>5. diagnostics \subseteq diagnostics' /\ \A t, f, m : <<t, f, m>> \in diagnostics' \ diagnostics => t = tp
        BY <2>1, <2>3 DEF FallBack
    <2>6. \A f \in Wanted(tp) :
                 /\ abi'.offsets[tp][f] = Actual(tp, f) \/ <<tp, f, "fallback">> \in diagnostics'
                 /\ abi'.offsets[tp][f] = arithmetic_default[tp][f]
        BY <1>5, <2>2, <2>3
    <2>7. tp \notin whole'
        BY <1>5, <2>4
    <2>8. /\ abi.discovered => abi'.discovered
          /\ abi'.has_open \in BOOLEAN /\ abi'.discovered \in BOOLEAN
          /\ DOMAIN abi'.offsets = TracepointSet
          /\ \A t \in TracepointSet : t # tp => abi'.offsets[t] = abi.offsets[t]
          /\ abi'.offsets[tp] \in [Wanted(tp) -> Nat]
        BY <1>2, <1>6, <2>2
    <2>q. QED BY <1>2, <1>3, <2>4, <2>5, <2>6, <2>7, <2>8 DEF tp
<1>8. CASE read(texts) # <<>>
    <2> DEFINE fmt == read(texts)
               d(f) == arithmetic_default[tp][f]
    <2>1. PICK k \in 0..(2 + Len(Args[tp])) :
              /\ fmt = Prefix(tp, k)
              /\ (\A m \in DOMAIN texts : texts[m] = WholeText(tp))
                     => fmt = Prefix(tp, 2 + Len(Args[tp]))
        BY <1>1, <1>2, <1>8, ReadIsPrefix
    <2>2. Resolve(tp, fmt)
        BY <1>4, <1>8
    <2>3. abi'.offsets = [abi.offsets EXCEPT ![tp] = [f \in Wanted(tp) |-> resolve(fmt, f, d(f))]]
        BY <2>2 DEF Resolve
    <2>4. \A f \in Wanted(tp) : abi'.offsets[tp][f] = resolve(fmt, f, d(f))
        BY <1>2, <1>6, <2>3
    <2>5. \A t, f, m : <<t, f, m>> \in diagnostics' <=>
              \/ <<t, f, m>> \in diagnostics
              \/ t = tp /\ f \in Wanted(tp) /\ m \in messages(fmt, f, d(f))
        BY <2>2 DEF Resolve
    <2>6. ASSUME NEW f \in Wanted(tp)
          PROVE  /\ abi'.offsets[tp][f] \in Nat
                 /\ abi'.offsets[tp][f] = Actual(tp, f) \/ <<tp, f, "fallback">> \in diagnostics'
                 /\ abi'.offsets[tp][f] = d(f) \/ <<tp, f, "differs">> \in diagnostics'
                 /\ tp \in whole' => /\ abi'.offsets[tp][f] = Actual(tp, f)
                                     /\ <<tp, f, "fallback">> \notin diagnostics'
        <3>1. d(f) \in Nat
            BY <1>2, DefaultsAreNat
        <3> HIDE DEF d
        <3>2. /\ resolve(fmt, f, d(f)) \in Nat
              /\ resolve(fmt, f, d(f)) = Actual(tp, f) \/ "fallback" \in messages(fmt, f, d(f))
              /\ resolve(fmt, f, d(f)) = d(f) \/ "differs" \in messages(fmt, f, d(f))
            BY <1>1, <1>2, <2>1, <3>1, ResolveTells
        <3>3. ASSUME tp \in whole'
              PROVE  /\ resolve(fmt, f, d(f)) = Actual(tp, f)
                     /\ "fallback" \notin messages(fmt, f, d(f))
            <4>1. fmt = Prefix(tp, 2 + Len(Args[tp]))
                BY <1>4, <1>5, <2>1, <3>3
            <4>2. 2 + Len(Args[tp]) \in 0..(2 + Len(Args[tp]))
                <5>1. \A l \in 3..5 : 2 + l \in 0..(2 + l)
                    OBVIOUS
                <5>q. QED BY <1>2, <5>1, Signatures
            <4>q. QED BY <1>1, <1>2, <3>1, <4>1, <4>2, ResolveTells
        <3>q. QED BY <1>5, <2>4, <2>5, <3>2, <3>3
    <2>7. abi'.offsets[tp] \in [Wanted(tp) -> Nat]
        BY <1>2, <1>6, <2>3, <2>6
    <2>8. /\ abi'.has_open \in BOOLEAN /\ abi'.discovered = TRUE
          /\ DOMAIN abi'.offsets = TracepointSet
          /\ \A t \in TracepointSet : t # tp => abi'.offsets[t] = abi.offsets[t]
        BY <1>2, <1>6, <2>2, <2>3 DEF Resolve
    <2>9. whole' = whole \/ whole' = whole \cup {tp}
        BY <1>4
    <2>10. /\ diagnostics \subseteq diagnostics'
           /\ \A t, f, m : <<t, f, m>> \in diagnostics' \ diagnostics => t = tp
        BY <2>2, <2>5 DEF Resolve
    <2> HIDE DEF fmt
    <2>q. QED BY <1>2, <1>3, <1>6, <2>6, <2>7, <2>8, <2>9, <2>10 DEF tp
<1>q. QED BY <1>7, <1>8

\* Every step of the agent's start keeps the invariant.
LEMMA AbiPreserved == AbiInv /\ [AbiNext]_abiVars => AbiInv'
<1> SUFFICES ASSUME AbiInv, [AbiNext]_abiVars PROVE AbiInv'
    OBVIOUS
<1>0. AbiTypeOK
    BY DEF AbiInv, StepInv
<1>1. CASE Discover
    <2> DEFINE tp == Tracepoints[step]
    <2>0. UNCHANGED <<kernel, globals, attached>> /\ NextTracepoint /\ stage = "discovering"
          /\ step \in 1..5 /\ short' <= MaxShort
        BY <1>0, <1>1 DEF Discover, AbiTypeOK
    <2>1. StepInv'
        <3>1. /\ stage' \in {"discovering", "loading"}
              /\ stage' = "discovering" => step' \in 1..5
              /\ stage' = "loading" => step' = 1
            BY <2>0 DEF NextTracepoint, Tracepoints
        <3>2. short' \in 0..MaxShort
            <4>1. PICK texts \in Reads(tp) :
                      short' = short + Cardinality({m \in DOMAIN texts : texts[m] # WholeText(tp)})
                BY <1>1 DEF Discover
            <4>2. DOMAIN texts \subseteq Tracefs
                BY <1>0 DEF Reads, AbiTypeOK
            <4>3. IsFiniteSet(Tracefs)
                <5>1. IsFiniteSet({}) /\ \A S, x : IsFiniteSet(S) => IsFiniteSet(S \cup {x})
                    BY FS_EmptySet, FS_AddElement
                <5>2. Tracefs = ({} \cup {1}) \cup {2}
                    BY DEF Tracefs
                <5>q. QED BY <5>1, <5>2
            <4>4. Cardinality({m \in DOMAIN texts : texts[m] # WholeText(tp)}) \in Nat
                BY <4>2, <4>3, FS_Subset, FS_CardinalityType
            <4>q. QED BY <1>0, <2>0, <4>1, <4>4, AbiAssumption DEF AbiTypeOK
        <3>3. whole' \subseteq TracepointSet /\ abi'.has_open \in BOOLEAN /\ abi'.discovered \in BOOLEAN
            BY <1>0, <1>1, DiscoverStep DEF AbiTypeOK
        <3>4. /\ DOMAIN abi'.offsets = TracepointSet
              /\ \A t \in TracepointSet : abi'.offsets[t] \in [Wanted(t) -> Nat]
            BY <1>0, <1>1, DiscoverStep DEF AbiTypeOK
        <3>q. QED BY <1>0, <2>0, <3>1, <3>2, <3>3, <3>4 DEF AbiTypeOK, StepInv
    <2>2. OffsetInv'
        <3>1. \A t \in TracepointSet : \A f \in Wanted(t) : Actual(t, f)' = Actual(t, f)
            BY <2>0 DEF Actual
        <3>2. stage' \notin {"attaching", "running"}
            BY <2>0 DEF NextTracepoint
        <3>3. whole' # {} => abi'.discovered
            BY <1>1, DiscoverStep DEF AbiInv, OffsetInv
        <3>4. ASSUME NEW t \in TracepointSet, Done(t)', NEW f \in Wanted(t)
              PROVE  Told(t, f)' /\ (t \in whole' => Believed(t, f)')
            <4>1. CASE t = tp
                BY <1>1, <3>1, <3>4, <4>1, DiscoverStep DEF Told, Believed
            <4>2. CASE t # tp
                <5>1. Done(t) /\ abi'.offsets[t] = abi.offsets[t] /\ (t \in whole' => t \in whole)
                    BY <1>1, <3>4, <4>2, DiscoverStep
                <5>2. \A m : <<t, f, m>> \in diagnostics' <=> <<t, f, m>> \in diagnostics
                    BY <1>1, <4>2, DiscoverStep
                <5>3. Told(t, f) /\ (t \in whole => Believed(t, f))
                    BY <5>1 DEF AbiInv, OffsetInv
                <5>q. QED BY <3>1, <5>1, <5>2, <5>3 DEF Told, Believed
            <4>q. QED BY <4>1, <4>2
        <3>5. ASSUME NEW t \in TracepointSet, ~Done(t)'
              PROVE  /\ t \notin whole'
                     /\ abi'.offsets[t] = arithmetic_default[t]
                     /\ \A f, m : <<t, f, m>> \notin diagnostics'
            <4>1. t # tp /\ ~Done(t)
                BY <1>1, <3>5, DiscoverStep
            <4>2. /\ t \notin whole /\ abi.offsets[t] = arithmetic_default[t]
                  /\ \A f, m : <<t, f, m>> \notin diagnostics
                BY <4>1 DEF AbiInv, OffsetInv
            <4>q. QED BY <1>1, <4>1, <4>2, DiscoverStep
        <3>6. whole' \subseteq TracepointSet
            BY <2>1 DEF StepInv, AbiTypeOK
        <3>7. arithmetic_default' = arithmetic_default
            BY DEF arithmetic_default
        <3>q. QED BY <3>2, <3>3, <3>4, <3>5, <3>6, <3>7 DEF OffsetInv
    <2>3. ProbeInv'
        BY <2>0 DEF ProbeInv, NextTracepoint
    <2>q. QED BY <2>1, <2>2, <2>3 DEF AbiInv
<1>2. ASSUME UNCHANGED <<kernel, whole, abi, diagnostics>>,
             stage # "discovering", stage' # "discovering",
             stage' \in {"attaching", "running"} => globals' = abi.offsets
      PROVE  OffsetInv'
    <2>1. \A t \in TracepointSet : Done(t) /\ Done(t)'
        BY <1>2 DEF Done
    <2>2. \A t \in TracepointSet : \A f \in Wanted(t) :
              Told(t, f)' = Told(t, f) /\ Believed(t, f)' = Believed(t, f)
        BY <1>2 DEF Told, Believed, Actual
    <2>q. QED BY <1>2, <2>1, <2>2 DEF AbiInv, OffsetInv
<1>3. CASE LoadProbes
    <2>1. StepInv'
        BY <1>0, <1>3 DEF AbiInv, StepInv, AbiTypeOK, LoadProbes
    <2>2. OffsetInv'
        BY <1>2, <1>3 DEF LoadProbes
    <2>3. ProbeInv'
        <3>1. step' = 1 /\ stage' = "attaching"
            BY <1>3 DEF AbiInv, StepInv, LoadProbes
        <3>q. QED BY <3>1 DEF ProbeInv
    <2>q. QED BY <2>1, <2>2, <2>3 DEF AbiInv
<1>4. CASE Attach
    <2>0. /\ stage = "attaching" /\ step \in 1..8 /\ NextProgram /\ Len(AttachOrder) = 8
          /\ UNCHANGED <<kernel, short, whole, abi, diagnostics, globals>>
          /\ attached' = attached \cup {AttachOrder[step]}
        BY <1>0, <1>4 DEF AbiTypeOK, Attach, AttachOrder
    <2>1. StepInv'
        BY <1>0, <2>0 DEF StepInv, AbiTypeOK, NextProgram
    <2>2. OffsetInv'
        BY <1>2, <2>0 DEF NextProgram, AbiInv, OffsetInv
    <2>3. ProbeInv'
        BY <2>0 DEF AbiInv, ProbeInv, NextProgram, Exists
    <2>q. QED BY <2>1, <2>2, <2>3 DEF AbiInv
<1>5. CASE SkipOpen
    <2>0. /\ stage = "attaching" /\ step = 3 /\ NextProgram /\ Len(AttachOrder) = 8
          /\ UNCHANGED <<kernel, short, whole, abi, diagnostics, globals, attached>>
          /\ ~(Exists("open") /\ abi.discovered)
        BY <1>0, <1>5 DEF AbiTypeOK, SkipOpen, AttachOrder, Refuses, Exists
    <2>1. StepInv'
        BY <1>0, <2>0 DEF StepInv, AbiTypeOK, NextProgram
    <2>2. OffsetInv'
        BY <1>2, <2>0 DEF NextProgram, AbiInv, OffsetInv
    <2>3. ProbeInv'
        <3>1. AttachOrder[3] = "open"
            BY DEF AttachOrder
        <3>q. QED BY <2>0, <3>1 DEF AbiInv, ProbeInv, NextProgram, Exists
    <2>q. QED BY <2>1, <2>2, <2>3 DEF AbiInv
<1>6. CASE StartFails
    <2>1. StepInv'
        BY <1>0, <1>6 DEF StepInv, AbiTypeOK, StartFails
    <2>2. OffsetInv'
        BY <1>2, <1>6 DEF StartFails
    <2>3. ProbeInv'
        BY <1>6 DEF ProbeInv, StartFails
    <2>q. QED BY <2>1, <2>2, <2>3 DEF AbiInv
<1>7. CASE UNCHANGED abiVars
    <2>1. StepInv' /\ ProbeInv'
        BY <1>7 DEF AbiInv, StepInv, AbiTypeOK, ProbeInv, abiVars, Exists
    <2>2. OffsetInv'
        BY <1>7 DEF AbiInv, OffsetInv, Done, Told, Believed, Actual, abiVars
    <2>q. QED BY <2>1, <2>2 DEF AbiInv
<1>q. QED BY <1>1, <1>3, <1>4, <1>5, <1>6, <1>7 DEF AbiNext

\* What the invariant says to the operator.
LEMMA AbiInvImplies ==
    AbiInv => AbiTypeOK /\ NoSilentMisread /\ WholeFileIsBelieved /\ OpenCoverage
<1> SUFFICES ASSUME AbiInv
             PROVE  AbiTypeOK /\ NoSilentMisread /\ WholeFileIsBelieved /\ OpenCoverage
    OBVIOUS
<1>1. NoSilentMisread /\ WholeFileIsBelieved
    BY DEF AbiInv, OffsetInv, Done, Told, Believed, NoSilentMisread, WholeFileIsBelieved
<1>2. OpenCoverage
    <2>1. {AttachOrder[i] : i \in {1, 2, 4, 5, 6, 7, 8}} =
              {"execve", "execveat", "openat", "init_module", "finit_module", "connect", "lsm"}
          /\ AttachOrder[3] = "open"
          /\ \A i \in {1, 2, 4, 5, 6, 7, 8} : AttachOrder[i] # "open"
        BY DEF AttachOrder
    <2>2. ASSUME stage = "running", NEW i \in {1, 2, 4, 5, 6, 7, 8}
          PROVE  AttachOrder[i] \in attached
        BY <2>1, <2>2 DEF AbiInv, ProbeInv
    <2>3. stage = "running" /\ Exists("open") /\ abi.discovered => "open" \in attached
        BY <2>1 DEF AbiInv, ProbeInv
    <2>4. whole # {} => abi.discovered
        BY DEF AbiInv, OffsetInv
    <2>q. QED BY <2>1, <2>2, <2>3, <2>4 DEF OpenCoverage
<1>q. QED BY <1>1, <1>2 DEF AbiInv, StepInv

(***************************************************************************)
(* Every variable of the start keeps its type.  (SyscallAbi::discover,     *)
(* EbpfKernel::new and the attach functions)                               *)
(***************************************************************************)
THEOREM AbiTypeCorrect == AbiSpec => []AbiTypeOK
<1>1. AbiSpec => []AbiInv
    BY AbiInitial, AbiPreserved, PTL DEF AbiSpec
<1>q. QED BY <1>1, AbiInvImplies, PTL

(***************************************************************************)
(* No silent fallback: each offset the probes use is the kernel's own, or  *)
(* the report names the field, for any header length and any number of     *)
(* short reads; and a file read to its end is believed.  (resolve)         *)
(***************************************************************************)
THEOREM OffsetTheorem == AbiSpec => [](NoSilentMisread /\ WholeFileIsBelieved)
<1>1. AbiSpec => []AbiInv
    BY AbiInitial, AbiPreserved, PTL DEF AbiSpec
<1>q. QED BY <1>1, AbiInvImplies, PTL

(***************************************************************************)
(* An agent that watches has all its probes, open included when the kernel *)
(* has it and any format file was read to its end.                         *)
(***************************************************************************)
THEOREM ProbeTheorem == AbiSpec => []OpenCoverage
<1>1. AbiSpec => []AbiInv
    BY AbiInitial, AbiPreserved, PTL DEF AbiSpec
<1>q. QED BY <1>1, AbiInvImplies, PTL

-----------------------------------------------------------------------------
(***************************************************************************)
(* The probes on one CPU, with what the discovery gave them.               *)
(***************************************************************************)

TracepointPrograms ==
    {"execve", "execveat", "open", "openat", "init_module", "finit_module", "connect"}
Programs == TracepointPrograms \cup {"lsm"}

\* The fields of a struct share no cell.
LEMMA FieldsApart ==
    ASSUME NEW prog \in Programs
    PROVE  /\ \A f \in DOMAIN Struct[prog] : Struct[prog][f] \subseteq Cells
           /\ \A f \in DOMAIN Struct[prog] : \A g \in DOMAIN Struct[prog] :
                 \A c : c \in Struct[prog][f] /\ c \in Struct[prog][g] => f = g
<1>1. Struct[prog] \in {ExecveEvent, FileEvent, LSMEvent, ModuleEvent, NetworkEvent}
    BY DEF Programs, TracepointPrograms, Struct
<1>2. CASE Struct[prog] = ExecveEvent
    BY <1>2 DEF ExecveEvent, PathCells, Cells
<1>3. CASE Struct[prog] = FileEvent
    BY <1>3 DEF FileEvent, Cells
<1>4. CASE Struct[prog] = LSMEvent
    BY <1>4 DEF LSMEvent, PathCells, Cells
<1>5. CASE Struct[prog] = ModuleEvent
    BY <1>5 DEF ModuleEvent, Cells
<1>6. CASE Struct[prog] = NetworkEvent
    BY <1>6 DEF NetworkEvent, Cells
<1>q. QED BY <1>1, <1>2, <1>3, <1>4, <1>5, <1>6

\* The buffer holds the content of all fields of the program's struct.
Written(buffer, prog, content, id) ==
    \A f \in Fields(prog) : \A c \in Struct[prog][f] : buffer[c] = <<id, content[f]>>

\* The event is the program's struct with that content.
Reports(e, prog, content, id) ==
    /\ e.prog = prog /\ e.call = id /\ e.amid = {}
    /\ \A f \in Fields(prog) : \A cell \in e.body[f] : cell = <<id, content[f]>>

\* A program that writes every field of its struct leaves nothing of the last one in them.
LEMMA WholeWrite ==
    ASSUME NEW prog \in Programs, NEW content, NEW id, DOMAIN content = Fields(prog)
    PROVE  Written(Write(Struct[prog], content, id), prog, content, id)
<1> SUFFICES ASSUME NEW f \in Fields(prog), NEW c \in Struct[prog][f]
             PROVE  Write(Struct[prog], content, id)[c] = <<id, content[f]>>
    BY DEF Written
<1>0. Fields(prog) \subseteq DOMAIN Struct[prog]
    BY DEF Fields
<1>1. c \in Cells
    BY <1>0, FieldsApart
<1>2. \A g \in DOMAIN content : c \in Struct[prog][g] <=> g = f
    BY <1>0, FieldsApart
<1>3. (CHOOSE g \in DOMAIN content : c \in Struct[prog][g]) = f
    BY <1>2
<1>q. QED BY <1>1, <1>2, <1>3 DEF Write

\* The event of such a buffer.
LEMMA WholeEvent ==
    ASSUME NEW prog, NEW buffer, NEW content, NEW id, Written(buffer, prog, content, id)
    PROVE  Reports(Event(prog, buffer, id, {}), prog, content, id)
BY DEF Written, Reports, Event, Fields

\* A tracepoint program's event is its struct, filled for its own call.
LEMMA TracepointEvent ==
    ASSUME NEW prog \in Programs, NEW content, NEW outputs,
           RunTracepoint(prog, content, outputs), outputs => DOMAIN content = Fields(prog)
    PROVE  \A e \in out' : outputs /\ Reports(e, prog, content, calls')
<1>1. CASE outputs
    <2>1. Written(Write(Struct[prog], content, calls'), prog, content, calls')
        BY <1>1, WholeWrite
    <2>2. Written(scratch', prog, content, calls')
        BY <2>1 DEF RunTracepoint
    <2>3. Reports(Event(prog, scratch', calls', {}), prog, content, calls')
        BY <2>2, WholeEvent
    <2>q. QED BY <1>1, <2>3 DEF RunTracepoint
<1>2. CASE ~outputs
    BY <1>2 DEF RunTracepoint
<1>q. QED BY <1>1, <1>2

-----------------------------------------------------------------------------
(***************************************************************************)
(* The inductive invariant.  The probes run only behind the offsets that   *)
(* AbiInv speaks of.  An LSM program under way knows of the older ones     *)
(* beside it, so whatever it has written so far has been overwritten only  *)
(* by calls it went in amid or by later ones; and where the LSM program    *)
(* keeps its CPU there are none of either.                                 *)
(***************************************************************************)
AttachedInv ==
    /\ attached # {} => stage \in {"attaching", "running"}
    /\ "lsm" \in attached => stage = "running"

LsmCells == {0, 8} \cup PathCells

\* The calls that ran while call c was under way, c among them.
During(c) == {c} \cup lsm[c].amid \cup (c + 1)..calls

LsmInv ==
    \A c \in DOMAIN lsm :
        /\ \A d \in DOMAIN lsm : d < c => d \in lsm[c].amid
        /\ ~preemptible => lsm[c].amid = {} /\ c = calls
        /\ scratch[0][1] \in During(c)
        /\ lsm[c].next = "output" => \A cell \in LsmCells : scratch[cell][1] \in During(c)

ProbesInv == AbiInv /\ AttachedInv /\ LsmInv /\ TypeOK /\ EventIsOwn /\ EventIsFaithful

LEMMA ProbesInitial == Init => ProbesInv
<1> SUFFICES ASSUME Init PROVE ProbesInv
    OBVIOUS
<1>1. AbiInv
    BY AbiInitial DEF Init
<1>2. attached = {} /\ out = {} /\ lsm = <<>> /\ DOMAIN lsm = {}
    BY DEF Init, AbiInit
<1>3. AttachedInv /\ LsmInv /\ EventIsOwn /\ EventIsFaithful
    BY <1>2 DEF AttachedInv, LsmInv, EventIsOwn, EventIsFaithful
<1>4. TypeOK
    BY <1>1, <1>2, AbiInvImplies, MaxCallsAssumption DEF TypeOK, Init
<1>q. QED BY <1>1, <1>3, <1>4 DEF ProbesInv

\* The agent's steps leave the buffer alone, and detach nothing that runs.
LEMMA AgentStep == ProbesInv /\ Agent => ProbesInv'
<1> SUFFICES ASSUME ProbesInv, Agent PROVE ProbesInv'
    OBVIOUS
<1>0. AbiInv' /\ AbiTypeOK /\ AbiTypeOK'
    <2>1. AbiInv'
        BY AbiPreserved DEF ProbesInv, Agent
    <2>q. QED BY <2>1 DEF ProbesInv, AbiInv, StepInv
<1>1. /\ AttachedInv'
      /\ lsm # <<>> => "lsm" \in attached'
    <2>1. CASE Discover
        BY <2>1 DEF Discover, NextTracepoint, ProbesInv, AttachedInv, TypeOK
    <2>2. CASE LoadProbes
        BY <2>2 DEF LoadProbes, ProbesInv, AttachedInv, TypeOK
    <2>3. CASE Attach
        <3>1. step \in 1..8
            BY <1>0, <2>3 DEF AbiTypeOK, Attach
        <3>2. AttachOrder[step] = "lsm" => step = 8
            BY <3>1 DEF AttachOrder
        <3>q. QED BY <2>3, <3>2 DEF Attach, NextProgram, AttachOrder, ProbesInv, AttachedInv, TypeOK
    <2>4. CASE SkipOpen
        BY <2>4 DEF SkipOpen, NextProgram, ProbesInv, AttachedInv, TypeOK
    <2>5. CASE StartFails
        BY <2>5 DEF StartFails, ProbesInv, AttachedInv, TypeOK
    <2>q. QED BY <2>1, <2>2, <2>3, <2>4, <2>5 DEF Agent, AbiNext
<1>2. LsmInv'
    BY DEF Agent, ProbesInv, LsmInv, During
<1>3. TypeOK'
    BY <1>0, <1>1 DEF Agent, ProbesInv, TypeOK
<1>4. EventIsOwn' /\ EventIsFaithful'
    BY DEF Agent, EventIsOwn, EventIsFaithful
<1>q. QED BY <1>0, <1>1, <1>2, <1>3, <1>4 DEF ProbesInv

-----------------------------------------------------------------------------
\* An argument is found at its offset.
LEMMA WordAt ==
    ASSUME NEW tp \in TracepointSet, NEW n \in DOMAIN Args[tp], kernel.base \in Nat
    PROVE  Word(tp, TrueOffset(kernel.base, n - 1)) = Args[tp][n]
<1>1. DOMAIN Args[tp] = 1..Len(Args[tp]) /\ Len(Args[tp]) \in Nat
    BY Signatures
<1>2. {i \in DOMAIN Args[tp] :
          TrueOffset(kernel.base, i - 1) = TrueOffset(kernel.base, n - 1)} = {n}
    BY <1>1 DEF TrueOffset
<1>q. QED BY <1>2 DEF Word

\* The word at a field's actual offset is the argument of that name.
LEMMA WordOf ==
    ASSUME NEW tp \in TracepointSet, NEW f \in Wanted(tp), kernel.base \in Nat
    PROVE  Word(tp, Actual(tp, f)) = f
<1>1. /\ Place(tp, f) \in DOMAIN Args[tp] /\ Args[tp][Place(tp, f)] = f
      /\ ArgNumber[tp][f] \in 0..2
    BY ArgNumbers
<1>2. Actual(tp, f) = TrueOffset(kernel.base, Place(tp, f) - 1)
    BY <1>1, ActualIs DEF TrueOffset, Place
<1>q. QED BY <1>1, <1>2, WordAt

\* In both exec calls argv is the word behind the filename.
LEMMA WordBehind ==
    ASSUME NEW tp \in {"execve", "execveat"}, kernel.base \in Nat
    PROVE  Word(tp, Actual(tp, "filename") + 8) = "argv"
<1>1. tp \in TracepointSet
    BY DEF TracepointSet, Tracepoints
<1>2. "filename" \in Wanted(tp)
    BY DEF Wanted, ArgNumber
<1>3. Actual(tp, "filename") + 8 = kernel.base + 8 * (ArgNumber[tp].filename + 1)
    BY <1>1, <1>2, ActualIs, ArgNumbers
<1>4. CASE tp = "execve"
    <2>1. Actual(tp, "filename") + 8 = TrueOffset(kernel.base, 2 - 1)
        BY <1>3, <1>4 DEF ArgNumber, TrueOffset
    <2>2. 2 \in DOMAIN Args[tp] /\ Args[tp][2] = "argv"
        BY <1>4 DEF Args
    <2>q. QED BY <1>1, <2>1, <2>2, WordAt
<1>5. CASE tp = "execveat"
    <2>1. Actual(tp, "filename") + 8 = TrueOffset(kernel.base, 3 - 1)
        BY <1>3, <1>5 DEF ArgNumber, TrueOffset
    <2>2. 3 \in DOMAIN Args[tp] /\ Args[tp][3] = "argv"
        BY <1>5 DEF Args
    <2>q. QED BY <1>1, <2>1, <2>2, WordAt
<1>q. QED BY <1>4, <1>5

\* Content that is faithful wherever the operator was told of no fallback.
Honest(prog, content) ==
    \A m \in Meaning :
        m.prog = prog /\ <<prog, m.slot, "fallback">> \notin diagnostics
            => content[m.field] \in {m.arg, Zero, Argv0}

\* The word a probe reads for a field that is not reported.
LEMMA WordRead ==
    ASSUME ProbesInv, attached # {}, NEW tp \in TracepointSet, NEW f \in Wanted(tp),
           <<tp, f, "fallback">> \notin diagnostics
    PROVE  globals[tp][f] = Actual(tp, f) /\ Word(tp, globals[tp][f]) = f
<1>1. stage \in {"attaching", "running"} /\ kernel.base \in Nat
    BY AbiAssumption DEF ProbesInv, AttachedInv, TypeOK, AbiTypeOK
<1>2. NoSilentMisread
    BY AbiInvImplies DEF ProbesInv
<1>3. globals[tp][f] = Actual(tp, f)
    BY <1>1, <1>2 DEF NoSilentMisread
<1>q. QED BY <1>1, <1>3, WordOf

-----------------------------------------------------------------------------
\* What the tracepoint programs fill their structs with.
LEMMA ExecveIsHonest ==
    ASSUME ProbesInv, NEW prog \in {"execve", "execveat"}, prog \in attached,
           NEW filename, filename = Word(prog, globals[prog].filename),
           NEW argv, argv = Word(prog, globals[prog].filename + 8), NEW bad
    PROVE  /\ DOMAIN ExecveContent(filename, argv, bad) = Fields(prog)
           /\ Honest(prog, ExecveContent(filename, argv, bad))
<1>0. prog \in TracepointSet /\ "filename" \in Wanted(prog)
    BY DEF TracepointSet, Tracepoints, Wanted, ArgNumber
<1>1. DOMAIN ExecveContent(filename, argv, bad) = Fields(prog)
    BY DEF ExecveContent, Fields, Struct, ExecveEvent
<1>2. ASSUME <<prog, "filename", "fallback">> \notin diagnostics
      PROVE  filename = "filename" /\ argv = "argv"
    <2>1. globals[prog].filename = Actual(prog, "filename") /\ filename = "filename"
        BY <1>0, <1>2, WordRead
    <2>2. kernel.base \in Nat
        BY AbiAssumption DEF ProbesInv, TypeOK, AbiTypeOK
    <2>q. QED BY <2>1, <2>2, WordBehind
<1>3. ASSUME NEW m \in Meaning, m.prog = prog
      PROVE  \/ m.field = "filename" /\ m.arg = "filename" /\ m.slot = "filename"
             \/ m.field = "argv" /\ m.arg = "argv" /\ m.slot = "filename"
    BY <1>3 DEF Meaning
<1>q. QED BY <1>1, <1>2, <1>3 DEF Honest, ExecveContent

LEMMA FileIsHonest ==
    ASSUME ProbesInv, NEW prog \in {"open", "openat"}, prog \in attached,
           NEW filename, filename = Word(prog, globals[prog].filename),
           NEW flags, flags = Word(prog, globals[prog].flags), NEW bad
    PROVE  /\ DOMAIN FileContent(filename, flags, bad) = Fields(prog)
           /\ Honest(prog, FileContent(filename, flags, bad))
<1>0. prog \in TracepointSet /\ {"filename", "flags"} \subseteq Wanted(prog)
    BY DEF TracepointSet, Tracepoints, Wanted, ArgNumber
<1>1. DOMAIN FileContent(filename, flags, bad) = Fields(prog)
    BY DEF FileContent, Fields, Struct, FileEvent
<1>2. <<prog, "filename", "fallback">> \notin diagnostics => filename = "filename"
    BY <1>0, WordRead
<1>3. <<prog, "flags", "fallback">> \notin diagnostics => flags = "flags"
    BY <1>0, WordRead
<1>4. ASSUME NEW m \in Meaning, m.prog = prog
      PROVE  \/ m.field = "path" /\ m.arg = "filename" /\ m.slot = "filename"
             \/ m.field = "flags" /\ m.arg = "flags" /\ m.slot = "flags"
    BY <1>4 DEF Meaning
<1>q. QED BY <1>1, <1>2, <1>3, <1>4 DEF Honest, FileContent

LEMMA NetworkIsHonest ==
    ASSUME ProbesInv, "connect" \in attached,
           NEW fd, fd = Word("connect", globals.connect.fd),
           NEW addr, addr = Word("connect", globals.connect.uservaddr)
    PROVE  /\ DOMAIN NetworkContent(fd, addr, FALSE) = Fields("connect")
           /\ Honest("connect", NetworkContent(fd, addr, FALSE))
<1>0. "connect" \in TracepointSet /\ {"fd", "uservaddr"} \subseteq Wanted("connect")
    BY DEF TracepointSet, Tracepoints, Wanted, ArgNumber
<1>1. DOMAIN NetworkContent(fd, addr, FALSE) = Fields("connect")
    BY DEF NetworkContent, Fields, Struct, NetworkEvent
<1>2. <<"connect", "fd", "fallback">> \notin diagnostics => fd = "fd"
    BY <1>0, WordRead
<1>3. <<"connect", "uservaddr", "fallback">> \notin diagnostics => addr = "uservaddr"
    BY <1>0, WordRead
<1>4. ASSUME NEW m \in Meaning, m.prog = "connect"
      PROVE  \/ m.field = "fd" /\ m.arg = "fd" /\ m.slot = "fd"
             \/ m.field \in {"daddr", "dport"} /\ m.arg = "uservaddr" /\ m.slot = "uservaddr"
    BY <1>4 DEF Meaning
<1>q. QED BY <1>1, <1>2, <1>3, <1>4 DEF Honest, NetworkContent

LEMMA ModuleIsHonest ==
    ASSUME NEW prog \in {"init_module", "finit_module"}
    PROVE  /\ DOMAIN ModuleContent = Fields(prog)
           /\ Honest(prog, ModuleContent)
BY DEF ModuleContent, Fields, Struct, ModuleEvent, Honest, Meaning

-----------------------------------------------------------------------------
\* Probes leave the agent's variables alone.
LEMMA ProbeLeavesAgent ==
    ASSUME ProbesInv, UNCHANGED abiVars
    PROVE  AbiInv' /\ AbiTypeOK' /\ AttachedInv'
<1>1. AbiInv'
    BY AbiPreserved DEF ProbesInv
<1>2. AbiTypeOK'
    BY <1>1 DEF AbiInv, StepInv
<1>3. AttachedInv'
    BY DEF ProbesInv, AttachedInv, abiVars
<1>q. QED BY <1>1, <1>2, <1>3

\* Each cell of the buffer is stamped with a call of S.
Stamped(buffer, S) == DOMAIN buffer = Cells /\ \A c \in Cells : buffer[c][1] \in S

LEMMA WriteStamps ==
    ASSUME NEW S, NEW id \in S, NEW struct, NEW content, Stamped(scratch, S)
    PROVE  Stamped(Write(struct, content, id), S)
BY DEF Stamped, Write

\* The calls made so far grow by one.
LEMMA EntersCounts ==
    ASSUME ProbesInv, NEW prog, Enters(prog)
    PROVE  /\ calls \in 0..MaxCalls /\ calls' = calls + 1 /\ calls' \in 1..MaxCalls
           /\ calls' \in 0..calls' /\ Stamped(scratch, 0..calls')
<1>1. calls \in 0..MaxCalls /\ calls' = calls + 1 /\ calls' \in 1..MaxCalls
    BY MaxCallsAssumption DEF ProbesInv, TypeOK, Enters
<1>q. QED BY <1>1 DEF ProbesInv, TypeOK, Stamped

\* A cell stamped with a call of S still is when a call of S writes.
LEMMA WriteKeeps ==
    ASSUME NEW S, NEW id \in S, NEW struct, NEW content, NEW c \in Cells, scratch[c][1] \in S
    PROVE  Write(struct, content, id)[c][1] \in S
BY DEF Write

\* The calls a program may overlap only become more.
LEMMA DuringGrows ==
    ASSUME NEW c \in Nat, calls \in Nat, calls' \in {calls, calls + 1},
           lsm'[c].amid = lsm[c].amid
    PROVE  During(c) \subseteq During(c)'
BY DEF During

\* A call beside the LSM programs may overwrite what they wrote, as one they overlap.
LEMMA OverlapKept ==
    ASSUME ProbesInv, NEW prog, Enters(prog), UNCHANGED <<preemptible, lsm>>,
           NEW struct, NEW content,
           scratch' = scratch \/ scratch' = Write(struct, content, calls')
    PROVE  LsmInv'
<1>1. calls \in Nat /\ calls' = calls + 1 /\ calls' \in {calls, calls + 1}
    BY EntersCounts
<1> SUFFICES ASSUME NEW c \in DOMAIN lsm
             PROVE  /\ \A d \in DOMAIN lsm : d < c => d \in lsm[c].amid
                    /\ preemptible
                    /\ scratch'[0][1] \in During(c)'
                    /\ lsm[c].next = "output" =>
                          \A cell \in LsmCells : scratch'[cell][1] \in During(c)'
    BY DEF LsmInv
<1>2. c \in Nat /\ c <= calls
    BY <1>1 DEF ProbesInv, TypeOK
<1>3. During(c) \subseteq During(c)' /\ calls' \in During(c)'
    <2>1. During(c) \subseteq During(c)'
        BY <1>1, <1>2, DuringGrows
    <2>2. calls' \in (c + 1)..calls'
        BY <1>1, <1>2
    <2>q. QED BY <2>1, <2>2 DEF During
<1>4. ASSUME NEW cell \in Cells, scratch[cell][1] \in During(c)
      PROVE  scratch'[cell][1] \in During(c)'
    BY <1>3, <1>4, WriteKeeps
<1>5. 0 \in Cells /\ LsmCells \subseteq Cells
    BY DEF Cells, LsmCells, PathCells
<1>6. preemptible
    BY DEF Enters
<1>q. QED BY <1>4, <1>5, <1>6 DEF ProbesInv, LsmInv

\* A tracepoint program that fills its struct honestly, or outputs nothing.
LEMMA TracepointStep ==
    ASSUME ProbesInv, NEW prog \in TracepointPrograms, NEW content, NEW outputs,
           Enters(prog), RunTracepoint(prog, content, outputs),
           outputs => DOMAIN content = Fields(prog) /\ Honest(prog, content)
    PROVE  ProbesInv'
<1>1. AbiInv' /\ AbiTypeOK' /\ AttachedInv' /\ UNCHANGED abiVars
    BY ProbeLeavesAgent DEF RunTracepoint
<1>2. LsmInv'
    <2>1. UNCHANGED <<preemptible, lsm>> /\ scratch' = Write(Struct[prog], content, calls')
        BY DEF RunTracepoint
    <2>q. QED BY <2>1, OverlapKept
<1>3. prog \in Programs /\ prog # "lsm" /\ prog \in attached'
    BY <1>1 DEF TracepointPrograms, Programs, Enters, abiVars
<1>4. \A e \in out' : outputs /\ Reports(e, prog, content, calls')
    BY <1>3, TracepointEvent
<1>5. /\ calls \in 0..MaxCalls /\ calls' = calls + 1 /\ calls' \in 1..MaxCalls
      /\ calls' \in 0..calls' /\ Stamped(scratch, 0..calls')
    BY EntersCounts
<1>6. TypeOK'
    <2>1. Stamped(Write(Struct[prog], content, calls'), 0..calls')
        BY <1>5, WriteStamps
    <2>2. Stamped(scratch', 0..calls')
        BY <2>1 DEF RunTracepoint
    <2>3. /\ DOMAIN lsm' \subseteq 1..calls'
          /\ \A c \in DOMAIN lsm' : lsm'[c] \in [next : {"fill", "output"}, amid : SUBSET (1..calls')]
        <3>1. 1..calls \subseteq 1..calls'
            BY <1>5
        <3>q. QED BY <3>1 DEF ProbesInv, TypeOK, RunTracepoint
    <2>4. preemptible' \in BOOLEAN /\ (lsm' # <<>> => "lsm" \in attached')
        BY <1>1 DEF ProbesInv, TypeOK, RunTracepoint, abiVars
    <2>5. \A e \in out' : e.prog \in attached' /\ e.call \in 1..calls'
        BY <1>3, <1>4, <1>5 DEF Reports
    <2>q. QED BY <1>1, <1>5, <2>2, <2>3, <2>4, <2>5 DEF TypeOK, Stamped
<1>7. EventIsOwn'
    BY <1>4 DEF EventIsOwn, Reports
<1>8. EventIsFaithful'
    <2>1. SUFFICES ASSUME NEW e \in out', NEW m \in Meaning, e.prog = m.prog,
                          <<m.prog, m.slot, "fallback">> \notin diagnostics',
                          NEW cell \in e.body[m.field]
                   PROVE  cell[2] \in {m.arg, Zero, Argv0}
        BY DEF EventIsFaithful
    <2>2. m.prog = prog /\ outputs /\ Reports(e, prog, content, calls')
        BY <1>4, <2>1 DEF Reports
    <2>3. m.field \in Fields(prog)
        BY <2>2 DEF Meaning, Fields, Struct, ExecveEvent, FileEvent, NetworkEvent
    <2>4. cell = <<calls', content[m.field]>>
        BY <2>1, <2>2, <2>3 DEF Reports
    <2>5. content[m.field] \in {m.arg, Zero, Argv0}
        BY <1>1, <2>1, <2>2 DEF Honest, abiVars
    <2>q. QED BY <2>4, <2>5
<1>q. QED BY <1>1, <1>2, <1>6, <1>7, <1>8 DEF ProbesInv

-----------------------------------------------------------------------------
\* The LSM program, part by part.
LEMMA LsmEnterStep == ProbesInv /\ LsmEnter => ProbesInv'
<1> SUFFICES ASSUME ProbesInv, LsmEnter PROVE ProbesInv'
    OBVIOUS
<1>1. AbiInv' /\ AbiTypeOK' /\ AttachedInv' /\ UNCHANGED abiVars
    BY ProbeLeavesAgent DEF LsmEnter
<1>2. /\ calls \in 0..MaxCalls /\ calls' = calls + 1 /\ calls' \in 1..MaxCalls
      /\ calls' \in 0..calls' /\ Stamped(scratch, 0..calls') /\ Enters("lsm")
    BY EntersCounts DEF LsmEnter
<1>3. /\ DOMAIN lsm' = DOMAIN lsm \cup {calls'} /\ DOMAIN lsm \subseteq 1..calls
      /\ lsm'[calls'] = [next |-> "fill", amid |-> DOMAIN lsm]
      /\ \A c \in DOMAIN lsm : lsm'[c] = lsm[c] /\ c \in Nat /\ c <= calls
    <2>1. DOMAIN lsm \subseteq 1..calls /\ calls' \notin 1..calls
        BY <1>2 DEF ProbesInv, TypeOK
    <2>2. \A c \in DOMAIN lsm : c # calls' /\ c \in Nat /\ c <= calls
        BY <1>2, <2>1
    <2>q. QED BY <2>1, <2>2 DEF LsmEnter
<1>4. LsmInv'
    <2>0. scratch' = Write(LSMEvent, [ids |-> "ids"], calls') /\ UNCHANGED preemptible
        BY DEF LsmEnter
    <2>1. ASSUME NEW c \in DOMAIN lsm
          PROVE  /\ \A d \in DOMAIN lsm' : d < c => d \in lsm'[c].amid
                 /\ preemptible
                 /\ scratch'[0][1] \in During(c)'
                 /\ lsm'[c].next = "output" =>
                       \A cell \in LsmCells : scratch'[cell][1] \in During(c)'
        <3>1. preemptible
            BY <1>2, <2>1 DEF Enters
        <3>2. \A d \in DOMAIN lsm' : d < c => d \in lsm'[c].amid
            <4>1. ~(calls' < c)
                BY <1>2, <1>3, <2>1
            <4>q. QED BY <1>3, <2>1, <4>1 DEF ProbesInv, LsmInv
        <3>3. During(c) \subseteq During(c)' /\ calls' \in During(c)'
            <4>1. During(c) \subseteq During(c)'
                BY <1>2, <1>3, <2>1, DuringGrows
            <4>2. calls' \in (c + 1)..calls'
                BY <1>2, <1>3, <2>1
            <4>q. QED BY <4>1, <4>2 DEF During
        <3>4. ASSUME NEW cell \in Cells, scratch[cell][1] \in During(c)
              PROVE  scratch'[cell][1] \in During(c)'
            BY <2>0, <3>3, <3>4, WriteKeeps
        <3>5. 0 \in Cells /\ LsmCells \subseteq Cells
            BY DEF Cells, LsmCells, PathCells
        <3>q. QED BY <1>3, <2>1, <3>1, <3>2, <3>4, <3>5 DEF ProbesInv, LsmInv
    <2>2. ASSUME NEW c, c = calls'
          PROVE  /\ \A d \in DOMAIN lsm' : d < c => d \in lsm'[c].amid
                 /\ ~preemptible => lsm'[c].amid = {} /\ c = calls'
                 /\ scratch'[0][1] \in During(c)'
                 /\ lsm'[c].next # "output"
        <3>1. scratch'[0][1] = calls'
            BY <2>0 DEF Write, LSMEvent, Cells
        <3>2. ~preemptible => DOMAIN lsm = {}
            BY <1>2 DEF Enters
        <3>3. ~(calls' < calls')
            BY <1>2
        <3>4. scratch'[0][1] \in During(c)'
            BY <2>2, <3>1 DEF During
        <3>q. QED BY <1>3, <2>2, <3>2, <3>3, <3>4
    <2>q. QED BY <1>3, <2>0, <2>1, <2>2 DEF LsmInv
<1>5. TypeOK'
    <2>1. Stamped(scratch', 0..calls')
        <3>1. Stamped(Write(LSMEvent, [ids |-> "ids"], calls'), 0..calls')
            BY <1>2, WriteStamps
        <3>q. QED BY <3>1 DEF LsmEnter
    <2>2. /\ DOMAIN lsm' \subseteq 1..calls'
          /\ \A c \in DOMAIN lsm' : lsm'[c] \in [next : {"fill", "output"}, amid : SUBSET (1..calls')]
        <3>1. 1..calls \subseteq 1..calls' /\ calls' \in 1..calls'
            BY <1>2
        <3>q. QED BY <1>3, <3>1 DEF ProbesInv, TypeOK
    <2>3. preemptible' \in BOOLEAN /\ "lsm" \in attached' /\ out' = {}
        BY <1>1, <1>2 DEF ProbesInv, TypeOK, LsmEnter, Enters, abiVars
    <2>q. QED BY <1>1, <1>2, <2>1, <2>2, <2>3 DEF TypeOK, Stamped
<1>6. EventIsOwn' /\ EventIsFaithful'
    BY DEF LsmEnter, EventIsOwn, EventIsFaithful
<1>q. QED BY <1>1, <1>4, <1>5, <1>6 DEF ProbesInv

LEMMA LsmFillStep ==
    ASSUME ProbesInv, NEW c \in DOMAIN lsm, LsmFill(c)
    PROVE  ProbesInv'
<1>1. AbiInv' /\ AbiTypeOK' /\ AttachedInv' /\ UNCHANGED abiVars
    BY ProbeLeavesAgent DEF LsmFill
<1>2. /\ c \in 0..calls /\ calls \in Nat /\ calls' = calls /\ UNCHANGED preemptible
      /\ scratch' = Write(LSMEvent, [comm |-> "comm", filename |-> Zero], c)
      /\ Stamped(scratch, 0..calls) /\ lsm # <<>> /\ "lsm" \in attached
    BY MaxCallsAssumption DEF ProbesInv, TypeOK, LsmFill, Stamped
<1>3. /\ DOMAIN lsm' = DOMAIN lsm
      /\ \A d \in DOMAIN lsm : lsm'[d].amid = lsm[d].amid /\ d \in 1..calls
      /\ \A d \in DOMAIN lsm : d # c => lsm'[d] = lsm[d]
      /\ lsm'[c] = [next |-> "output", amid |-> lsm[c].amid]
    BY DEF ProbesInv, TypeOK, LsmFill
<1>4. LsmInv'
    <2>1. ASSUME NEW d \in DOMAIN lsm
          PROVE  During(d)' = During(d) /\ c \in During(d)
        <3>1. During(d)' = During(d)
            BY <1>2, <1>3 DEF During
        <3>2. ASSUME c < d PROVE c \in During(d)
            BY <3>2 DEF ProbesInv, LsmInv, During
        <3>3. ASSUME d < c PROVE c \in During(d)
            <4>1. c \in (d + 1)..calls
                BY <1>2, <1>3, <3>3
            <4>q. QED BY <4>1 DEF During
        <3>4. ASSUME c = d PROVE c \in During(d)
            BY <3>4 DEF During
        <3>5. c \in Int /\ d \in Int
            BY <1>3
        <3>q. QED BY <3>1, <3>2, <3>3, <3>4, <3>5
    <2>2. ASSUME NEW d \in DOMAIN lsm, NEW cell \in Cells, scratch[cell][1] \in During(d)
          PROVE  scratch'[cell][1] \in During(d)'
        <3>1. c \in During(d) /\ During(d)' = During(d)
            BY <2>1
        <3>q. QED BY <1>2, <2>2, <3>1, WriteKeeps
    <2>3. 0 \in Cells /\ LsmCells \subseteq Cells
        BY DEF Cells, LsmCells, PathCells
    <2>4. \A cell \in LsmCells : scratch'[cell][1] \in During(c)'
        <3>1. scratch[0][1] \in During(c)
            BY DEF ProbesInv, LsmInv
        <3>2. scratch'[0][1] \in During(c)'
            BY <2>2, <2>3, <3>1
        <3>3. \A cell \in LsmCells : cell # 0 => scratch'[cell][1] = c
            BY <1>2, <2>3 DEF Write, LSMEvent, LsmCells
        <3>q. QED BY <2>1, <3>2, <3>3
    <2>q. QED BY <1>2, <1>3, <2>2, <2>3, <2>4 DEF ProbesInv, LsmInv
<1>5. TypeOK'
    <2>1. Stamped(scratch', 0..calls')
        <3>1. Stamped(Write(LSMEvent, [comm |-> "comm", filename |-> Zero], c), 0..calls)
            BY <1>2, WriteStamps
        <3>q. QED BY <1>2, <3>1
    <2>2. /\ DOMAIN lsm' \subseteq 1..calls'
          /\ \A d \in DOMAIN lsm' : lsm'[d] \in [next : {"fill", "output"}, amid : SUBSET (1..calls')]
        BY <1>2, <1>3 DEF ProbesInv, TypeOK
    <2>3. preemptible' \in BOOLEAN /\ "lsm" \in attached' /\ out' = {} /\ calls' \in 0..MaxCalls
        BY <1>1, <1>2 DEF ProbesInv, TypeOK, LsmFill, abiVars
    <2>q. QED BY <1>1, <2>1, <2>2, <2>3 DEF TypeOK, Stamped
<1>6. EventIsOwn' /\ EventIsFaithful'
    BY DEF LsmFill, EventIsOwn, EventIsFaithful
<1>q. QED BY <1>1, <1>4, <1>5, <1>6 DEF ProbesInv

LEMMA LsmOutputStep ==
    ASSUME ProbesInv, NEW c \in DOMAIN lsm, LsmOutput(c)
    PROVE  ProbesInv'
<1>1. AbiInv' /\ AbiTypeOK' /\ AttachedInv' /\ UNCHANGED abiVars
    BY ProbeLeavesAgent DEF LsmOutput
<1>2. /\ DOMAIN lsm' = DOMAIN lsm \ {c}
      /\ \A d \in DOMAIN lsm' : lsm'[d] = lsm[d]
    BY DEF LsmOutput, Restrict
<1>3. LsmInv'
    BY <1>2 DEF ProbesInv, LsmInv, During, LsmOutput
<1>4. lsm # <<>> /\ "lsm" \in attached /\ c \in 1..calls /\ calls \in Nat
    BY MaxCallsAssumption DEF ProbesInv, TypeOK
<1>5. \A e \in out' : e = Event("lsm", scratch, c, lsm[c].amid \cup (c + 1)..calls)
    BY DEF LsmOutput
<1>6. \A e \in out' : e.prog = "lsm" /\ e.call = c
    BY <1>5 DEF Event
<1>7. TypeOK'
    BY <1>1, <1>2, <1>4, <1>6 DEF ProbesInv, TypeOK, LsmOutput, abiVars
<1>8. EventIsOwn'
    <2>1. SUFFICES ASSUME NEW e \in out'
                   PROVE  /\ e.amid # {} => preemptible /\ e.prog = "lsm"
                          /\ \A f \in Fields(e.prog) : \A cell \in e.body[f] :
                                cell[1] \in {e.call} \cup e.amid
        BY DEF EventIsOwn, LsmOutput
    <2>2. e.prog = "lsm" /\ e.call = c /\ e.amid = lsm[c].amid \cup (c + 1)..calls
        BY <1>5 DEF Event
    <2>3. e.amid # {} => preemptible
        <3>1. ~preemptible => lsm[c].amid = {} /\ c = calls
            BY DEF ProbesInv, LsmInv
        <3>2. c = calls => (c + 1)..calls = {}
            BY <1>4
        <3>q. QED BY <2>2, <3>1, <3>2
    <2>4. \A cell \in LsmCells : scratch[cell][1] \in During(c)
        BY DEF ProbesInv, LsmInv, LsmOutput
    <2>5. \A f \in Fields("lsm") : f \in DOMAIN Struct["lsm"] /\ Struct["lsm"][f] \subseteq LsmCells
        BY DEF Fields, Struct, LSMEvent, LsmCells
    <2>6. \A f \in Fields("lsm") : e.body[f] = {scratch[cell] : cell \in Struct["lsm"][f]}
        BY <1>5, <2>5 DEF Event
    <2>q. QED BY <2>2, <2>3, <2>4, <2>5, <2>6 DEF During
<1>9. EventIsFaithful'
    BY <1>6 DEF EventIsFaithful, Meaning
<1>q. QED BY <1>1, <1>3, <1>7, <1>8, <1>9 DEF ProbesInv

-----------------------------------------------------------------------------
LEMMA ProbesPreserved == ProbesInv /\ [Next]_vars => ProbesInv'
<1> SUFFICES ASSUME ProbesInv, [Next]_vars PROVE ProbesInv'
    OBVIOUS
<1>1. CASE Agent
    BY <1>1, AgentStep
<1>2. ASSUME NEW prog \in {"execve", "execveat"}, ExecveEnter(prog)
      PROVE  ProbesInv'
    <2> DEFINE filename == Word(prog, globals[prog].filename)
               argv     == Word(prog, globals[prog].filename + 8)
    <2>1. PICK bad \in SUBSET {filename, argv}, outputs \in BOOLEAN :
              RunTracepoint(prog, ExecveContent(filename, argv, bad), outputs)
        BY <1>2 DEF ExecveEnter
    <2>2. Enters(prog) /\ prog \in attached /\ prog \in TracepointPrograms
        BY <1>2 DEF ExecveEnter, Enters, TracepointPrograms
    <2>3. /\ DOMAIN ExecveContent(filename, argv, bad) = Fields(prog)
          /\ Honest(prog, ExecveContent(filename, argv, bad))
        BY <2>2, ExecveIsHonest
    <2> HIDE DEF filename, argv
    <2>q. QED BY <2>1, <2>2, <2>3, TracepointStep
<1>3. ASSUME NEW prog \in {"open", "openat"}, FileOpen(prog)
      PROVE  ProbesInv'
    <2> DEFINE filename == Word(prog, globals[prog].filename)
               flags    == Word(prog, globals[prog].flags)
    <2>1. PICK bad \in SUBSET {filename}, outputs \in BOOLEAN :
              RunTracepoint(prog, FileContent(filename, flags, bad), outputs)
        BY <1>3 DEF FileOpen
    <2>2. Enters(prog) /\ prog \in attached /\ prog \in TracepointPrograms
        BY <1>3 DEF FileOpen, Enters, TracepointPrograms
    <2>3. /\ DOMAIN FileContent(filename, flags, bad) = Fields(prog)
          /\ Honest(prog, FileContent(filename, flags, bad))
        BY <2>2, FileIsHonest
    <2> HIDE DEF filename, flags
    <2>q. QED BY <2>1, <2>2, <2>3, TracepointStep
<1>4. ASSUME NEW prog \in {"init_module", "finit_module"}, ModuleEnter(prog)
      PROVE  ProbesInv'
    <2>1. Enters(prog) /\ RunTracepoint(prog, ModuleContent, TRUE) /\ prog \in TracepointPrograms
        BY <1>4 DEF ModuleEnter, TracepointPrograms
    <2>q. QED BY <2>1, ModuleIsHonest, TracepointStep
<1>5. CASE ConnectEnter
    <2> DEFINE fd   == Word("connect", globals.connect.fd)
               addr == Word("connect", globals.connect.uservaddr)
    <2>1. PICK lost \in BOOLEAN :
              RunTracepoint("connect", NetworkContent(fd, addr, lost), ~lost)
        BY <1>5 DEF ConnectEnter
    <2>2. Enters("connect") /\ "connect" \in attached /\ "connect" \in TracepointPrograms
        BY <1>5 DEF ConnectEnter, Enters, TracepointPrograms
    <2>3. /\ DOMAIN NetworkContent(fd, addr, FALSE) = Fields("connect")
          /\ Honest("connect", NetworkContent(fd, addr, FALSE))
        BY <2>2, NetworkIsHonest
    <2> HIDE DEF fd, addr
    <2>4. ~lost => lost = FALSE
        OBVIOUS
    <2>q. QED BY <2>1, <2>2, <2>3, <2>4, TracepointStep
<1>6. CASE ConnectIgnored
    <2>1. AbiInv' /\ AbiTypeOK' /\ AttachedInv' /\ UNCHANGED abiVars
        BY <1>6, ProbeLeavesAgent DEF ConnectIgnored
    <2>2. calls \in 0..MaxCalls /\ calls' = calls + 1 /\ calls' \in 1..MaxCalls
          /\ Stamped(scratch, 0..calls')
        BY <1>6, EntersCounts DEF ConnectIgnored
    <2>3. LsmInv' /\ EventIsOwn' /\ EventIsFaithful'
        <3>1. LsmInv'
            BY <1>6, OverlapKept DEF ConnectIgnored
        <3>q. QED BY <1>6, <3>1 DEF ConnectIgnored, EventIsOwn, EventIsFaithful
    <2>4. TypeOK'
        <3>1. 1..calls \subseteq 1..calls'
            BY <2>2
        <3>q. QED BY <1>6, <2>1, <2>2, <3>1 DEF ConnectIgnored, ProbesInv, TypeOK, Stamped, abiVars
    <2>q. QED BY <2>1, <2>3, <2>4 DEF ProbesInv
<1>7. CASE LsmEnter
    BY <1>7, LsmEnterStep
<1>8. ASSUME NEW c \in DOMAIN lsm, LsmFill(c) \/ LsmOutput(c)
      PROVE  ProbesInv'
    BY <1>8, LsmFillStep, LsmOutputStep
<1>9. CASE UNCHANGED vars
    <2>1. AbiInv' /\ AbiTypeOK' /\ AttachedInv' /\ UNCHANGED abiVars
        BY <1>9, ProbeLeavesAgent DEF vars
    <2>2. UNCHANGED <<preemptible, calls, scratch, lsm, out>>
        BY <1>9 DEF vars, probeVars
    <2>3. LsmInv' /\ EventIsOwn'
        BY <2>2 DEF ProbesInv, LsmInv, During, EventIsOwn
    <2>4. TypeOK' /\ EventIsFaithful'
        BY <2>1, <2>2 DEF ProbesInv, TypeOK, EventIsFaithful, abiVars
    <2>q. QED BY <2>1, <2>3, <2>4 DEF ProbesInv
<1>q. QED BY <1>1, <1>2, <1>3, <1>4, <1>5, <1>6, <1>7, <1>8, <1>9 DEF Next

(***************************************************************************)
(* Every variable of the probes and of the agent's start keeps its type.   *)
(***************************************************************************)
THEOREM ProbesTypeCorrect == Spec => []TypeOK
<1>1. Spec => []ProbesInv
    BY ProbesInitial, ProbesPreserved, PTL DEF Spec
<1>2. ProbesInv => TypeOK
    BY DEF ProbesInv
<1>q. QED BY <1>1, <1>2, PTL

(***************************************************************************)
(* Each named field of an event was written for the call the event reports *)
(* (SCRATCH in openxdr-ebpf/src/main.rs), whatever ran on the CPU before;  *)
(* for the event of a preempted LSM program, by that call or by one that   *)
(* ran amid it, whatever the schedule of the preemptions.                  *)
(***************************************************************************)
THEOREM OwnEvents == Spec => []EventIsOwn
<1>1. Spec => []ProbesInv
    BY ProbesInitial, ProbesPreserved, PTL DEF Spec
<1>2. ProbesInv => EventIsOwn
    BY DEF ProbesInv
<1>q. QED BY <1>1, <1>2, PTL

(***************************************************************************)
(* Every field of an event holds the argument it is named for, or the      *)
(* start-up report named it (discover, EbpfKernel::new, the probes).       *)
(***************************************************************************)
THEOREM FaithfulEvents == Spec => []EventIsFaithful
<1>1. Spec => []ProbesInv
    BY ProbesInitial, ProbesPreserved, PTL DEF Spec
<1>2. ProbesInv => EventIsFaithful
    BY DEF ProbesInv
<1>q. QED BY <1>1, <1>2, PTL

(***************************************************************************)
(* With the probes running: no offset is wrong in silence, a file read to  *)
(* its end is believed, and no probe is missing without a reason.          *)
(***************************************************************************)
THEOREM StartUpIsSound == Spec => [](NoSilentMisread /\ WholeFileIsBelieved /\ OpenCoverage)
<1>1. Spec => []ProbesInv
    BY ProbesInitial, ProbesPreserved, PTL DEF Spec
<1>2. ProbesInv => NoSilentMisread /\ WholeFileIsBelieved /\ OpenCoverage
    BY AbiInvImplies DEF ProbesInv
<1>q. QED BY <1>1, <1>2, PTL
===============================================================================
