---------------------------- MODULE PatternMatch ----------------------------
(***************************************************************************)
(* One event string against one kernel rule, byte for byte: the bounded    *)
(* read of the string into the event's buffer (try_file_open,              *)
(* try_execve_enter), the NUL scan that measures it                        *)
(* (passes_kernel_filter), and the branchless compares of openxdr-common.  *)
(* An execution's buffer held argv[0] before, which a shorter filename     *)
(* does not cover.  One behaviour is one event; the actions are its stages.*)
(***************************************************************************)
EXTENDS XdrCommon

CONSTANTS
    Byte,           \* the bytes of a string, NUL excluded
    NUL,            \* the terminator
    BufSizes,       \* the sizes of the probes' string buffers
    ArgvSizes,      \* those of the buffers that may hold argv[0] first
    M,              \* MAX_PATTERN_LEN
    MAX_PATH_SCAN,  \* the bound of the NUL scan
    MaxLen          \* the longest string enumerated by Init

ASSUME BufferAssumption ==
    /\ NUL \notin Byte
    /\ BufSizes \subseteq Nat \ {0}
    /\ M \in Nat \ {0} /\ MAX_PATH_SCAN \in Nat \ {0} /\ MaxLen \in Nat

\* pattern_matches and suffix_matches: every buffer size is a power of two.
ASSUME PowerOfTwo == \A n \in BufSizes : \E k \in 0..n : n = 2 ^ k

VARIABLES
    N,          \* the size of this event's buffer
    path,       \* the string the system call was given
    pattern,    \* the lowered pattern of the rule
    kind,       \* its MATCH_* byte: a u8 of the map, so 3 stands for any other
    phase,      \* "entered", "argv0", "captured", "measured", "decided"
    buf,        \* the event's buffer
    path_len,   \* the measured length
    verdict     \* what the filter answers

vars == <<N, path, pattern, kind, phase, buf, path_len, verdict>>

Cell       == Byte \cup {NUL}
Strings(n) == UNION {[1..k -> Byte] : k \in 0..n}
Scan       == Least(N, MAX_PATH_SCAN)

\* bpf_probe_read_user_str_bytes: what lies behind the terminator stays as it was.
ReadStr(s, b) ==
    LET n == Least(Len(s), N - 1)
    IN  [i \in 0..N-1 |-> IF i < n THEN s[i + 1] ELSE IF i = n THEN NUL ELSE b[i]]

\* The pattern as lower_term stores it: zero-padded to M bytes.
PatBuf(p) == [j \in 0..M-1 |-> IF j < Len(p) THEN p[j + 1] ELSE NUL]

NulsWithin(b) == {i \in 0..Scan-1 : b[i] = NUL}

\* Mutated: the scan stops one byte short of the terminator.
MeasuredLenShort(b) ==
    IF NulsWithin(b) = {} THEN Scan
    ELSE (CHOOSE i \in NulsWithin(b) : \A j \in NulsWithin(b) : i <= j) - 1

MeasuredLen(b) ==
    IF NulsWithin(b) = {} THEN Scan
    ELSE CHOOSE i \in NulsWithin(b) : \A j \in NulsWithin(b) : i <= j

prefix_matches(hay, pat, pat_len) ==
    \A j \in 0..M-1 : j < N /\ j < pat_len => hay[j] = pat[j]

\* Mutated: the buffer end, not the measured length, anchors the suffix.
suffix_matches_AtBufferEnd(hay, hay_len, pat, pat_len) ==
    \A j \in 0..M-1 : j < pat_len => hay[(N - pat_len + j) % N] = pat[j]

\* N is a power of two, so the code's mask & (N - 1) is the remainder by N.
suffix_matches(hay, hay_len, pat, pat_len) ==
    LET start == hay_len - pat_len
    IN  \A j \in 0..M-1 : j < pat_len => hay[(start + j) % N] = pat[j]

pattern_matches(hay, hay_len, pat, pat_len, k) ==
    /\ pat_len # 0 /\ pat_len <= M /\ pat_len <= hay_len
    /\ k = MATCH_EXACT => pat_len = hay_len
    /\ IF k = MATCH_SUFFIX THEN suffix_matches(hay, hay_len, pat, pat_len)
                           ELSE prefix_matches(hay, pat, pat_len)

Init ==
    /\ N \in BufSizes
    /\ path \in Strings(MaxLen)
    /\ pattern \in Strings(M)
    /\ kind \in MatchKinds \cup {3}
    /\ phase = "entered"
    /\ buf = [i \in 0..N-1 |-> NUL]
    /\ path_len = 0
    /\ verdict = FALSE

\* argv[0] is read into event.filename as a stand-in for the filename.
CaptureArgv0 ==
    /\ phase = "entered" /\ N \in ArgvSizes
    /\ phase' = "argv0"
    /\ \E arg \in Strings(MaxLen) : buf' = ReadStr(arg, buf)
    /\ UNCHANGED <<N, path, pattern, kind, path_len, verdict>>

Capture ==
    /\ phase \in {"entered", "argv0"}
    /\ phase' = "captured"
    /\ buf' = ReadStr(path, buf)
    /\ UNCHANGED <<N, path, pattern, kind, path_len, verdict>>

\* No NUL within the scan: the string is not measured and the event is forwarded.
Measure ==
    /\ phase = "captured"
    /\ phase' = IF NulsWithin(buf) # {} THEN "measured" ELSE "decided"
    /\ path_len' = MeasuredLen(buf)
    /\ verdict' = (NulsWithin(buf) = {})
    /\ UNCHANGED <<N, path, pattern, kind, buf>>

Compare ==
    /\ phase = "measured"
    /\ phase' = "decided"
    /\ verdict' = pattern_matches(buf, path_len, PatBuf(pattern), Len(pattern), kind)
    /\ UNCHANGED <<N, path, pattern, kind, buf, path_len>>

Next == CaptureArgv0 \/ Capture \/ Measure \/ Compare
Spec == Init /\ [][Next]_vars

-----------------------------------------------------------------------------
(***************************************************************************)
(* Every variable stays in its type; in particular the measured length     *)
(* never exceeds the buffer, which is what lets suffix_matches index it.   *)
(***************************************************************************)
TypeOK ==
    /\ N \in BufSizes
    /\ path \in Seq(Byte) /\ pattern \in Seq(Byte) /\ Len(pattern) <= M
    /\ kind \in MatchKinds \cup {3}
    /\ phase \in {"entered", "argv0", "captured", "measured", "decided"}
    /\ buf \in [0..N-1 -> Cell]
    /\ path_len \in 0..N
    /\ verdict \in BOOLEAN

(***************************************************************************)
(* The byte-level compare decides the string-level meaning: an event is    *)
(* accepted exactly when its captured string is too long to be measured or *)
(* is matched by the pattern's anchored meaning.  A wrong suffix offset, a *)
(* mask that wraps, a scan that counts one byte too few, padding that is   *)
(* compared or a byte of argv[0] behind the terminator that is taken for   *)
(* the filename's would each break it for some lengths only.               *)
(* (openxdr-common pattern_matches, openxdr-ebpf passes_kernel_filter)     *)
(***************************************************************************)
VerdictIsAnchored ==
    phase = "decided" =>
        verdict = \/ Len(Captured(path, N)) >= MAX_PATH_SCAN
                  \/ Anchored(Captured(path, N), pattern, kind)
=============================================================================
