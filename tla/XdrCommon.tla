----------------------------- MODULE XdrCommon -----------------------------
(***************************************************************************)
(* The vocabulary shared by the kernel probes and the agent                *)
(* (openxdr-common/src/lib.rs and the ET_* constants of agent/engine.rs):  *)
(* event types, match kinds, and what a rule and a captured string mean.   *)
(* A string is a finite sequence of characters; the byte buffers that hold *)
(* strings in the kernel are the subject of PatternMatch, which shows that *)
(* they compute exactly the operators of this module.                      *)
(***************************************************************************)
EXTENDS Integers, Sequences

MATCH_EXACT  == 0
MATCH_PREFIX == 1
MATCH_SUFFIX == 2
MatchKinds   == {MATCH_EXACT, MATCH_PREFIX, MATCH_SUFFIX}

ET_ANY     == 0
ET_EXECVE  == 1
ET_FILE    == 2
ET_LSM     == 3
ET_MODULE  == 4
ET_NETWORK == 5
EventTypes == 1..5

\* The event types of which some Sigma field can be pushed into the kernel.
PushableTypes == {ET_EXECVE, ET_FILE, ET_LSM}

\* What ET_MODULE and ET_NETWORK start as: never filtered in the kernel.
AlwaysPermissive == {ET_MODULE, ET_NETWORK}

Least(a, b) == IF a <= b THEN a ELSE b

StartsWith(s, p) == Len(p) <= Len(s) /\ \A i \in 1..Len(p) : s[i] = p[i]
EndsWith(s, p)   == Len(p) <= Len(s) /\ \A i \in 1..Len(p) : s[Len(s) - Len(p) + i] = p[i]

(***************************************************************************)
(* What a pattern means: an empty pattern matches nothing, and a kind that *)
(* is none of the three is a prefix compare.                               *)
(***************************************************************************)
Anchored(s, p, kind) ==
    /\ p # <<>>
    /\ kind = MATCH_EXACT  => s = p
    /\ kind = MATCH_SUFFIX => EndsWith(s, p)
    /\ kind \notin {MATCH_EXACT, MATCH_SUFFIX} => StartsWith(s, p)

(***************************************************************************)
(* The string a zeroed buffer of n bytes holds after a bounded string read *)
(* of s: at most n - 1 characters, then the terminating NUL.               *)
(***************************************************************************)
Captured(s, n) == SubSeq(s, 1, Least(Len(s), n - 1))
=============================================================================
