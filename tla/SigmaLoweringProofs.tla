------------------------ MODULE SigmaLoweringProofs ------------------------
(***************************************************************************)
(* One rule and one event, for every rule and every event: what the kernel *)
(* rules of a Sigma rule want, against what the Sigma engine fires on.     *)
(* Recursive functions (Glob, FlattenSeq) are reasoned about by induction  *)
(* over sets of naturals, which follows from their well-foundedness.       *)
(***************************************************************************)
EXTENDS SigmaLowering, WellFoundedInduction, SequenceTheorems, TLAPS

\* Induction over a set of naturals, from the least element of what it lacks.
LEMMA NatInduct ==
    ASSUME NEW S, 0 \in S, \A n \in Nat : n \in S => n + 1 \in S
    PROVE  Nat \subseteq S
<1> DEFINE R == OpToRel(<, Nat)
           T == Nat \ S
<1>1. IsWellFoundedOn(R, Nat)
    BY NatLessThanWellFounded
<1>2. SUFFICES ASSUME T # {} PROVE FALSE
    OBVIOUS
<1>3. \A x, y \in Nat : y < x => <<y, x>> \in R
    BY DEF OpToRel
<1> HIDE DEF R
<1>4. PICK x \in T : \A y \in T : ~(<<y, x>> \in R)
    <2>1. T \subseteq Nat
        OBVIOUS
    <2> HIDE DEF T
    <2>q. QED BY <1>1, <1>2, <2>1, WFMin
<1>5. x # 0 /\ x - 1 \in Nat /\ x - 1 < x
    BY <1>4
<1>6. x - 1 \in S
    BY <1>3, <1>4, <1>5
<1>q. QED BY <1>4, <1>5, <1>6

-----------------------------------------------------------------------------
\* FlattenSeq meets its recursion equation.
LEMMA FlattenEquation ==
    ASSUME NEW ss, Len(ss) \in Nat, Len(ss) # 0
    PROVE  \E g : /\ g = [i \in 1..Len(ss) |-> IF i = 1 THEN ss[i] ELSE g[i - 1] \o ss[i]]
                  /\ FlattenSeq(ss) = g[Len(ss)]
<1> DEFINE n == Len(ss)
           Good(m, f) == f = [i \in 1..m |-> IF i = 1 THEN ss[i] ELSE f[i - 1] \o ss[i]]
           S == {m \in Nat : \E f : Good(m, f)}
<1>1. 0 \in S
    <2>1. Good(0, [i \in {} |-> i])
        OBVIOUS
    <2>q. QED BY <2>1
<1>2. ASSUME NEW m \in Nat, m \in S PROVE m + 1 \in S
    <2>1. PICK f : Good(m, f)
        BY <1>2
    <2> DEFINE g == [i \in 1..(m + 1) |-> IF i \in 1..m THEN f[i]
                                          ELSE IF i = 1 THEN ss[i] ELSE f[m] \o ss[i]]
               h == [i \in 1..(m + 1) |-> IF i = 1 THEN ss[i] ELSE g[i - 1] \o ss[i]]
    <2>2. ASSUME NEW i \in 1..(m + 1) PROVE g[i] = h[i]
        <3>1. CASE i = 1
            BY <2>1, <3>1
        <3>2. CASE i # 1 /\ i \in 1..m
            <4>1. i - 1 \in 1..m /\ i - 1 \in 1..(m + 1)
                BY <3>2
            <4>2. g[i - 1] = f[i - 1]
                BY <4>1
            <4>3. f[i] = f[i - 1] \o ss[i]
                BY <2>1, <3>2
            <4>q. QED BY <3>2, <4>2, <4>3
        <3>3. CASE i # 1 /\ i \notin 1..m
            <4>1. i - 1 = m /\ m \in 1..m /\ m \in 1..(m + 1)
                BY <3>3
            <4>2. g[m] = f[m]
                BY <4>1
            <4>q. QED BY <3>3, <4>1, <4>2
        <3>q. QED BY <3>1, <3>2, <3>3
    <2>3. g = h
        <3> HIDE DEF Good
        <3>1. DOMAIN g = 1..(m + 1) /\ DOMAIN h = 1..(m + 1)
            OBVIOUS
        <3>2. g = [i \in 1..(m + 1) |-> g[i]] /\ h = [i \in 1..(m + 1) |-> h[i]]
            OBVIOUS
        <3> HIDE DEF g, h
        <3>q. QED BY <2>2, <3>2
    <2>4. Good(m + 1, g)
        BY <2>3
    <2>5. \E f_ : Good(m + 1, f_)
        <3> HIDE DEF g, Good
        <3>q. QED BY <2>4
    <2> HIDE DEF Good
    <2>q. QED BY <2>5
<1>3. PICK f : Good(n, f)
    <2>1. Nat \subseteq S
        <3> HIDE DEF S
        <3>q. QED BY <1>1, <1>2, NatInduct
    <2>q. QED BY <2>1
<1> DEFINE g == CHOOSE k : Good(n, k)
<1>4. Good(n, g)
    <2> HIDE DEF Good
    <2>q. QED BY <1>3
<1>5. FlattenSeq(ss) = g[n]
    BY DEF FlattenSeq
<1>q. QED BY <1>4, <1>5

\* A concatenation has the elements of both parts.
LEMMA ConcatElements ==
    ASSUME NEW S, NEW u \in Seq(S), NEW v \in Seq(S)
    PROVE  /\ u \o v \in Seq(S)
           /\ \A x : x \in ToSet(u \o v) <=> x \in ToSet(u) \/ x \in ToSet(v)
<1>1. /\ u \o v \in Seq(S) /\ Len(u) \in Nat /\ Len(v) \in Nat
      /\ DOMAIN u = 1..Len(u) /\ DOMAIN v = 1..Len(v)
      /\ DOMAIN (u \o v) = 1..(Len(u) + Len(v))
    OBVIOUS
<1>2. \A i \in 1..Len(u) : (u \o v)[i] = u[i] /\ i \in 1..(Len(u) + Len(v))
    OBVIOUS
<1>3. \A i \in 1..Len(v) : /\ (u \o v)[Len(u) + i] = v[i]
                           /\ Len(u) + i \in 1..(Len(u) + Len(v))
    OBVIOUS
<1>4. ASSUME NEW i \in 1..(Len(u) + Len(v))
      PROVE  \/ i \in 1..Len(u) /\ (u \o v)[i] = u[i]
             \/ i - Len(u) \in 1..Len(v) /\ (u \o v)[i] = v[i - Len(u)]
    OBVIOUS
<1>5. ASSUME NEW x \in ToSet(u \o v) PROVE x \in ToSet(u) \/ x \in ToSet(v)
    <2>1. PICK i \in 1..(Len(u) + Len(v)) : x = (u \o v)[i]
        BY <1>1 DEF ToSet
    <2>q. QED BY <1>1, <1>4, <2>1 DEF ToSet
<1>6. ASSUME NEW x \in ToSet(u) PROVE x \in ToSet(u \o v)
    BY <1>1, <1>2 DEF ToSet
<1>7. ASSUME NEW x \in ToSet(v) PROVE x \in ToSet(u \o v)
    <2>1. PICK i \in 1..Len(v) : x = v[i]
        BY <1>1 DEF ToSet
    <2>2. Len(u) + i \in DOMAIN (u \o v) /\ x = (u \o v)[Len(u) + i]
        BY <1>1, <1>3, <2>1
    <2>q. QED BY <2>2 DEF ToSet
<1>q. QED BY <1>1, <1>5, <1>6, <1>7

\* It concatenates: its elements are those of its parts.
LEMMA FlattenProperties ==
    ASSUME NEW S, NEW ss \in Seq(Seq(S))
    PROVE  /\ FlattenSeq(ss) \in Seq(S)
           /\ \A x : x \in ToSet(FlattenSeq(ss)) <=> \E i \in 1..Len(ss) : x \in ToSet(ss[i])
<1>1. CASE Len(ss) = 0
    <2>1. FlattenSeq(ss) = ss /\ ss = <<>>
        BY <1>1 DEF FlattenSeq
    <2>2. ss \in Seq(S) /\ ToSet(ss) = {}
        BY <2>1 DEF ToSet
    <2>q. QED BY <1>1, <2>1, <2>2
<1>2. CASE Len(ss) # 0
    <2>1. Len(ss) \in Nat
        OBVIOUS
    <2>2. PICK g : /\ g = [i \in 1..Len(ss) |-> IF i = 1 THEN ss[i] ELSE g[i - 1] \o ss[i]]
                   /\ FlattenSeq(ss) = g[Len(ss)]
        BY <1>2, <2>1, FlattenEquation
    <2> DEFINE Right(m) == /\ g[m] \in Seq(S)
                           /\ \A x : x \in ToSet(g[m]) <=> \E i \in 1..m : x \in ToSet(ss[i])
               T == {n \in Nat : n + 1 <= Len(ss) => Right(n + 1)}
    <2>3. 0 \in T
        <3>1. 1 \in 1..Len(ss) /\ g[1] = ss[1]
            BY <1>2, <2>1, <2>2
        <3>2. ss[1] \in Seq(S)
            BY <3>1
        <3>3. Right(1)
            BY <3>1, <3>2
        <3> HIDE DEF Right
        <3>q. QED BY <3>3
    <2>4. ASSUME NEW n \in Nat, n \in T PROVE n + 1 \in T
        <3>1. SUFFICES ASSUME n + 2 <= Len(ss) PROVE Right(n + 2)
            <4> HIDE DEF Right
            <4>q. QED BY <3>1
        <3>2. Right(n + 1)
            <4> HIDE DEF Right
            <4>q. QED BY <2>1, <2>4, <3>1
        <3>3. /\ n + 2 \in 1..Len(ss) /\ n + 2 # 1 /\ (n + 2) - 1 = n + 1
              /\ ss[n + 2] \in Seq(S)
            BY <2>1, <3>1
        <3>4. g[n + 2] = g[n + 1] \o ss[n + 2]
            BY <2>2, <3>3
        <3>5. \A u, v \in Seq(S) :
                 /\ u \o v \in Seq(S)
                 /\ \A x : x \in ToSet(u \o v) <=> x \in ToSet(u) \/ x \in ToSet(v)
            BY ConcatElements
        <3>6. 1..(n + 2) = 1..(n + 1) \cup {n + 2}
            OBVIOUS
        <3>7. g[n + 2] \in Seq(S)
            BY <3>2, <3>3, <3>4, <3>5
        <3>8. \A x : x \in ToSet(g[n + 2]) <=> x \in ToSet(g[n + 1]) \/ x \in ToSet(ss[n + 2])
            BY <3>2, <3>3, <3>4, <3>5
        <3>q. QED BY <3>2, <3>6, <3>7, <3>8
    <2>5. Nat \subseteq T
        <3> HIDE DEF T
        <3>q. QED BY <2>3, <2>4, NatInduct
    <2>6. Right(Len(ss))
        <3> HIDE DEF Right
        <3>1. Len(ss) - 1 \in Nat /\ (Len(ss) - 1) + 1 = Len(ss)
            BY <1>2, <2>1
        <3>2. Len(ss) - 1 \in T
            BY <2>5, <3>1
        <3>q. QED BY <3>1, <3>2
    <2>q. QED BY <2>2, <2>6
<1>q. QED BY <1>1, <1>2

-----------------------------------------------------------------------------
\* g[j] is the set of i such that the first j signs of v match the first i of s.
Reaches(g, s, v) ==
    /\ \A i : i \in g[0] <=> i = 0
    /\ \A j \in 1..Len(v) :
          IF v[j] = Star
          THEN \A i : i \in g[j] <=> i \in 0..Len(s) /\ \E k \in g[j - 1] : k <= i
          ELSE \A i : i \in g[j] <=> i \in 1..Len(s) /\ i - 1 \in g[j - 1]
                                                   /\ v[j] \in {s[i], Query}
    /\ \A j \in 0..Len(v) : g[j] \subseteq 0..Len(s)

\* Glob meets its recursion equation.
LEMMA GlobEquation ==
    ASSUME NEW s, NEW v, Len(v) \in Nat
    PROVE  \E g :
              /\ g = [j \in 0..Len(v) |->
                         IF j = 0 THEN {0}
                         ELSE IF v[j] = Star THEN UNION {k..Len(s) : k \in g[j - 1]}
                         ELSE {i \in 1..Len(s) : i - 1 \in g[j - 1] /\ v[j] \in {s[i], Query}}]
              /\ (Glob(s, v) <=> Len(s) \in g[Len(v)])
<1> DEFINE n == Len(v)
           Step(p, j) == IF v[j] = Star THEN UNION {k..Len(s) : k \in p}
                         ELSE {i \in 1..Len(s) : i - 1 \in p /\ v[j] \in {s[i], Query}}
           Good(m, f) == f = [j \in 0..m |-> IF j = 0 THEN {0} ELSE Step(f[j - 1], j)]
           S == {m \in Nat : \E f : Good(m, f)}
<1>1. 0 \in S
    <2> DEFINE f == [j \in 0..0 |-> {0}]
               h == [j \in 0..0 |-> IF j = 0 THEN {0} ELSE Step(f[j - 1], j)]
    <2>1. \A j \in 0..0 : j = 0
        OBVIOUS
    <2>2. f = h
        <3> HIDE DEF Step
        <3>q. QED BY <2>1
    <2>3. Good(0, f)
        BY <2>2
    <2>4. \E f_ : Good(0, f_)
        <3> HIDE DEF f, Good
        <3>q. QED BY <2>3
    <2> HIDE DEF Good
    <2>q. QED BY <2>4
<1>2. ASSUME NEW m \in Nat, m \in S PROVE m + 1 \in S
    <2>1. PICK f : Good(m, f)
        <3> HIDE DEF Good
        <3>q. QED BY <1>2
    <2> HIDE DEF Step
    <2> DEFINE g == [j \in 0..(m + 1) |-> IF j \in 0..m THEN f[j] ELSE Step(f[m], j)]
               h == [j \in 0..(m + 1) |-> IF j = 0 THEN {0} ELSE Step(g[j - 1], j)]
    <2>2. ASSUME NEW j \in 0..(m + 1) PROVE g[j] = h[j]
        <3>1. CASE j = 0
            BY <2>1, <3>1
        <3>2. CASE j # 0 /\ j \in 0..m
            <4>1. j - 1 \in 0..m /\ j - 1 \in 0..(m + 1)
                BY <3>2
            <4>2. g[j - 1] = f[j - 1]
                BY <4>1
            <4>3. f[j] = Step(f[j - 1], j)
                BY <2>1, <3>2
            <4>q. QED BY <3>2, <4>2, <4>3
        <3>3. CASE j # 0 /\ j \notin 0..m
            <4>1. j - 1 = m /\ m \in 0..m /\ m \in 0..(m + 1)
                BY <3>3
            <4>2. g[m] = f[m]
                BY <4>1
            <4>q. QED BY <3>3, <4>1, <4>2
        <3>q. QED BY <3>1, <3>2, <3>3
    <2>3. g = h
        <3>1. g = [j \in 0..(m + 1) |-> g[j]] /\ h = [j \in 0..(m + 1) |-> h[j]]
            OBVIOUS
        <3> HIDE DEF g, h
        <3>q. QED BY <2>2, <3>1
    <2>4. Good(m + 1, g)
        BY <2>3
    <2>5. \E f_ : Good(m + 1, f_)
        <3> HIDE DEF g, Good
        <3>q. QED BY <2>4
    <2> HIDE DEF Good
    <2>q. QED BY <2>5
<1>3. PICK f : Good(n, f)
    <2>1. Nat \subseteq S
        <3> HIDE DEF S
        <3>q. QED BY <1>1, <1>2, NatInduct
    <2> HIDE DEF Good
    <2>q. QED BY <2>1
<1> DEFINE g == CHOOSE k : Good(n, k)
<1>4. Good(n, g)
    <2> HIDE DEF Good
    <2>q. QED BY <1>3
<1>5. Glob(s, v) <=> Len(s) \in g[n]
    BY DEF Glob
<1>q. QED BY <1>4, <1>5

(***************************************************************************)
(* How much of s the first j signs of v may match, sign by sign: what the  *)
(* proofs below use of Glob.                                               *)
(***************************************************************************)
LEMMA GlobReaches ==
    ASSUME NEW s, NEW v, Len(s) \in Nat, Len(v) \in Nat
    PROVE  \E g : Reaches(g, s, v) /\ (Glob(s, v) <=> Len(s) \in g[Len(v)])
<1>1. PICK g :
         /\ g = [j \in 0..Len(v) |->
                    IF j = 0 THEN {0}
                    ELSE IF v[j] = Star THEN UNION {k..Len(s) : k \in g[j - 1]}
                    ELSE {i \in 1..Len(s) : i - 1 \in g[j - 1] /\ v[j] \in {s[i], Query}}]
         /\ (Glob(s, v) <=> Len(s) \in g[Len(v)])
    BY GlobEquation
<1>2. g[0] = {0}
    BY <1>1
<1>3. ASSUME NEW j \in 1..Len(v)
      PROVE  g[j] = IF v[j] = Star THEN UNION {k..Len(s) : k \in g[j - 1]}
                    ELSE {i \in 1..Len(s) : i - 1 \in g[j - 1] /\ v[j] \in {s[i], Query}}
    <2>1. j \in 0..Len(v) /\ j # 0
        OBVIOUS
    <2>q. QED BY <1>1, <2>1, Zenon
<1> DEFINE T == {j \in Nat : j <= Len(v) => g[j] \subseteq 0..Len(s)}
<1>4. 0 \in T
    BY <1>2
<1>5. ASSUME NEW j \in Nat, j \in T PROVE j + 1 \in T
    <2>1. SUFFICES ASSUME j + 1 <= Len(v) PROVE g[j + 1] \subseteq 0..Len(s)
        BY <2>1
    <2>2. j + 1 \in 1..Len(v) /\ (j + 1) - 1 = j /\ g[j] \subseteq 0..Len(s)
        BY <1>5, <2>1
    <2>3. g[j + 1] = IF v[j + 1] = Star THEN UNION {k..Len(s) : k \in g[j]}
                     ELSE {i \in 1..Len(s) : i - 1 \in g[j] /\ v[j + 1] \in {s[i], Query}}
        BY <1>3, <2>2
    <2>q. QED BY <2>2, <2>3
<1>6. Nat \subseteq T
    <2> HIDE DEF T
    <2>q. QED BY <1>4, <1>5, NatInduct
<1>7. \A j \in 0..Len(v) : g[j] \subseteq 0..Len(s)
    BY <1>6
<1>8. ASSUME NEW j \in 1..Len(v)
      PROVE  IF v[j] = Star
             THEN \A i : i \in g[j] <=> i \in 0..Len(s) /\ \E k \in g[j - 1] : k <= i
             ELSE \A i : i \in g[j] <=> i \in 1..Len(s) /\ i - 1 \in g[j - 1]
                                                      /\ v[j] \in {s[i], Query}
    <2>1. j - 1 \in 0..Len(v) /\ g[j - 1] \subseteq 0..Len(s)
        BY <1>7
    <2>2. CASE v[j] = Star
        <3>1. g[j] = UNION {k..Len(s) : k \in g[j - 1]}
            BY <1>3, <2>2
        <3>2. \A k \in g[j - 1] : k \in 0..Len(s)
            BY <2>1
        <3>3. ASSUME NEW i \in g[j] PROVE i \in 0..Len(s) /\ \E k \in g[j - 1] : k <= i
            <4>1. PICK k \in g[j - 1] : i \in k..Len(s)
                BY <3>1
            <4>q. QED BY <3>2, <4>1
        <3>4. ASSUME NEW i \in 0..Len(s), NEW k \in g[j - 1], k <= i PROVE i \in g[j]
            <4>1. i \in k..Len(s)
                BY <3>2, <3>4
            <4>q. QED BY <3>1, <4>1
        <3>q. QED BY <2>2, <3>3, <3>4
    <2>3. CASE v[j] # Star
        <3>1. g[j] = {i \in 1..Len(s) : i - 1 \in g[j - 1] /\ v[j] \in {s[i], Query}}
            BY <1>3, <2>3
        <3>q. QED BY <2>3, <3>1
    <2>q. QED BY <2>2, <2>3
<1>q. QED BY <1>1, <1>2, <1>7, <1>8 DEF Reaches

\* The m signs of v behind the first a are no wildcards.
PlainRun(v, a, m) == \A k \in 1..m : v[a + k] \notin {Star, Query}

\* They move a match by m places and compare these.
Moves(g, s, v, a, m) ==
    \A i \in Int : i \in g[a + m] <=>
        /\ i <= Len(s) /\ i - m \in g[a]
        /\ \A k \in 1..m : s[i - m + k] = v[a + k]

(***************************************************************************)
(* A run of m characters that are no wildcards moves a match by m places   *)
(* and compares these.                                                     *)
(***************************************************************************)
LEMMA LiteralRun ==
    ASSUME NEW s, NEW v, Len(s) \in Nat, Len(v) \in Nat, NEW g, Reaches(g, s, v),
           NEW a \in Nat, NEW m \in Nat, a + m <= Len(v), PlainRun(v, a, m)
    PROVE  Moves(g, s, v, a, m)
<1> DEFINE Right(n) == \A i \in Int : i \in g[a + n] <=>
                          /\ i <= Len(s) /\ i - n \in g[a]
                          /\ \A k \in 1..n : s[i - n + k] = v[a + k]
           T == {n \in Nat : n <= m => Right(n)}
<1>1. 0 \in T
    <2>1. a \in 0..Len(v) /\ g[a] \subseteq 0..Len(s) /\ a + 0 = a
        BY DEF Reaches
    <2>2. Right(0)
        BY <2>1
    <2> HIDE DEF Right
    <2>q. QED BY <2>2
<1>2. ASSUME NEW n \in Nat, n \in T PROVE n + 1 \in T
    <2>1. SUFFICES ASSUME n + 1 <= m PROVE Right(n + 1)
        <3> HIDE DEF Right
        <3>q. QED BY <2>1
    <2>2. Right(n)
        <3> HIDE DEF Right
        <3>q. QED BY <1>2, <2>1
    <2> DEFINE j == a + (n + 1)
    <2>3. /\ j \in 1..Len(v) /\ j - 1 = a + n /\ n + 1 \in 1..m
          /\ v[j] # Star /\ v[j] # Query
        <3>1. n + 1 \in 1..m /\ a + (n + 1) \in 1..Len(v) /\ (a + (n + 1)) - 1 = a + n
            BY <2>1
        <3>2. v[a + (n + 1)] \notin {Star, Query}
            BY <3>1 DEF PlainRun
        <3>q. QED BY <3>1, <3>2
    <2>4. \A i : i \in g[j] <=> i \in 1..Len(s) /\ i - 1 \in g[a + n] /\ v[j] = s[i]
        BY <2>3 DEF Reaches
    <2>5. g[a] \subseteq 0..Len(s)
        BY DEF Reaches
    <2>6. ASSUME NEW i \in Int
          PROVE  i \in g[j] <=> /\ i <= Len(s) /\ i - (n + 1) \in g[a]
                                /\ \A k \in 1..(n + 1) : s[i - (n + 1) + k] = v[a + k]
        <3>1. i - 1 \in Int /\ (i - 1) - n = i - (n + 1) /\ (i - 1 <= Len(s) <=> i <= Len(s) + 1)
            OBVIOUS
        <3>2. i - 1 \in g[a + n] <=> /\ i - 1 <= Len(s) /\ i - (n + 1) \in g[a]
                                     /\ \A k \in 1..n : s[i - (n + 1) + k] = v[a + k]
            BY <2>2, <3>1
        <3>3. i - (n + 1) + (n + 1) = i
            OBVIOUS
        <3>4. (\A k \in 1..(n + 1) : s[i - (n + 1) + k] = v[a + k])
                 <=> (\A k \in 1..n : s[i - (n + 1) + k] = v[a + k]) /\ s[i] = v[j]
            <4>1. \A k \in 1..(n + 1) : k \in 1..n \/ k = n + 1
                OBVIOUS
            <4>2. \A k \in 1..n : k \in 1..(n + 1)
                OBVIOUS
            <4>3. n + 1 \in 1..(n + 1)
                OBVIOUS
            <4>q. QED BY <3>3, <4>1, <4>2, <4>3
        <3>5. i - (n + 1) \in g[a] => i >= 1
            BY <2>5
        <3> DEFINE Short == \A k \in 1..n : s[i - (n + 1) + k] = v[a + k]
                   Long == \A k \in 1..(n + 1) : s[i - (n + 1) + k] = v[a + k]
                   Same == v[j] = s[i]
                   From == i - (n + 1) \in g[a]
        <3>6. /\ i \in g[j] <=> i \in 1..Len(s) /\ i - 1 \in g[a + n] /\ Same
              /\ i - 1 \in g[a + n] <=> i - 1 <= Len(s) /\ From /\ Short
              /\ Long <=> Short /\ Same
              /\ From => i >= 1
            BY <2>4, <3>2, <3>4, <3>5
        <3> HIDE DEF Short, Long, Same, From, j
        <3>7. i \in g[j] <=> i <= Len(s) /\ From /\ Long
            BY <3>6
        <3>q. QED BY <3>7 DEF From, Long
    <2>q. QED BY <2>6
<1>3. Nat \subseteq T
    <2> HIDE DEF T
    <2>q. QED BY <1>1, <1>2, NatInduct
<1>4. Right(m)
    <2> HIDE DEF Right
    <2>q. QED BY <1>3
<1>q. QED BY <1>4 DEF Moves

Sign == Char \cup {Star}

\* Without wildcards a glob is the string it matches.
LEMMA GlobPlain ==
    ASSUME NEW s \in Seq(Char), NEW v \in Seq(Sign),
           \A k \in 1..Len(v) : v[k] \notin {Star, Query}
    PROVE  Glob(s, v) <=> s = v
<1>1. Len(s) \in Nat /\ Len(v) \in Nat
    OBVIOUS
<1>2. PICK g : Reaches(g, s, v) /\ (Glob(s, v) <=> Len(s) \in g[Len(v)])
    BY <1>1, GlobReaches
<1>3. PlainRun(v, 0, Len(v)) /\ 0 + Len(v) <= Len(v) /\ 0 \in Nat
    BY DEF PlainRun
<1>4. Moves(g, s, v, 0, Len(v))
    BY <1>1, <1>2, <1>3, LiteralRun
<1>5. \A i \in Int : i \in g[0] <=> i = 0
    BY <1>2 DEF Reaches
<1>6. Glob(s, v) <=> Len(s) = Len(v) /\ \A k \in 1..Len(v) : s[k] = v[k]
    <2>1. 0 + Len(v) = Len(v) /\ Len(s) \in Int /\ Len(s) - Len(v) \in Int
        BY <1>1
    <2>2. Glob(s, v) <=> /\ Len(s) - Len(v) = 0
                         /\ \A k \in 1..Len(v) : s[Len(s) - Len(v) + k] = v[0 + k]
        BY <1>2, <1>4, <1>5, <2>1 DEF Moves
    <2>3. \A k \in 1..Len(v) : 0 + k = k
        OBVIOUS
    <2>q. QED BY <1>1, <2>2, <2>3
<1>q. QED BY <1>6

\* A glob whose only wildcard is the star in front of it is a suffix.
LEMMA GlobLeadingStar ==
    ASSUME NEW s \in Seq(Char), NEW v \in Seq(Sign), NEW m \in Nat, Len(v) = m + 1,
           v[1] = Star, \A k \in 1..m : v[1 + k] \notin {Star, Query}
    PROVE  Glob(s, v) <=> m <= Len(s) /\ \A k \in 1..m : s[Len(s) - m + k] = v[1 + k]
<1>1. Len(s) \in Nat /\ Len(v) \in Nat /\ 1 \in 1..Len(v) /\ 1 + m = Len(v) /\ 1 - 1 = 0
    OBVIOUS
<1>2. PICK g : Reaches(g, s, v) /\ (Glob(s, v) <=> Len(s) \in g[Len(v)])
    BY <1>1, GlobReaches
<1>3. Moves(g, s, v, 1, m)
    <2>1. PlainRun(v, 1, m) /\ 1 + m <= Len(v) /\ 1 \in Nat
        BY <1>1 DEF PlainRun
    <2>q. QED BY <1>1, <1>2, <2>1, LiteralRun
<1>4. \A i : i \in g[1] <=> i \in 0..Len(s)
    <2>1. 0 \in g[0] /\ \A i : i \in g[1] <=> i \in 0..Len(s) /\ \E k \in g[0] : k <= i
        BY <1>1, <1>2 DEF Reaches
    <2>q. QED BY <2>1
<1>5. Len(s) \in g[Len(v)] <=> m <= Len(s) /\ \A k \in 1..m : s[Len(s) - m + k] = v[1 + k]
    <2>1. Len(s) \in g[1 + m] <=>
            /\ Len(s) <= Len(s) /\ Len(s) - m \in g[1]
            /\ \A k \in 1..m : s[Len(s) - m + k] = v[1 + k]
        <3>1. Len(s) \in Int
            BY <1>1
        <3>q. QED BY <1>3, <3>1, Zenon DEF Moves
    <2>2. Len(s) - m \in g[1] <=> m <= Len(s)
        BY <1>1, <1>4
    <2>3. g[Len(v)] = g[1 + m] /\ Len(s) <= Len(s)
        BY <1>1
    <2>q. QED BY <2>1, <2>2, <2>3
<1>q. QED BY <1>2, <1>5

\* A glob whose only wildcard is the star behind it is a prefix.
LEMMA GlobTrailingStar ==
    ASSUME NEW s \in Seq(Char), NEW v \in Seq(Sign), NEW m \in Nat, Len(v) = m + 1,
           v[m + 1] = Star, \A k \in 1..m : v[k] \notin {Star, Query}
    PROVE  Glob(s, v) <=> m <= Len(s) /\ \A k \in 1..m : s[k] = v[k]
<1>1. /\ Len(s) \in Nat /\ Len(v) \in Nat /\ m + 1 \in 1..Len(v) /\ (m + 1) - 1 = m
      /\ 0 + m = m /\ 0 + m <= Len(v) /\ m \in Int
    OBVIOUS
<1>2. PICK g : Reaches(g, s, v) /\ (Glob(s, v) <=> Len(s) \in g[Len(v)])
    BY <1>1, GlobReaches
<1>3. PlainRun(v, 0, m) /\ 0 \in Nat
    BY DEF PlainRun
<1>4. Moves(g, s, v, 0, m)
    BY <1>1, <1>2, <1>3, LiteralRun
<1>5. \A i \in Int : i \in g[m] <=> i = m /\ m <= Len(s) /\ \A k \in 1..m : s[k] = v[k]
    <2>1. \A i \in Int : i - m \in g[0] <=> i = m
        BY <1>2 DEF Reaches
    <2>2. ASSUME NEW i \in Int
          PROVE  i \in g[0 + m] <=> /\ i <= Len(s) /\ i - m \in g[0]
                                    /\ \A k \in 1..m : s[i - m + k] = v[0 + k]
        BY <1>4, Zenon DEF Moves
    <2>3. ASSUME NEW i \in Int, i = m
          PROVE  (\A k \in 1..m : s[i - m + k] = v[0 + k]) <=> \A k \in 1..m : s[k] = v[k]
        <3>1. \A k \in 1..m : i - m + k = k /\ 0 + k = k
            BY <2>3
        <3>q. QED BY <3>1
    <2>q. QED BY <1>1, <2>1, <2>2, <2>3
<1>6. Len(s) \in g[m + 1] <=> \E k \in g[m] : k <= Len(s)
    BY <1>1, <1>2 DEF Reaches
<1>7. g[m] \subseteq Int
    BY <1>1, <1>2 DEF Reaches
<1>q. QED BY <1>1, <1>2, <1>5, <1>6, <1>7

\* A prefix or a suffix is contained.
LEMMA GlobContains ==
    ASSUME NEW s \in Seq(Char), NEW v \in Seq(Sign), NEW m \in Nat, Len(v) = m + 2,
           v[1] = Star, v[m + 2] = Star, \A k \in 1..m : v[1 + k] \notin {Star, Query},
           m <= Len(s),
           \/ \A k \in 1..m : s[k] = v[1 + k]
           \/ \A k \in 1..m : s[Len(s) - m + k] = v[1 + k]
    PROVE  Glob(s, v)
<1>1. /\ Len(s) \in Nat /\ Len(v) \in Nat /\ 1 \in 1..Len(v) /\ 1 + m <= Len(v) /\ 1 - 1 = 0
      /\ m + 2 \in 1..Len(v) /\ (m + 2) - 1 = 1 + m
    OBVIOUS
<1>2. PICK g : Reaches(g, s, v) /\ (Glob(s, v) <=> Len(s) \in g[Len(v)])
    BY <1>1, GlobReaches
<1>3. Moves(g, s, v, 1, m)
    <2>1. PlainRun(v, 1, m) /\ 1 + m <= Len(v) /\ 1 \in Nat
        BY <1>1 DEF PlainRun
    <2>q. QED BY <1>1, <1>2, <2>1, LiteralRun
<1>4. \A i : i \in g[1] <=> i \in 0..Len(s)
    <2>1. 0 \in g[0] /\ \A i : i \in g[1] <=> i \in 0..Len(s) /\ \E k \in g[0] : k <= i
        BY <1>1, <1>2 DEF Reaches
    <2>q. QED BY <2>1
<1>5. Len(s) \in g[m + 2] <=> \E k \in g[1 + m] : k <= Len(s)
    BY <1>1, <1>2 DEF Reaches
<1>6. CASE \A k \in 1..m : s[k] = v[1 + k]
    <2>1. m \in Int /\ m - m = 0 /\ \A k \in 1..m : m - m + k = k
        OBVIOUS
    <2>2. m \in g[1 + m]
        BY <1>1, <1>3, <1>4, <1>6, <2>1 DEF Moves
    <2>q. QED BY <1>2, <1>5, <2>2
<1>7. CASE \A k \in 1..m : s[Len(s) - m + k] = v[1 + k]
    <2>1. Len(s) \in g[1 + m] <=>
            /\ Len(s) <= Len(s) /\ Len(s) - m \in g[1]
            /\ \A k \in 1..m : s[Len(s) - m + k] = v[1 + k]
        <3>1. Len(s) \in Int
            BY <1>1
        <3>q. QED BY <1>3, <3>1, Zenon DEF Moves
    <2>2. Len(s) - m \in g[1] /\ Len(s) <= Len(s)
        BY <1>1, <1>4
    <2>3. Len(s) \in g[1 + m]
        BY <1>7, <2>1, <2>2
    <2>q. QED BY <1>1, <1>2, <1>5, <2>3
<1>q. QED BY <1>6, <1>7

-----------------------------------------------------------------------------
\* A value of a field and the term made of it.

\* A match kind comes of the modifiers it is named for, and `contains` has none.
LEMMA ModifierKind ==
    ASSUME NEW mods \in Seq(STRING), modifier_kind(mods) # NoKind
    PROVE  /\ "contains" \notin ToSet(mods)
           /\ modifier_kind(mods) \in MatchKinds
           /\ modifier_kind(mods) = MATCH_EXACT
                 => "startswith" \notin ToSet(mods) /\ "endswith" \notin ToSet(mods)
           /\ modifier_kind(mods) = MATCH_PREFIX => "startswith" \in ToSet(mods)
           /\ modifier_kind(mods) = MATCH_SUFFIX => "endswith" \in ToSet(mods)
<1> DEFINE starts == {i \in DOMAIN mods : mods[i] = "startswith"}
           ends   == {i \in DOMAIN mods : mods[i] = "endswith"}
<1>1. /\ "startswith" \in ToSet(mods) <=> starts # {}
      /\ "endswith" \in ToSet(mods) <=> ends # {}
    BY DEF ToSet
<1>2. /\ ToSet(mods) \subseteq Anchors \cup {"all"}
      /\ modifier_kind(mods) = IF starts \cup ends = {} THEN MATCH_EXACT
                               ELSE IF \E i \in starts : \A j \in ends : j < i
                                    THEN MATCH_PREFIX ELSE MATCH_SUFFIX
    BY DEF modifier_kind
<1>3. "contains" \notin ToSet(mods)
    BY <1>2 DEF Anchors
<1> HIDE DEF starts, ends
<1>q. QED BY <1>1, <1>2, <1>3 DEF MatchKinds, MATCH_EXACT, MATCH_PREFIX, MATCH_SUFFIX

\* The four globs that the modifiers of a plain text come to.
LEMMA PlainText ==
    ASSUME NEW s \in Seq(Char), NEW t \in Seq(Char),
           \A k \in 1..Len(t) : t[k] \notin {Star, Query}
    PROVE  /\ Glob(s, <<>> \o t \o <<>>) <=> s = t
           /\ Glob(s, <<Star>> \o t \o <<>>) <=> EndsWith(s, t)
           /\ Glob(s, <<>> \o t \o <<Star>>) <=> StartsWith(s, t)
           /\ StartsWith(s, t) \/ EndsWith(s, t) => Glob(s, <<Star>> \o t \o <<Star>>)
<1> DEFINE m == Len(t)
<1>1. m \in Nat /\ t \in Seq(Sign)
    BY DEF Sign
<1>2. Glob(s, <<>> \o t \o <<>>) <=> s = t
    <2>1. <<>> \o t \o <<>> = t
        OBVIOUS
    <2>q. QED BY <1>1, <2>1, GlobPlain
<1>3. Glob(s, <<Star>> \o t \o <<>>) <=> EndsWith(s, t)
    <2> DEFINE v == <<Star>> \o t \o <<>>
    <2>1. /\ v \in Seq(Sign) /\ Len(v) = m + 1 /\ v[1] = Star
          /\ \A k \in 1..m : v[1 + k] = t[k]
        BY <1>1 DEF Sign
    <2> HIDE DEF v
    <2>2. \A k \in 1..m : v[1 + k] \notin {Star, Query}
        BY <2>1
    <2>3. Glob(s, v) <=> m <= Len(s) /\ \A k \in 1..m : s[Len(s) - m + k] = v[1 + k]
        BY <1>1, <2>1, <2>2, GlobLeadingStar
    <2>4. Glob(s, v) <=> EndsWith(s, t)
        BY <2>1, <2>3 DEF EndsWith
    <2>q. QED BY <2>4 DEF v
<1>4. Glob(s, <<>> \o t \o <<Star>>) <=> StartsWith(s, t)
    <2> DEFINE v == <<>> \o t \o <<Star>>
    <2>1. /\ v \in Seq(Sign) /\ Len(v) = m + 1 /\ v[m + 1] = Star
          /\ \A k \in 1..m : v[k] = t[k]
        BY <1>1 DEF Sign
    <2> HIDE DEF v
    <2>2. \A k \in 1..m : v[k] \notin {Star, Query}
        BY <2>1
    <2>3. Glob(s, v) <=> m <= Len(s) /\ \A k \in 1..m : s[k] = v[k]
        BY <1>1, <2>1, <2>2, GlobTrailingStar
    <2>4. Glob(s, v) <=> StartsWith(s, t)
        BY <2>1, <2>3 DEF StartsWith
    <2>q. QED BY <2>4 DEF v
<1>5. ASSUME StartsWith(s, t) \/ EndsWith(s, t) PROVE Glob(s, <<Star>> \o t \o <<Star>>)
    <2> DEFINE v == <<Star>> \o t \o <<Star>>
    <2>1. /\ v \in Seq(Sign) /\ Len(v) = m + 2 /\ v[1] = Star /\ v[m + 2] = Star
          /\ \A k \in 1..m : v[1 + k] = t[k]
        BY <1>1 DEF Sign
    <2> HIDE DEF v
    <2>2. \A k \in 1..m : v[1 + k] \notin {Star, Query}
        BY <2>1
    <2>3. /\ m <= Len(s)
          /\ \/ \A k \in 1..m : s[k] = v[1 + k]
             \/ \A k \in 1..m : s[Len(s) - m + k] = v[1 + k]
        BY <1>5, <2>1 DEF StartsWith, EndsWith
    <2>4. Glob(s, v)
        BY <1>1, <2>1, <2>2, <2>3, GlobContains
    <2>q. QED BY <2>4 DEF v
<1>q. QED BY <1>2, <1>3, <1>4, <1>5

\* What anchor gives is one term at most, and never an empty pattern.
LEMMA AnchorGives ==
    ASSUME NEW v \in Seq(Char), NEW kind, NEW t \in anchor(v, kind)
    PROVE  /\ Query \notin ToSet(v) /\ t.pat # <<>> /\ kind # NoKind /\ v # <<>>
           /\ LET stars == {i \in DOMAIN v : v[i] = Star}
              IN  \/ stars = {} /\ t = PatternTerm(v, kind)
                 \/ /\ stars = {1} /\ kind = MATCH_EXACT
                    /\ t = PatternTerm(Tail(v), MATCH_SUFFIX)
                 \/ /\ stars = {Len(v)} /\ stars # {1} /\ kind = MATCH_EXACT
                    /\ t = PatternTerm(Front(v), MATCH_PREFIX)
<1> DEFINE stars == {i \in DOMAIN v : v[i] = Star}
<1>1. Query \notin ToSet(v) /\ t.pat # <<>>
    BY DEF anchor
<1>2. \/ stars = {} /\ kind # NoKind /\ t = PatternTerm(v, kind)
      \/ stars = {1} /\ kind = MATCH_EXACT /\ t = PatternTerm(Tail(v), MATCH_SUFFIX)
      \/ /\ stars = {Len(v)} /\ stars # {1} /\ kind = MATCH_EXACT
         /\ t = PatternTerm(Front(v), MATCH_PREFIX)
    BY DEF anchor
<1>3. MATCH_EXACT # NoKind
    BY DEF MATCH_EXACT, NoKind
<1>4. v # <<>>
    <2>1. CASE stars = {}
        <3>1. t = PatternTerm(v, kind)
            BY <1>2, <2>1
        <3>q. QED BY <1>1, <3>1 DEF PatternTerm
    <2>2. CASE stars # {}
        BY <2>2
    <2>q. QED BY <2>1, <2>2
<1> HIDE DEF stars
<1>5. kind # NoKind
    BY <1>2, <1>3
<1>q. QED BY <1>1, <1>2, <1>4, <1>5 DEF stars

\* A value has one term at most: the choice in OutcomeOf is none.
LEMMA AnchorOne ==
    ASSUME NEW v \in Seq(Char), NEW kind, NEW t \in anchor(v, kind), NEW u \in anchor(v, kind)
    PROVE  t = u
<1> DEFINE stars == {i \in DOMAIN v : v[i] = Star}
<1>1. ASSUME NEW w \in anchor(v, kind)
      PROVE  \/ stars = {} /\ w = PatternTerm(v, kind)
             \/ stars = {1} /\ w = PatternTerm(Tail(v), MATCH_SUFFIX)
             \/ stars = {Len(v)} /\ stars # {1} /\ w = PatternTerm(Front(v), MATCH_PREFIX)
    BY <1>1, AnchorGives
<1> HIDE DEF stars
<1>q. QED BY <1>1

(***************************************************************************)
(* The term of a value means what the value means to Sigma: for the events *)
(* it wants Sigma matches the value, and the other way round when the      *)
(* field has one anchoring modifier at most.                               *)
(***************************************************************************)
THEOREM TermMeansValue ==
    ASSUME NEW v \in Value, NEW mods \in Seq(STRING),
           NEW t \in anchor(v.text, modifier_kind(mods)), NEW s \in Seq(Char)
    PROVE  /\ Anchored(s, t.pat, t.kind) => ValueMatches(s, v, ToSet(mods))
           /\ ValueMatches(s, v, ToSet(mods)) /\ ~(Anchors \subseteq ToSet(mods))
                 => Anchored(s, t.pat, t.kind)
<1> DEFINE x == v.text
           kind == modifier_kind(mods)
           stars == {i \in DOMAIN x : x[i] = Star}
           sw == "startswith" \in ToSet(mods)
           ew == "endswith" \in ToSet(mods)
<1>1. x \in Seq(Char) /\ Len(x) \in Nat /\ DOMAIN x = 1..Len(x)
    BY DEF Value
<1>2. /\ Query \notin ToSet(x) /\ t.pat # <<>> /\ kind # NoKind /\ x # <<>>
      /\ \/ stars = {} /\ t = PatternTerm(x, kind)
         \/ stars = {1} /\ kind = MATCH_EXACT /\ t = PatternTerm(Tail(x), MATCH_SUFFIX)
         \/ /\ stars = {Len(x)} /\ stars # {1} /\ kind = MATCH_EXACT
            /\ t = PatternTerm(Front(x), MATCH_PREFIX)
    BY <1>1, AnchorGives
<1>3. /\ "contains" \notin ToSet(mods) /\ kind \in MatchKinds
      /\ kind = MATCH_EXACT => ~sw /\ ~ew
      /\ kind = MATCH_PREFIX => sw
      /\ kind = MATCH_SUFFIX => ew
    BY <1>2, ModifierKind
<1>4. Anchors \subseteq ToSet(mods) <=> sw /\ ew
    BY DEF Anchors
<1>5. ValueMatches(s, v, ToSet(mods)) <=>
         Glob(s, (IF ew THEN <<Star>> ELSE <<>>) \o x \o (IF sw THEN <<Star>> ELSE <<>>))
    <2>1. /\ ToSet(mods) \cap {"endswith", "contains"} # {} <=> ew
          /\ ToSet(mods) \cap {"startswith", "contains"} # {} <=> sw
        BY <1>3
    <2>q. QED BY <2>1 DEF ValueMatches
<1>6. ASSUME NEW pat, NEW k, t = PatternTerm(pat, k)
      PROVE  t.pat = pat /\ t.kind = k /\ pat # <<>>
    BY <1>2, <1>6 DEF PatternTerm
<1>7. \A i \in 1..Len(x) : x[i] # Query
    BY <1>1, <1>2 DEF ToSet
<1> HIDE DEF kind, sw, ew
<1>8. CASE stars = {}
    <2>1. t.pat = x /\ t.kind = kind
        BY <1>2, <1>6, <1>8
    <2>2. \A i \in 1..Len(x) : x[i] \notin {Star, Query}
        BY <1>1, <1>7, <1>8
    <2>3. /\ Glob(s, <<>> \o x \o <<>>) <=> s = x
          /\ Glob(s, <<Star>> \o x \o <<>>) <=> EndsWith(s, x)
          /\ Glob(s, <<>> \o x \o <<Star>>) <=> StartsWith(s, x)
          /\ StartsWith(s, x) \/ EndsWith(s, x) => Glob(s, <<Star>> \o x \o <<Star>>)
        BY <1>1, <2>2, PlainText
    <2>4. /\ ~ew /\ ~sw => (ValueMatches(s, v, ToSet(mods)) <=> s = x)
          /\ ew /\ ~sw => (ValueMatches(s, v, ToSet(mods)) <=> EndsWith(s, x))
          /\ ~ew /\ sw => (ValueMatches(s, v, ToSet(mods)) <=> StartsWith(s, x))
          /\ ew /\ sw /\ (StartsWith(s, x) \/ EndsWith(s, x)) => ValueMatches(s, v, ToSet(mods))
        BY <1>5, <2>3
    <2>5. /\ kind = MATCH_EXACT => (Anchored(s, x, kind) <=> s = x)
          /\ kind = MATCH_PREFIX => (Anchored(s, x, kind) <=> StartsWith(s, x))
          /\ kind = MATCH_SUFFIX => (Anchored(s, x, kind) <=> EndsWith(s, x))
        BY <1>2 DEF Anchored, MATCH_EXACT, MATCH_PREFIX, MATCH_SUFFIX
    <2>6. kind \in {MATCH_EXACT, MATCH_PREFIX, MATCH_SUFFIX}
        BY <1>3 DEF MatchKinds
    <2>q. QED BY <1>3, <1>4, <2>1, <2>4, <2>5, <2>6
<1>9. CASE stars = {1} /\ t = PatternTerm(Tail(x), MATCH_SUFFIX) /\ kind = MATCH_EXACT
    <2> DEFINE m == Len(x) - 1
    <2>1. t.pat = Tail(x) /\ t.kind = MATCH_SUFFIX /\ Tail(x) # <<>>
        BY <1>6, <1>9
    <2>2. /\ m \in Nat /\ Len(x) = m + 1 /\ x[1] = Star /\ Len(Tail(x)) = m
          /\ \A k \in 1..m : Tail(x)[k] = x[1 + k]
        BY <1>1, <1>9
    <2>3. \A k \in 1..m : x[1 + k] \notin {Star, Query}
        <3>1. \A k \in 1..m : 1 + k \in 1..Len(x) /\ 1 + k # 1
            BY <2>2
        <3>q. QED BY <1>1, <1>7, <1>9, <3>1
    <2>4. x \in Seq(Sign)
        BY <1>1 DEF Sign
    <2>5. Glob(s, x) <=> m <= Len(s) /\ \A k \in 1..m : s[Len(s) - m + k] = x[1 + k]
        <3> HIDE DEF m
        <3>q. QED BY <2>2, <2>3, <2>4, GlobLeadingStar
    <2>6. Anchored(s, Tail(x), MATCH_SUFFIX) <=>
             m <= Len(s) /\ \A k \in 1..m : s[Len(s) - m + k] = x[1 + k]
        <3> DEFINE p == Tail(x)
        <3>1. p # <<>> /\ Len(p) = m /\ \A k \in 1..m : p[k] = x[1 + k]
            BY <2>1, <2>2
        <3> HIDE DEF m, p
        <3>2. Anchored(s, p, MATCH_SUFFIX) <=> EndsWith(s, p)
            BY <3>1 DEF Anchored, MATCH_EXACT, MATCH_PREFIX, MATCH_SUFFIX
        <3>3. EndsWith(s, p) <=> m <= Len(s) /\ \A k \in 1..m : s[Len(s) - m + k] = x[1 + k]
            BY <3>1 DEF EndsWith
        <3>q. QED BY <3>2, <3>3 DEF p
    <2>7. <<>> \o x \o <<>> = x
        BY <1>1
    <2>8. ValueMatches(s, v, ToSet(mods)) <=> Glob(s, x)
        BY <1>3, <1>5, <1>9, <2>7
    <2>q. QED BY <2>1, <2>5, <2>6, <2>8
<1>10. CASE stars = {Len(x)} /\ t = PatternTerm(Front(x), MATCH_PREFIX) /\ kind = MATCH_EXACT
    <2> DEFINE m == Len(x) - 1
    <2>1. t.pat = Front(x) /\ t.kind = MATCH_PREFIX /\ Front(x) # <<>>
        BY <1>6, <1>10
    <2>2. /\ m \in Nat /\ Len(x) = m + 1 /\ x[m + 1] = Star /\ Len(Front(x)) = m
          /\ \A k \in 1..m : Front(x)[k] = x[k]
        <3>1. m \in Nat /\ Len(x) = m + 1 /\ m <= Len(x)
            BY <1>1, <1>2
        <3>2. x[Len(x)] = Star
            BY <1>1, <1>10
        <3>3. Front(x) = SubSeq(x, 1, m)
            BY DEF Front
        <3> HIDE DEF m
        <3>4. Len(Front(x)) = m /\ \A k \in 1..m : Front(x)[k] = x[k]
            BY <1>1, <3>1, <3>3
        <3>q. QED BY <3>1, <3>2, <3>4
    <2>3. \A k \in 1..m : x[k] \notin {Star, Query}
        <3>1. \A k \in 1..m : k \in 1..Len(x) /\ k # Len(x)
            BY <2>2
        <3>q. QED BY <1>1, <1>7, <1>10, <3>1
    <2>4. x \in Seq(Sign)
        BY <1>1 DEF Sign
    <2>5. Glob(s, x) <=> m <= Len(s) /\ \A k \in 1..m : s[k] = x[k]
        <3> HIDE DEF m
        <3>q. QED BY <2>2, <2>3, <2>4, GlobTrailingStar
    <2>6. Anchored(s, Front(x), MATCH_PREFIX) <=>
             m <= Len(s) /\ \A k \in 1..m : s[k] = x[k]
        <3> HIDE DEF m
        <3>q. QED BY <2>1, <2>2 DEF Anchored, StartsWith, MATCH_EXACT, MATCH_PREFIX, MATCH_SUFFIX
    <2>7. <<>> \o x \o <<>> = x
        BY <1>1
    <2>8. ValueMatches(s, v, ToSet(mods)) <=> Glob(s, x)
        BY <1>3, <1>5, <1>10, <2>7
    <2>q. QED BY <2>1, <2>5, <2>6, <2>8
<1>q. QED BY <1>2, <1>8, <1>9, <1>10

-----------------------------------------------------------------------------
\* What is collected over the values, fields and blocks of a rule.

PTerm == [pat : Seq(Char), kind : MatchKinds]

\* The parts a loop appends: nothing, or one value.
LEMMA ShortElements == ToSet(<<>>) = {} /\ \A x : ToSet(<<x>>) = {x}
BY DEF ToSet

\* A term has a text and one of the three match kinds.
LEMMA AnchorTyped ==
    ASSUME NEW v \in Seq(Char), NEW kind \in MatchKinds \cup {NoKind}
    PROVE  anchor(v, kind) \in SUBSET PTerm
<1> SUFFICES ASSUME NEW t \in anchor(v, kind) PROVE t \in PTerm
    OBVIOUS
<1>1. /\ kind # NoKind /\ v # <<>>
      /\ t \in {PatternTerm(v, kind), PatternTerm(Tail(v), MATCH_SUFFIX),
                PatternTerm(Front(v), MATCH_PREFIX)}
    BY AnchorGives
<1>2. Tail(v) \in Seq(Char)
    BY <1>1
<1>3. Front(v) \in Seq(Char)
    BY <1>1 DEF Front
<1>4. kind \in MatchKinds /\ MATCH_SUFFIX \in MatchKinds /\ MATCH_PREFIX \in MatchKinds
    BY <1>1 DEF MatchKinds
<1>q. QED BY <1>1, <1>2, <1>3, <1>4 DEF PatternTerm, PTerm

\* collect_scalars keeps the strings of a value list and nothing else.
LEMMA Scalars ==
    ASSUME NEW e \in Item
    PROVE  /\ collect_scalars(e) \in Seq(Value)
           /\ \A v : v \in ToSet(collect_scalars(e)) <=> v \in ToSet(e.values) /\ v.string
<1> DEFINE vs == e.values
           part(j) == IF vs[j].string THEN <<vs[j]>> ELSE <<>>
           parts == [j \in DOMAIN vs |-> part(j)]
<1>1. vs \in Seq(Value) /\ Len(vs) \in Nat /\ DOMAIN vs = 1..Len(vs)
    BY DEF Item
<1>2. \A j \in 1..Len(vs) : part(j) \in Seq(Value)
    BY <1>1
<1>3. parts \in Seq(Seq(Value)) /\ Len(parts) = Len(vs)
    <2> HIDE DEF part
    <2>q. QED BY <1>1, <1>2
<1>4. \A j \in 1..Len(vs) : \A v : v \in ToSet(parts[j]) <=> v = vs[j] /\ vs[j].string
    <2>1. ASSUME NEW j \in 1..Len(vs) PROVE parts[j] = part(j)
        <3> HIDE DEF part
        <3>q. QED BY <1>1
    <2>q. QED BY <2>1, ShortElements
<1>5. collect_scalars(e) = FlattenSeq(parts)
    BY DEF collect_scalars
<1> HIDE DEF parts
<1>6. /\ FlattenSeq(parts) \in Seq(Value)
      /\ \A v : v \in ToSet(FlattenSeq(parts)) <=> \E j \in 1..Len(parts) : v \in ToSet(parts[j])
    BY <1>3, FlattenProperties
<1>7. \A v : v \in ToSet(vs) <=> \E j \in 1..Len(vs) : v = vs[j]
    BY <1>1 DEF ToSet
<1>8. ASSUME NEW v
      PROVE  v \in ToSet(collect_scalars(e)) <=> v \in ToSet(vs) /\ v.string
    <2>1. v \in ToSet(FlattenSeq(parts)) <=> \E j \in 1..Len(vs) : v = vs[j] /\ vs[j].string
        BY <1>3, <1>4, <1>6
    <2> HIDE DEF vs
    <2>q. QED BY <1>5, <1>7, <2>1
<1>q. QED BY <1>5, <1>6, <1>8

\* What modifier_kind may answer.
LEMMA KindTyped ==
    ASSUME NEW mods
    PROVE  modifier_kind(mods) \in MatchKinds \cup {NoKind}
BY DEF modifier_kind, MatchKinds

\* The loops of extract_pushdown lose nothing: every string of a field has its term,
LEMMA TermsOfField ==
    ASSUME NEW e \in Item
    PROVE  /\ FieldTerms(e) \in Seq(SUBSET PTerm)
           /\ \A T : T \in ToSet(FieldTerms(e)) <=>
                 \E v \in ToSet(collect_scalars(e)) : T = anchor(v.text, modifier_kind(e.mods))
<1> DEFINE cs == collect_scalars(e)
           term(j) == anchor(cs[j].text, modifier_kind(e.mods))
<1>1. cs \in Seq(Value) /\ Len(cs) \in Nat /\ DOMAIN cs = 1..Len(cs)
    BY Scalars
<1>2. FieldTerms(e) = [j \in 1..Len(cs) |-> term(j)]
    BY <1>1 DEF FieldTerms
<1> HIDE DEF cs
<1>3. \A j \in 1..Len(cs) : term(j) \in SUBSET PTerm
    <2>1. ASSUME NEW j \in 1..Len(cs) PROVE cs[j].text \in Seq(Char)
        <3>1. cs[j] \in Value
            BY <1>1
        <3>q. QED BY <3>1 DEF Value
    <2>q. QED BY <2>1, KindTyped, AnchorTyped
<1>4. FieldTerms(e) \in Seq(SUBSET PTerm)
    <2> HIDE DEF term
    <2>q. QED BY <1>1, <1>2, <1>3
<1>5. \A T : T \in ToSet(FieldTerms(e)) <=> \E j \in 1..Len(cs) : T = term(j)
    <2> HIDE DEF term
    <2>q. QED BY <1>1, <1>2 DEF ToSet
<1>6. \A v : v \in ToSet(cs) <=> \E j \in 1..Len(cs) : v = cs[j]
    BY <1>1 DEF ToSet
<1>q. QED BY <1>4, <1>5, <1>6 DEF cs

\* every field of the pushed name its terms in those of the block,
LEMMA TermsOfBlock ==
    ASSUME NEW b \in Block, NEW field
    PROVE  /\ BlockTerms(b, field) \in Seq(SUBSET PTerm)
           /\ \A T : T \in ToSet(BlockTerms(b, field)) <=>
                 \E e \in FieldsNamed(b, field) : T \in ToSet(FieldTerms(e))
<1> DEFINE es == b.fields
           part(i) == IF es[i].name = field THEN FieldTerms(es[i]) ELSE <<>>
           parts == [i \in DOMAIN es |-> part(i)]
<1>1. es \in Seq(Item) /\ Len(es) \in Nat /\ DOMAIN es = 1..Len(es)
    BY DEF Block
<1>2. \A i \in 1..Len(es) : part(i) \in Seq(SUBSET PTerm)
    BY <1>1, TermsOfField
<1>3. parts \in Seq(Seq(SUBSET PTerm)) /\ Len(parts) = Len(es)
    <2> HIDE DEF part
    <2>q. QED BY <1>1, <1>2
<1>4. \A i \in 1..Len(es) : \A T :
         T \in ToSet(parts[i]) <=> es[i].name = field /\ T \in ToSet(FieldTerms(es[i]))
    <2>1. ASSUME NEW i \in 1..Len(es) PROVE parts[i] = part(i)
        <3> HIDE DEF part
        <3>q. QED BY <1>1
    <2>q. QED BY <2>1, ShortElements
<1>5. BlockTerms(b, field) = FlattenSeq(parts)
    BY DEF BlockTerms
<1> HIDE DEF parts
<1>6. /\ FlattenSeq(parts) \in Seq(SUBSET PTerm)
      /\ \A T : T \in ToSet(FlattenSeq(parts)) <=> \E i \in 1..Len(parts) : T \in ToSet(parts[i])
    BY <1>3, FlattenProperties
<1>7. \A e : e \in FieldsNamed(b, field) <=> \E i \in 1..Len(es) : e = es[i] /\ es[i].name = field
    BY <1>1 DEF FieldsNamed, ToSet
<1>q. QED BY <1>3, <1>4, <1>5, <1>6, <1>7

\* and every selection its terms in those of the rule.
LEMMA TermsOfRule ==
    ASSUME NEW r \in SigmaRule, NEW field
    PROVE  /\ SelectionTerms(r, field) \in Seq(SUBSET PTerm)
           /\ \A T : T \in ToSet(SelectionTerms(r, field)) <=>
                 \E b \in Selections(r) : T \in ToSet(BlockTerms(b, field))
<1> DEFINE bs == r.blocks
           part(i) == IF bs[i].selection THEN BlockTerms(bs[i], field) ELSE <<>>
           parts == [i \in DOMAIN bs |-> part(i)]
<1>1. bs \in Seq(Block) /\ Len(bs) \in Nat /\ DOMAIN bs = 1..Len(bs)
    BY DEF SigmaRule
<1>2. \A i \in 1..Len(bs) : part(i) \in Seq(SUBSET PTerm)
    BY <1>1, TermsOfBlock
<1>3. parts \in Seq(Seq(SUBSET PTerm)) /\ Len(parts) = Len(bs)
    <2> HIDE DEF part
    <2>q. QED BY <1>1, <1>2
<1>4. \A i \in 1..Len(bs) : \A T :
         T \in ToSet(parts[i]) <=> bs[i].selection /\ T \in ToSet(BlockTerms(bs[i], field))
    <2>1. ASSUME NEW i \in 1..Len(bs) PROVE parts[i] = part(i)
        <3> HIDE DEF part
        <3>q. QED BY <1>1
    <2>q. QED BY <2>1, ShortElements
<1>5. SelectionTerms(r, field) = FlattenSeq(parts)
    BY DEF SelectionTerms
<1> HIDE DEF parts
<1>6. /\ FlattenSeq(parts) \in Seq(SUBSET PTerm)
      /\ \A T : T \in ToSet(FlattenSeq(parts)) <=> \E i \in 1..Len(parts) : T \in ToSet(parts[i])
    BY <1>3, FlattenProperties
<1>7. \A b : b \in Selections(r) <=> \E i \in 1..Len(bs) : b = bs[i] /\ bs[i].selection
    BY <1>1 DEF Selections, ToSet
<1>q. QED BY <1>3, <1>4, <1>5, <1>6, <1>7

-----------------------------------------------------------------------------
\* One rule and one event.

\* The string of the event that the kernel rules of its type look at.
Looked(rec) == IF rec.type = ET_FILE THEN rec.path ELSE rec.comm

\* What the readers of the two rings make of a record.
LEMMA EventOf ==
    ASSUME NEW rec
    PROVE  /\ rec.type = ET_FILE => EngineEvent(rec) = FromFile(rec)
           /\ rec.type = ET_LSM => EngineEvent(rec) = FromLsm(rec)
<1>1. ET_FILE # ET_EXECVE /\ ET_LSM # ET_EXECVE /\ ET_LSM # ET_FILE
    BY DEF ET_EXECVE, ET_FILE, ET_LSM
<1>2. ASSUME rec.type = ET_FILE PROVE EngineEvent(rec) = FromFile(rec)
    <2>1. ET_FILE # ET_MODULE /\ rec.type # ET_EXECVE /\ rec.type # ET_LSM
        BY <1>1, <1>2 DEF ET_FILE, ET_MODULE
    <2>q. QED BY <1>2, <2>1 DEF EngineEvent
<1>3. ASSUME rec.type = ET_LSM PROVE EngineEvent(rec) = FromLsm(rec)
    <2>1. ET_LSM # ET_MODULE /\ rec.type # ET_EXECVE /\ rec.type # ET_FILE
        BY <1>1, <1>3 DEF ET_LSM, ET_MODULE
    <2>q. QED BY <1>3, <2>1 DEF EngineEvent
<1>q. QED BY <1>2, <1>3

(***************************************************************************)
(* For FILE and LSM events the pushed field of Sigma and the slot of the   *)
(* kernel rule are the same string of the record.  (process_event,         *)
(* lower_term)                                                             *)
(***************************************************************************)
LEMMA SameString ==
    ASSUME NEW rec \in Record, rec.type \in {ET_FILE, ET_LSM}
    PROVE  /\ Looked(rec) \in Seq(Char)
           /\ SigmaField(EngineEvent(rec), PushField(rec.type)) = {Looked(rec)}
           /\ \A t : RuleMatches(lower_term(rec.type, t), rec.type, rec.comm, rec.path)
                        <=> Anchored(Looked(rec), t.pat, t.kind)
<1>1. rec.path \in Seq(Char) /\ rec.comm \in Seq(Char)
    BY DEF Record
<1>2. CASE rec.type = ET_FILE
    <2>1. EngineEvent(rec).file_path = {rec.path}
        BY <1>2, EventOf DEF FromFile, Event
    <2>2. PushField(rec.type) = "TargetFilename" /\ PushSlot(rec.type) = "path"
        BY <1>2 DEF PushField, PushSlot, ET_FILE, ET_LSM
    <2>q. QED BY <1>1, <1>2, <2>1, <2>2
              DEF Looked, SigmaField, RuleMatches, lower_term, KernelRule
<1>3. CASE rec.type = ET_LSM
    <2>1. EngineEvent(rec).process_name = rec.comm
        BY <1>3, EventOf DEF FromLsm, Event
    <2>2. /\ PushField(rec.type) = "Image" /\ PushSlot(rec.type) = "comm"
          /\ rec.type # ET_FILE
        BY <1>3 DEF PushField, PushSlot, ET_FILE, ET_LSM
    <2>q. QED BY <1>1, <1>3, <2>1, <2>2
              DEF Looked, SigmaField, RuleMatches, lower_term, KernelRule
<1>q. QED BY <1>2, <1>3

\* The terms of a rule that is not blocked are those of its values.
LEMMA OutcomeTerms ==
    ASSUME NEW r \in SigmaRule, NEW type, type = classify_event_type(r),
           ~OutcomeOf(r).blocked
    PROVE  /\ ~extract_pushdown(r, type).blocked
           /\ DOMAIN OutcomeOf(r).terms = DOMAIN SelectionTerms(r, PushField(type))
           /\ SelectionTerms(r, PushField(type)) \in Seq(SUBSET PTerm)
           /\ \A i \in DOMAIN OutcomeOf(r).terms :
                 /\ SelectionTerms(r, PushField(type))[i] # {}
                 /\ OutcomeOf(r).terms[i].term \in SelectionTerms(r, PushField(type))[i]
<1> DEFINE push == extract_pushdown(r, type)
           ts == SelectionTerms(r, PushField(type))
<1>1. /\ OutcomeOf(r).blocked = push.blocked
      /\ ~push.blocked => OutcomeOf(r).terms =
            [i \in DOMAIN push.terms |->
                LET t == CHOOSE x \in push.terms[i] : TRUE
                IN  [term |-> t, fits |-> lower_term_fits(type, t.pat)]]
    BY DEF OutcomeOf
<1>2. push.terms = ts
    BY DEF extract_pushdown
<1>3. ~push.blocked
    BY <1>1
<1>4. \A b \in Selections(r) : {} \notin ToSet(BlockTerms(b, PushField(type)))
    BY <1>3 DEF extract_pushdown, Unpushable
<1>5. {} \notin ToSet(ts)
    BY <1>4, TermsOfRule
<1>6. ts \in Seq(SUBSET PTerm)
    BY TermsOfRule
<1> HIDE DEF push, ts
<1>7. \A i \in DOMAIN ts : ts[i] # {}
    BY <1>5 DEF ToSet
<1>8. OutcomeOf(r).terms =
         [i \in DOMAIN ts |-> LET t == CHOOSE x \in ts[i] : TRUE
                              IN  [term |-> t, fits |-> lower_term_fits(type, t.pat)]]
    BY <1>1, <1>2, <1>3
<1>9. ASSUME NEW i \in DOMAIN ts PROVE OutcomeOf(r).terms[i].term \in ts[i]
    <2> DEFINE t == CHOOSE x \in ts[i] : TRUE
    <2>1. t \in ts[i]
        BY <1>7
    <2>2. OutcomeOf(r).terms[i] = [term |-> t, fits |-> lower_term_fits(type, t.pat)]
        BY <1>8
    <2> HIDE DEF t
    <2>q. QED BY <2>1, <2>2
<1>q. QED BY <1>3, <1>6, <1>7, <1>8, <1>9 DEF push, ts

\* What reading a rule comes to is of the type RuleEngine takes for granted.
LEMMA OutcomeTyped ==
    ASSUME NEW r \in SigmaRule, NEW S, \A t \in ToSet(OutcomeOf(r).terms) : t.term \in S
    PROVE  OutcomeOf(r) \in [load : BOOLEAN, type : 0..5, blocked : BOOLEAN,
                             terms : Seq([term : S, fits : BOOLEAN])]
<1> DEFINE type    == classify_event_type(r)
           blocked == extract_pushdown(r, type).blocked
           terms   == OutcomeOf(r).terms
           ts      == SelectionTerms(r, PushField(type))
           fits(t) == lower_term_fits(type, t.pat)
           first(i) == CHOOSE x \in ts[i] : TRUE
<1>1. OutcomeOf(r) = [load |-> TRUE, type |-> type, blocked |-> blocked, terms |-> terms]
    BY DEF OutcomeOf
<1>2. type \in 0..5
    BY DEF classify_event_type, BaseType, ET_EXECVE, ET_FILE, ET_LSM, ET_MODULE, ET_NETWORK
<1>3. blocked \in BOOLEAN
    BY DEF extract_pushdown
<1>4. terms \in Seq([term : S, fits : BOOLEAN])
    <2>1. CASE blocked
        BY <2>1 DEF OutcomeOf
    <2>2. CASE ~blocked
        <3>1. terms = [i \in DOMAIN ts |-> [term |-> first(i), fits |-> fits(first(i))]]
            BY <2>2 DEF OutcomeOf, extract_pushdown
        <3>2. ts \in Seq(SUBSET PTerm)
            BY TermsOfRule
        <3>3. \A t : fits(t) \in BOOLEAN
            BY DEF lower_term_fits
        <3> HIDE DEF ts, terms, fits, first
        <3>4. Len(ts) \in Nat /\ DOMAIN ts = 1..Len(ts)
            BY <3>2
        <3>5. ASSUME NEW i \in 1..Len(ts) PROVE terms[i] \in [term : S, fits : BOOLEAN]
            <4>1. terms[i] = [term |-> first(i), fits |-> fits(first(i))]
                BY <3>1, <3>4
            <4>2. terms[i] \in ToSet(terms)
                BY <3>1, <3>4 DEF ToSet
            <4>3. terms[i].term \in S
                BY <4>2 DEF terms
            <4>q. QED BY <3>3, <4>1, <4>3
        <3>6. terms = [i \in 1..Len(ts) |-> terms[i]]
            BY <3>1, <3>4
        <3>q. QED BY <3>4, <3>5, <3>6
    <2>q. QED BY <2>1, <2>2
<1> HIDE DEF type, blocked, terms
<1>q. QED BY <1>1, <1>2, <1>3, <1>4

\* What a rule is made of.
LEMMA RuleTypes ==
    ASSUME NEW r \in SigmaRule
    PROVE  /\ Selections(r) \subseteq Block
           /\ \A b \in Block : ToSet(b.fields) \subseteq Item
           /\ \A e \in Item : e.mods \in Seq(STRING) /\ ToSet(e.values) \subseteq Value
           /\ \A b \in Selections(r) : \E i \in DOMAIN r.blocks : b = r.blocks[i]
<1>1. r.blocks \in Seq(Block)
    BY DEF SigmaRule
<1>2. \A S : \A q \in Seq(S) : ToSet(q) \subseteq S
    BY DEF ToSet
<1>3. \A b \in Block : b.fields \in Seq(Item)
    BY DEF Block
<1>4. \A e \in Item : e.mods \in Seq(STRING) /\ e.values \in Seq(Value)
    BY DEF Item
<1>5. \A b \in Selections(r) : \E i \in DOMAIN r.blocks : b = r.blocks[i]
    BY DEF Selections, ToSet
<1>6. Selections(r) \subseteq Block
    BY <1>1, <1>2 DEF Selections
<1>7. \A b \in Block : ToSet(b.fields) \subseteq Item
    BY <1>2, <1>3
<1>8. \A e \in Item : ToSet(e.values) \subseteq Value
    BY <1>2, <1>4
<1>q. QED BY <1>4, <1>5, <1>6, <1>7, <1>8

(***************************************************************************)
(* An event a rule fires on is wanted by a kernel rule made of it, unless  *)
(* the rule could not be lowered: a selection block holds of the event, a  *)
(* value of its pushed field matches, and the term of the value is there.  *)
(***************************************************************************)
LEMMA RuleSound ==
    ASSUME NEW r \in SigmaRule, TakenForGranted(r), NEW rec \in Record,
           rec.type = classify_event_type(r), rec.type \in {ET_FILE, ET_LSM},
           ~OutcomeOf(r).blocked, SigmaFires(r, rec)
    PROVE  \E n \in DOMAIN OutcomeOf(r).terms :
              RuleMatches(lower_term(rec.type, OutcomeOf(r).terms[n].term),
                          rec.type, rec.comm, rec.path)
<1> DEFINE field == PushField(rec.type)
           ev    == EngineEvent(rec)
           ts    == SelectionTerms(r, field)
           s     == Looked(rec)
<1>1. /\ s \in Seq(Char) /\ SigmaField(ev, field) = {s}
      /\ \A t : RuleMatches(lower_term(rec.type, t), rec.type, rec.comm, rec.path)
                   <=> Anchored(s, t.pat, t.kind)
    BY SameString
<1>2. /\ ~extract_pushdown(r, rec.type).blocked
      /\ DOMAIN OutcomeOf(r).terms = DOMAIN ts
      /\ \A n \in DOMAIN OutcomeOf(r).terms : OutcomeOf(r).terms[n].term \in ts[n]
    BY OutcomeTerms
<1>3. PICK b \in Selections(r) : BlockHolds(ev, b)
    <2> DEFINE holds == {i \in DOMAIN r.blocks : BlockHolds(ev, r.blocks[i])}
    <2>1. holds \in r.accepts
        BY DEF SigmaFires
    <2>2. PICK i \in holds \cap DOMAIN r.blocks : r.blocks[i].selection
        BY <2>1 DEF TakenForGranted
    <2>q. QED BY <2>2 DEF Selections, ToSet
<1>4. b \in Block /\ b.mapping /\ BlockTerms(b, field) # <<>>
    BY <1>2, <1>3, RuleTypes DEF extract_pushdown, Unpushable
<1>5. PICK e \in FieldsNamed(b, field) : ToSet(collect_scalars(e)) # {}
    <2>1. BlockTerms(b, field) \in Seq(SUBSET PTerm)
        BY <1>4, TermsOfBlock
    <2>2. PICK T : T \in ToSet(BlockTerms(b, field))
        <3>1. 1 \in DOMAIN BlockTerms(b, field)
            BY <1>4, <2>1
        <3>q. QED BY <3>1 DEF ToSet
    <2>3. PICK e \in FieldsNamed(b, field) : T \in ToSet(FieldTerms(e))
        BY <1>4, <2>2, TermsOfBlock
    <2>4. e \in Item
        BY <1>4, RuleTypes DEF FieldsNamed
    <2>q. QED BY <2>3, <2>4, TermsOfField
<1>6. PICK w : w \in ToSet(collect_scalars(e))
    BY <1>5
<1>7. /\ e \in Item /\ e \in ToSet(b.fields) /\ e.name = field
      /\ w \in ToSet(e.values) /\ w.string
    BY <1>4, <1>5, <1>6, RuleTypes, Scalars DEF FieldsNamed
<1>8. PICK v \in ToSet(e.values) : ValueMatches(s, v, ToSet(e.mods))
    <2>1. FieldHolds(ev, e)
        BY <1>3, <1>4, <1>7 DEF BlockHolds
    <2>q. QED BY <1>1, <1>7, <2>1 DEF FieldHolds
<1>9. v \in Value /\ v \in ToSet(collect_scalars(e)) /\ ~(Anchors \subseteq ToSet(e.mods))
    <2>1. b \in ToSet(r.blocks)
        BY <1>3 DEF Selections
    <2>2. v.string = w.string /\ ~(Anchors \subseteq ToSet(e.mods))
        BY <1>7, <2>1 DEF TakenForGranted
    <2>q. QED BY <1>7, <2>2, RuleTypes, Scalars
<1> DEFINE T == anchor(v.text, modifier_kind(e.mods))
<1>10. PICK n \in DOMAIN ts : ts[n] = T
    <2>1. T \in ToSet(FieldTerms(e))
        BY <1>7, <1>9, TermsOfField
    <2>2. T \in ToSet(BlockTerms(b, field))
        BY <1>4, <1>5, <2>1, TermsOfBlock
    <2>3. T \in ToSet(ts)
        BY <1>3, <2>2, TermsOfRule
    <2>q. QED BY <2>3 DEF ToSet
<1>11. OutcomeOf(r).terms[n].term \in T
    BY <1>2, <1>10
<1>12. ASSUME NEW t \in T PROVE Anchored(s, t.pat, t.kind)
    <2>1. e.mods \in Seq(STRING)
        BY <1>7, RuleTypes
    <2>q. QED BY <1>1, <1>8, <1>9, <1>12, <2>1, TermMeansValue
<1>q. QED BY <1>1, <1>2, <1>10, <1>11, <1>12

(***************************************************************************)
(* When a rule is nothing but alternatives, an event that one of its       *)
(* kernel rules wants makes the rule fire.                                 *)
(***************************************************************************)
LEMMA RuleExact ==
    ASSUME NEW r \in SigmaRule, OnlyAlternatives(r), NEW rec \in Record,
           rec.type = classify_event_type(r), rec.type \in {ET_FILE, ET_LSM},
           ~OutcomeOf(r).blocked, NEW n \in DOMAIN OutcomeOf(r).terms,
           RuleMatches(lower_term(rec.type, OutcomeOf(r).terms[n].term),
                       rec.type, rec.comm, rec.path)
    PROVE  SigmaFires(r, rec)
<1> DEFINE field == PushField(rec.type)
           ev    == EngineEvent(rec)
           ts    == SelectionTerms(r, field)
           s     == Looked(rec)
           t     == OutcomeOf(r).terms[n].term
<1>1. s \in Seq(Char) /\ SigmaField(ev, field) = {s} /\ Anchored(s, t.pat, t.kind)
    BY SameString
<1>2. n \in DOMAIN ts /\ t \in ts[n]
    BY OutcomeTerms
<1> HIDE DEF t
<1>3. PICK b \in Selections(r) : ts[n] \in ToSet(BlockTerms(b, field))
    <2>1. ts[n] \in ToSet(ts)
        BY <1>2 DEF ToSet
    <2>q. QED BY <2>1, TermsOfRule
<1>4. b \in Block
    BY <1>3, RuleTypes
<1>5. PICK e \in FieldsNamed(b, field) : ts[n] \in ToSet(FieldTerms(e))
    BY <1>3, <1>4, TermsOfBlock
<1>6. e \in Item /\ e \in ToSet(b.fields) /\ e.name = field
    BY <1>4, <1>5, RuleTypes DEF FieldsNamed
<1>7. PICK v \in ToSet(collect_scalars(e)) : ts[n] = anchor(v.text, modifier_kind(e.mods))
    BY <1>5, <1>6, TermsOfField
<1>8. v \in ToSet(e.values) /\ v \in Value /\ e.mods \in Seq(STRING)
    BY <1>6, <1>7, Scalars, RuleTypes
<1>9. ValueMatches(s, v, ToSet(e.mods))
    BY <1>1, <1>2, <1>7, <1>8, TermMeansValue
<1>10. b.mapping /\ Len(b.fields) = 1 /\ "all" \notin ToSet(e.mods)
    <2>1. b \in ToSet(r.blocks)
        BY <1>3 DEF Selections
    <2>q. QED BY <1>6, <2>1 DEF OnlyAlternatives
<1>11. FieldHolds(ev, e)
    BY <1>1, <1>6, <1>8, <1>9, <1>10 DEF FieldHolds
<1>12. BlockHolds(ev, b)
    <2>1. b.fields \in Seq(Item)
        BY <1>4 DEF Block
    <2>2. DOMAIN b.fields = {1}
        BY <1>10, <2>1
    <2>3. ToSet(b.fields) = {e}
        BY <1>6, <2>2 DEF ToSet
    <2>q. QED BY <1>11, <2>3 DEF BlockHolds
<1>13. {i \in DOMAIN r.blocks : BlockHolds(ev, r.blocks[i])} \in r.accepts
    <2> DEFINE holds == {i \in DOMAIN r.blocks : BlockHolds(ev, r.blocks[i])}
    <2>1. PICK i \in DOMAIN r.blocks : b = r.blocks[i]
        BY <1>3, RuleTypes
    <2>2. i \in holds /\ holds \subseteq DOMAIN r.blocks
        BY <1>12, <2>1
    <2> HIDE DEF holds
    <2>3. holds \in r.accepts
        BY <2>2 DEF OnlyAlternatives
    <2>q. QED BY <2>3 DEF holds
<1>14. EventCategory(ev) = r.category
    <2>1. BaseType(r.category) = rec.type
        <3>1. rec.type # ET_MODULE
            BY DEF ET_FILE, ET_LSM, ET_MODULE
        <3>q. QED BY <3>1 DEF classify_event_type
    <2>2. CASE rec.type = ET_FILE
        <3>1. r.category = "syscall"
            BY <2>1, <2>2 DEF BaseType, ET_EXECVE, ET_FILE, ET_LSM, ET_NETWORK
        <3>2. ev.event_type = "SYSCALL"
            BY <2>2, EventOf DEF FromFile, Event
        <3>q. QED BY <3>1, <3>2 DEF EventCategory
    <2>3. CASE rec.type = ET_LSM
        <3>1. r.category = "lsm"
            BY <2>1, <2>3 DEF BaseType, ET_EXECVE, ET_FILE, ET_LSM, ET_NETWORK
        <3>2. ev.event_type = "LSM"
            BY <2>3, EventOf DEF FromLsm, Event
        <3>q. QED BY <3>1, <3>2 DEF EventCategory
    <2>q. QED BY <2>2, <2>3
<1>q. QED BY <1>13, <1>14 DEF SigmaFires
=============================================================================
