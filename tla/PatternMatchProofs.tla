------------------------- MODULE PatternMatchProofs -------------------------
(***************************************************************************)
(* For every alphabet, every set of buffer sizes, every pattern width and  *)
(* every scan bound: the byte-level matcher decides the string-level one.  *)
(***************************************************************************)
EXTENDS PatternMatch, SequenceTheorems, TLAPS

(***************************************************************************)
(* What a zeroed buffer of n bytes captures of a string: its first n - 1   *)
(* characters (the bounded read of try_file_open and try_execve_enter).    *)
(***************************************************************************)
LEMMA CapturedProperties ==
    ASSUME NEW s \in Seq(Byte), NEW n \in Nat \ {0}
    PROVE  /\ Captured(s, n) \in Seq(Byte)
           /\ Len(Captured(s, n)) = Least(Len(s), n - 1)
           /\ Len(Captured(s, n)) \in Nat /\ Len(Captured(s, n)) < n
           /\ \A i \in 1..Len(Captured(s, n)) : Captured(s, n)[i] = s[i]
<1> DEFINE k == Least(Len(s), n - 1)
<1>1. k \in Nat /\ k <= Len(s) /\ k < n
  BY DEF Least
<1>2. k \in 0..Len(s)
  BY <1>1
<1> HIDE DEF k
<1>3. /\ SubSeq(s, 1, k) \in Seq(Byte)
      /\ Len(SubSeq(s, 1, k)) = k
      /\ \A i \in 1..k : SubSeq(s, 1, k)[i] = s[i]
  BY <1>1, <1>2, SubSeqProperties
<1> QED
  BY <1>1, <1>3 DEF Captured, k

\* The strings Init enumerates are sequences of bytes.
LEMMA StringsAreSequences ==
    ASSUME NEW n \in Nat, NEW s \in Strings(n)
    PROVE  s \in Seq(Byte) /\ Len(s) <= n
<1>1. PICK k \in 0..n : s \in [1..k -> Byte]
  BY DEF Strings
<1> QED
  BY <1>1

(***************************************************************************)
(* The first NUL the scan meets in a captured buffer is the terminator of  *)
(* the string read last, whatever an earlier read left behind it.          *)
(***************************************************************************)
LEMMA NulsOfCaptured ==
    ASSUME NEW s \in Seq(Byte), NEW b, N \in BufSizes
    PROVE  /\ \A i \in NulsWithin(ReadStr(s, b)) : i \in 0..Scan-1 /\ Len(Captured(s, N)) <= i
           /\ Len(Captured(s, N)) < Scan => Len(Captured(s, N)) \in NulsWithin(ReadStr(s, b))
<1>1. N \in Nat \ {0} /\ Scan \in Nat \ {0} /\ Scan <= N /\ NUL \notin Byte
  BY BufferAssumption DEF BufferAssumption, Scan, Least
<1>2. Len(Captured(s, N)) = Least(Len(s), N - 1)
  BY <1>1, CapturedProperties
<1>3. Least(Len(s), N - 1) \in Nat /\ Least(Len(s), N - 1) <= Len(s)
  BY <1>1 DEF Least
<1>4. ASSUME NEW i \in 0..Scan-1
      PROVE  /\ i < Least(Len(s), N - 1) => ReadStr(s, b)[i] # NUL
             /\ i = Least(Len(s), N - 1) => ReadStr(s, b)[i] = NUL
  <2>1. i \in 0..N-1
    BY <1>1
  <2>2. /\ i < Least(Len(s), N - 1) => ReadStr(s, b)[i] = s[i + 1]
        /\ i = Least(Len(s), N - 1) => ReadStr(s, b)[i] = NUL
    BY <2>1, <1>3 DEF ReadStr
  <2>3. i < Least(Len(s), N - 1) => i + 1 \in 1..Len(s)
    BY <2>1, <1>1, <1>3
  <2> QED
    BY <1>1, <2>2, <2>3
<1>5. NulsWithin(ReadStr(s, b)) = {i \in 0..Scan-1 : ReadStr(s, b)[i] = NUL}
  BY DEF NulsWithin
<1> HIDE DEF NulsWithin
<1>6. ASSUME NEW i \in NulsWithin(ReadStr(s, b))
      PROVE  i \in 0..Scan-1 /\ Least(Len(s), N - 1) <= i
  BY <1>1, <1>3, <1>4, <1>5
<1>7. Least(Len(s), N - 1) < Scan => Least(Len(s), N - 1) \in NulsWithin(ReadStr(s, b))
  BY <1>1, <1>3, <1>4, <1>5
<1> QED
  BY <1>2, <1>6, <1>7

(***************************************************************************)
(* The scan measures the captured string exactly, and fails to terminate   *)
(* exactly when the captured string is at least MAX_PATH_SCAN long.        *)
(***************************************************************************)
LEMMA ScanMeasures ==
    ASSUME NEW s \in Seq(Byte), NEW b, N \in BufSizes
    PROVE  /\ NulsWithin(ReadStr(s, b)) = {} <=> Len(Captured(s, N)) >= MAX_PATH_SCAN
           /\ NulsWithin(ReadStr(s, b)) # {} =>
                 /\ MeasuredLen(ReadStr(s, b)) = Len(Captured(s, N))
                 /\ Len(Captured(s, N)) < N
           /\ MeasuredLen(ReadStr(s, b)) \in 0..N
<1> DEFINE L == Len(Captured(s, N))
           Nuls == NulsWithin(ReadStr(s, b))
<1>1. N \in Nat \ {0} /\ MAX_PATH_SCAN \in Nat \ {0}
  BY BufferAssumption DEF BufferAssumption
<1>2. Scan = (IF N <= MAX_PATH_SCAN THEN N ELSE MAX_PATH_SCAN) /\ Scan \in Nat \ {0} /\ Scan <= N
  BY <1>1 DEF Scan, Least
<1>3. L \in Nat /\ L < N
  BY <1>1, CapturedProperties
<1>4. (\A i \in Nuls : i \in 0..Scan-1 /\ L <= i) /\ (L < Scan => L \in Nuls)
  BY NulsOfCaptured
<1>5. MeasuredLen(ReadStr(s, b)) = IF Nuls = {} THEN Scan
                                ELSE CHOOSE i \in Nuls : \A j \in Nuls : i <= j
  BY DEF MeasuredLen
<1> HIDE DEF L, Nuls
<1>6. Nuls = {} <=> L >= Scan
  <2>1. L < Scan => L \in Nuls
    BY <1>2, <1>3, <1>4
  <2>2. L >= Scan => Nuls = {}
    BY <1>2, <1>3, <1>4
  <2> QED
    BY <2>1, <2>2, <1>2, <1>3
<1>7. L >= Scan <=> L >= MAX_PATH_SCAN
  BY <1>1, <1>2, <1>3
<1>8. ASSUME Nuls # {}
      PROVE  MeasuredLen(ReadStr(s, b)) = L
  <2>1. L \in Nuls
    BY <1>2, <1>3, <1>4, <1>6, <1>8
  <2>2. \A j \in Nuls : L <= j /\ j \in Nat
    BY <1>2, <1>4
  <2>3. \A i \in Nuls : (\A j \in Nuls : i <= j) => i = L
    BY <2>1, <2>2, <1>3
  <2>4. (CHOOSE i \in Nuls : \A j \in Nuls : i <= j) = L
    BY <2>1, <2>2, <2>3
  <2> QED
    BY <2>4, <1>5, <1>8
<1>9. MeasuredLen(ReadStr(s, b)) \in 0..N
  <2>1. CASE Nuls = {}
    BY <2>1, <1>1, <1>2, <1>5
  <2>2. CASE Nuls # {}
    BY <2>2, <1>1, <1>3, <1>8
  <2> QED
    BY <2>1, <2>2
<1> QED
  BY <1>3, <1>6, <1>7, <1>8, <1>9 DEF L, Nuls

(***************************************************************************)
(* The mask of suffix_matches leaves an index of the buffer alone.         *)
(***************************************************************************)
LEMMA MaskIsIdentity ==
    ASSUME NEW n \in Nat \ {0}, NEW x \in 0..n-1
    PROVE  x % n = x
  OBVIOUS

(***************************************************************************)
(* The compares of openxdr-common on a captured buffer of which the scan   *)
(* measured the length are the anchored match: inside the pattern no index *)
(* reaches the mask, and outside it nothing is compared.                   *)
(***************************************************************************)
LEMMA CompareIsAnchored ==
    ASSUME NEW s \in Seq(Byte), NEW b, NEW p \in Seq(Byte), Len(p) <= M,
           N \in BufSizes, NEW k
    PROVE  pattern_matches(ReadStr(s, b), Len(Captured(s, N)), PatBuf(p), Len(p), k)
              <=> Anchored(Captured(s, N), p, k)
<1> DEFINE c == Captured(s, N)
           L == Len(c)
           hay == ReadStr(s, b)
           pat == PatBuf(p)
<1>1. N \in Nat \ {0} /\ M \in Nat \ {0}
  BY BufferAssumption DEF BufferAssumption
<1>2. /\ c \in Seq(Byte) /\ L \in Nat /\ L < N /\ L = Least(Len(s), N - 1)
      /\ \A i \in 1..L : c[i] = s[i]
  BY <1>1, CapturedProperties
<1>3. \A i \in 0..L-1 : hay[i] = c[i + 1]
  BY <1>1, <1>2 DEF ReadStr
<1>4. \A j \in 0..Len(p)-1 : pat[j] = p[j + 1]
  BY <1>1 DEF PatBuf
<1>5. Len(p) \in Nat
  OBVIOUS
<1>6. p = <<>> <=> Len(p) = 0
  OBVIOUS
<1> HIDE DEF c, L, hay, pat
<1>7. ASSUME Len(p) <= L
      PROVE  prefix_matches(hay, pat, Len(p)) <=> StartsWith(c, p)
  <2>1. prefix_matches(hay, pat, Len(p)) <=> \A j \in 0..Len(p)-1 : hay[j] = pat[j]
    BY <1>1, <1>2, <1>5, <1>7 DEF prefix_matches
  <2>2. (\A j \in 0..Len(p)-1 : hay[j] = pat[j])
           <=> \A j \in 0..Len(p)-1 : c[j + 1] = p[j + 1]
    <3>1. \A j \in 0..Len(p)-1 : j \in 0..L-1
      BY <1>2, <1>5, <1>7
    <3> QED
      BY <3>1, <1>3, <1>4
  <2>3. (\A j \in 0..Len(p)-1 : c[j + 1] = p[j + 1]) <=> \A i \in 1..Len(p) : c[i] = p[i]
    <3>1. ASSUME \A j \in 0..Len(p)-1 : c[j + 1] = p[j + 1], NEW i \in 1..Len(p)
          PROVE  c[i] = p[i]
      <4>1. i - 1 \in 0..Len(p)-1 /\ (i - 1) + 1 = i
        BY <1>5
      <4> QED
        BY <3>1, <4>1
    <3>2. ASSUME \A i \in 1..Len(p) : c[i] = p[i], NEW j \in 0..Len(p)-1
          PROVE  c[j + 1] = p[j + 1]
      BY <1>5, <3>2
    <3> QED
      BY <3>1, <3>2
  <2> QED
    BY <2>1, <2>2, <2>3, <1>7 DEF StartsWith, L
<1>8. ASSUME Len(p) <= L
      PROVE  suffix_matches(hay, L, pat, Len(p)) <=> EndsWith(c, p)
  <2> DEFINE start == L - Len(p)
  <2>0. start \in Nat
    BY <1>2, <1>5, <1>8
  <2>1. \A j \in 0..Len(p)-1 : (start + j) % N = start + j
    <3>1. ASSUME NEW j \in 0..Len(p)-1
          PROVE  start + j \in 0..N-1
      BY <1>1, <1>2, <1>5, <1>8
    <3> HIDE DEF start
    <3> QED
      BY <3>1, <1>1, MaskIsIdentity
  <2>2. suffix_matches(hay, L, pat, Len(p))
           <=> \A j \in 0..Len(p)-1 : hay[start + j] = pat[j]
    <3>1. suffix_matches(hay, L, pat, Len(p))
             <=> \A j \in 0..Len(p)-1 : hay[(start + j) % N] = pat[j]
      BY <1>1, <1>5 DEF suffix_matches
    <3> QED
      BY <3>1, <2>1
  <2>3. \A j \in 0..Len(p)-1 : hay[start + j] = c[start + j + 1]
    <3>1. ASSUME NEW j \in 0..Len(p)-1
          PROVE  start + j \in 0..L-1
      BY <1>2, <1>5, <1>8
    <3> HIDE DEF start
    <3> QED
      BY <3>1, <1>3
  <2>4. (\A j \in 0..Len(p)-1 : c[start + j + 1] = p[j + 1])
           <=> \A i \in 1..Len(p) : c[start + i] = p[i]
    <3>1. ASSUME \A j \in 0..Len(p)-1 : c[start + j + 1] = p[j + 1], NEW i \in 1..Len(p)
          PROVE  c[start + i] = p[i]
      <4>1. i - 1 \in 0..Len(p)-1 /\ (i - 1) + 1 = i /\ start + (i - 1) + 1 = start + i
        BY <1>5, <2>0
      <4> QED
        BY <3>1, <4>1
    <3>2. ASSUME \A i \in 1..Len(p) : c[start + i] = p[i], NEW j \in 0..Len(p)-1
          PROVE  c[start + j + 1] = p[j + 1]
      <4>1. j + 1 \in 1..Len(p) /\ start + (j + 1) = start + j + 1
        BY <1>5, <2>0
      <4> QED
        BY <3>2, <4>1
    <3> QED
      BY <3>1, <3>2
  <2>5. (\A j \in 0..Len(p)-1 : hay[start + j] = pat[j])
           <=> \A j \in 0..Len(p)-1 : c[start + j + 1] = p[j + 1]
    BY <1>4, <2>3
  <2>6. EndsWith(c, p) <=> \A i \in 1..Len(p) : c[start + i] = p[i]
    BY <1>8 DEF EndsWith, L
  <2> QED
    BY <2>2, <2>4, <2>5, <2>6
<1>9. StartsWith(c, p) => Len(p) <= L
  BY DEF StartsWith, L
<1>10. EndsWith(c, p) => Len(p) <= L
  BY DEF EndsWith, L
<1>11. Len(p) = L => (c = p <=> StartsWith(c, p))
  BY <1>2, <1>5 DEF StartsWith, L
<1>12. c = p => Len(p) = L
  BY DEF L
<1>13. CASE k = MATCH_EXACT
  BY <1>2, <1>5, <1>6, <1>7, <1>11, <1>12, <1>13
     DEF pattern_matches, Anchored, MATCH_EXACT, MATCH_SUFFIX, c, L, hay, pat
<1>14. CASE k = MATCH_SUFFIX
  BY <1>2, <1>5, <1>6, <1>8, <1>10, <1>14
     DEF pattern_matches, Anchored, MATCH_EXACT, MATCH_SUFFIX, c, L, hay, pat
<1>15. CASE k \notin {MATCH_EXACT, MATCH_SUFFIX}
  BY <1>2, <1>5, <1>6, <1>7, <1>9, <1>15
     DEF pattern_matches, Anchored, MATCH_EXACT, MATCH_SUFFIX, c, L, hay, pat
<1> QED
  BY <1>13, <1>14, <1>15

-----------------------------------------------------------------------------
\* What the stages leave behind, which the compare relies on.
Measured ==
    /\ phase = "captured" => \E b : buf = ReadStr(path, b)
    /\ phase = "measured" => /\ \E b : buf = ReadStr(path, b)
                             /\ path_len = Len(Captured(path, N))
                             /\ Len(Captured(path, N)) < MAX_PATH_SCAN

IInv == TypeOK /\ Measured /\ VerdictIsAnchored

\* An event enters with an empty buffer and no verdict.
LEMMA InitIInv == Init => IInv
<1> SUFFICES ASSUME Init PROVE IInv
  OBVIOUS
<1> USE BufferAssumption
<1>1. TypeOK
  <2>1. path \in Seq(Byte) /\ pattern \in Seq(Byte) /\ Len(pattern) <= M
    BY StringsAreSequences DEF Init, BufferAssumption
  <2>2. 0 \in 0..N
    BY DEF Init, BufferAssumption
  <2> QED
    BY <2>1, <2>2 DEF Init, TypeOK, Cell
<1> QED
  BY <1>1 DEF Init, IInv, Measured, VerdictIsAnchored

\* A read leaves a buffer of cells.
LEMMA ReadKeepsType ==
    ASSUME N \in Nat \ {0}, NEW s \in Seq(Byte), NEW b \in [0..N-1 -> Cell]
    PROVE  ReadStr(s, b) \in [0..N-1 -> Cell]
<1>1. ASSUME NEW i \in 0..N-1, i < Least(Len(s), N - 1)
      PROVE  s[i + 1] \in Byte
  <2>1. i + 1 \in 1..Len(s)
    BY <1>1 DEF Least
  <2> QED
    BY <2>1
<1> QED
  BY <1>1 DEF ReadStr, Cell

\* Each stage keeps the invariant: one step per stage.
LEMMA NextIInv == IInv /\ [Next]_vars => IInv'
<1> SUFFICES ASSUME IInv, [Next]_vars PROVE IInv'
  OBVIOUS
<1>0. N \in Nat \ {0} /\ N \in BufSizes /\ MAX_PATH_SCAN \in Nat \ {0}
  BY BufferAssumption DEF IInv, TypeOK, BufferAssumption
<1>1. CASE Capture
  <2>1. ReadStr(path, buf) \in [0..N-1 -> Cell]
    BY <1>0, ReadKeepsType DEF IInv, TypeOK
  <2>2. TypeOK'
    BY <1>1, <2>1 DEF IInv, TypeOK, Capture
  <2>3. \E b : (buf = ReadStr(path, b))'
    BY <1>1 DEF Capture, ReadStr
  <2> QED
    BY <1>1, <2>2, <2>3 DEF IInv, Capture, Measured, VerdictIsAnchored
<1>5. CASE CaptureArgv0
  <2>1. PICK arg \in Strings(MaxLen) : buf' = ReadStr(arg, buf)
    BY <1>5 DEF CaptureArgv0
  <2>2. arg \in Seq(Byte)
    BY StringsAreSequences, BufferAssumption DEF BufferAssumption
  <2>3. buf' \in [0..N-1 -> Cell]
    BY <1>0, <2>1, <2>2, ReadKeepsType DEF IInv, TypeOK
  <2>4. TypeOK'
    BY <1>5, <2>3 DEF IInv, TypeOK, CaptureArgv0
  <2> QED
    BY <1>5, <2>4 DEF IInv, CaptureArgv0, Measured, VerdictIsAnchored
<1>2. CASE Measure
  <2>a. PICK b : buf = ReadStr(path, b)
    BY <1>2 DEF IInv, Measured, Measure
  <2>0. path \in Seq(Byte) /\ buf = ReadStr(path, b)
    BY <2>a DEF IInv, TypeOK
  <2> DEFINE L == Len(Captured(path, N))
  <2>1. /\ NulsWithin(buf) = {} <=> L >= MAX_PATH_SCAN
        /\ NulsWithin(buf) # {} => MeasuredLen(buf) = L
        /\ MeasuredLen(buf) \in 0..N
    BY <1>0, <2>0, ScanMeasures
  <2>2. L \in Nat
    BY <1>0, <2>0, CapturedProperties
  <2>3. TypeOK'
    BY <1>2, <2>1 DEF IInv, TypeOK, Measure
  <2>4. UNCHANGED <<N, path, pattern, kind, buf>>
    BY <1>2 DEF Measure
  <2>5. L' = L /\ \E c : (buf = ReadStr(path, c))'
    BY <2>0, <2>4 DEF Captured, ReadStr
  <2> HIDE DEF L
  <2>6. CASE NulsWithin(buf) = {}
    <3>1. phase' = "decided" /\ verdict' = TRUE /\ L' >= MAX_PATH_SCAN
      BY <1>2, <2>1, <2>5, <2>6 DEF Measure
    <3>2. Measured'
      BY <3>1 DEF Measured
    <3>3. VerdictIsAnchored'
      BY <3>1 DEF VerdictIsAnchored, L
    <3> QED
      BY <2>3, <3>2, <3>3 DEF IInv
  <2>7. CASE NulsWithin(buf) # {}
    <3>1. phase' = "measured" /\ path_len' = L' /\ L' < MAX_PATH_SCAN
      BY <1>0, <1>2, <2>1, <2>2, <2>5, <2>7 DEF Measure
    <3>3. Measured'
      BY <2>5, <3>1 DEF Measured, L
    <3>4. VerdictIsAnchored'
      BY <3>1 DEF VerdictIsAnchored
    <3> QED
      BY <2>3, <3>3, <3>4 DEF IInv
  <2> QED
    BY <2>6, <2>7
<1>3. CASE Compare
  <2>a. PICK b : buf = ReadStr(path, b)
    BY <1>3 DEF IInv, Measured, Compare
  <2>0. /\ path \in Seq(Byte) /\ pattern \in Seq(Byte) /\ Len(pattern) <= M
        /\ buf = ReadStr(path, b) /\ path_len = Len(Captured(path, N))
        /\ Len(Captured(path, N)) < MAX_PATH_SCAN
    BY <1>3, <2>a DEF IInv, TypeOK, Measured, Compare
  <2>1. pattern_matches(buf, path_len, PatBuf(pattern), Len(pattern), kind)
           <=> Anchored(Captured(path, N), pattern, kind)
    BY <1>0, <2>0, CompareIsAnchored
  <2>2. Len(Captured(path, N)) \in Nat
    BY <1>0, <2>0, CapturedProperties
  <2>3. /\ phase' = "decided" /\ UNCHANGED <<N, path, pattern, kind, buf, path_len>>
        /\ verdict' = pattern_matches(buf, path_len, PatBuf(pattern), Len(pattern), kind)
    BY <1>3 DEF Compare
  <2>4. verdict' \in BOOLEAN
    BY <2>3 DEF pattern_matches, prefix_matches, suffix_matches
  <2>5. TypeOK'
    BY <2>3, <2>4 DEF IInv, TypeOK
  <2>6. Measured'
    BY <2>3 DEF Measured
  <2>7. VerdictIsAnchored'
    <3>1. ~(Len(Captured(path, N)) >= MAX_PATH_SCAN)
      BY <1>0, <2>0, <2>2
    <3>2. verdict' = \/ Len(Captured(path, N)) >= MAX_PATH_SCAN
                     \/ Anchored(Captured(path, N), pattern, kind)
      BY <2>1, <2>3, <2>4, <3>1
    <3> QED
      BY <2>3, <3>2 DEF VerdictIsAnchored, Captured, Anchored, EndsWith, StartsWith
  <2> QED
    BY <2>5, <2>6, <2>7 DEF IInv
<1>4. CASE UNCHANGED vars
  BY <1>4 DEF vars, IInv, TypeOK, Measured, VerdictIsAnchored, ReadStr, Captured,
              Anchored, EndsWith, StartsWith
<1> QED
  BY <1>1, <1>2, <1>3, <1>4, <1>5 DEF Next

(***************************************************************************)
(* The byte-level matcher of openxdr-common, behind the capture and scan   *)
(* of openxdr-ebpf, decides the string-level meaning of a rule, for every  *)
(* buffer size, pattern width and scan bound, and never measures beyond    *)
(* its buffer.                                                             *)
(***************************************************************************)
THEOREM MatcherCorrect == Spec => [](TypeOK /\ VerdictIsAnchored)
<1>1. IInv => TypeOK /\ VerdictIsAnchored
  BY DEF IInv
<1> QED
  BY <1>1, InitIInv, NextIInv, PTL DEF Spec
=============================================================================
