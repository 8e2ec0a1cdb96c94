--------------------------- MODULE FastPathProofs ---------------------------
(***************************************************************************)
(* From start to steady state no wanted event is lost on a watched CPU,    *)
(* for any directory of rules, any budget, any number of CPUs and any      *)
(* order in which the upload is torn.                                      *)
(***************************************************************************)
EXTENDS FastPath, SigmaLoweringProofs, FiniteSetTheorems, TLAPS

\* The engine of FastPath again, with what is proved of it.
REP == INSTANCE RuleEngineProofs WITH
           Outcome <- {OutcomeOf(r) : r \in Rules},
           Term    <- Terms

-----------------------------------------------------------------------------
\* The two instances of RuleEngine are one.

LEMMA SameSets ==
    /\ \A S : /\ RE!Cardinality(S) = Cardinality(S)
              /\ REP!Cardinality(S) = Cardinality(S)
              /\ RE!IsFiniteSet(S) = IsFiniteSet(S)
              /\ REP!IsFiniteSet(S) = IsFiniteSet(S)
    /\ \A f, S : RE!Restrict(f, S) = REP!Restrict(f, S)
BY DEF RE!Cardinality, REP!Cardinality, Cardinality, RE!IsFiniteSet, REP!IsFiniteSet,
       IsFiniteSet, RE!Restrict, REP!Restrict

LEMMA SameTypes ==
    /\ RE!AlwaysPermissive = AlwaysPermissive /\ REP!AlwaysPermissive = AlwaysPermissive
    /\ RE!PushableTypes = PushableTypes /\ REP!PushableTypes = PushableTypes
    /\ RE!EventTypes = EventTypes /\ REP!EventTypes = EventTypes
BY DEF RE!AlwaysPermissive, REP!AlwaysPermissive, AlwaysPermissive,
       RE!PushableTypes, REP!PushableTypes, PushableTypes,
       RE!EventTypes, REP!EventTypes, EventTypes,
       RE!ET_EXECVE, RE!ET_FILE, RE!ET_LSM, RE!ET_MODULE, RE!ET_NETWORK,
       REP!ET_EXECVE, REP!ET_FILE, REP!ET_LSM, REP!ET_MODULE, REP!ET_NETWORK,
       ET_EXECVE, ET_FILE, ET_LSM, ET_MODULE, ET_NETWORK

\* What the rules of the directory come to is of the type RuleEngine takes for granted.
LEMMA SameAssumption == REP!EngineAssumption /\ MAX_KERNEL_RULES \in Nat
<1>1. ASSUME NEW r \in Rules PROVE OutcomeOf(r) \in REP!OutcomeType
    <2>1. \A t \in ToSet(OutcomeOf(r).terms) : t.term \in Terms
        BY DEF Terms
    <2>2. r \in SigmaRule
        BY FastPathAssumption DEF FastPathAssumption
    <2>q. QED BY <2>1, <2>2, OutcomeTyped DEF REP!OutcomeType
<1>2. IsFiniteSet(Files) /\ MAX_KERNEL_RULES \in Nat
    BY FastPathAssumption DEF FastPathAssumption
<1>q. QED BY <1>1, <1>2, SameSets DEF REP!EngineAssumption

\* What a probe records of a call is a record the readers may be given.
LEMMA RecordedTyped ==
    ASSUME NEW call \in Calls
    PROVE  Recorded(call) \in Record
<1>1. call \in CallType /\ FILE_BUF \in Nat /\ EXEC_BUF \in Nat
    BY FastPathAssumption DEF FastPathAssumption
<1>2. ASSUME NEW s \in Seq(Char), NEW n \in Nat PROVE Captured(s, n) \in Seq(Char)
    <2>1. Least(Len(s), n - 1) \in Int /\ Least(Len(s), n - 1) <= Len(s)
        BY DEF Least
    <2>q. QED BY <2>1 DEF Captured
<1>3. /\ call.type \in EventTypes
      /\ call.comm \in Seq(Char) /\ call.path \in Seq(Char) /\ call.arg0 \in Seq(Char)
      /\ call.user \in Seq(Char) /\ call.args \in Seq(Char)
    BY <1>1 DEF CallType
<1>4. Recorded(call).path \in Seq(Char) /\ Recorded(call).args \in Seq(Char)
    <2>1. /\ Captured(IF call.readable THEN call.path ELSE call.arg0, EXEC_BUF) \in Seq(Char)
          /\ Captured(call.path, FILE_BUF) \in Seq(Char)
          /\ <<>> \in Seq(Char)
        <3>1. (IF call.readable THEN call.path ELSE call.arg0) \in Seq(Char)
            BY <1>3
        <3>2. <<>> \in Seq(Char)
            OBVIOUS
        <3>q. QED BY <1>1, <1>2, <1>3, <3>1, <3>2
    <2>2. CASE call.type = ET_EXECVE
        BY <1>3, <2>1, <2>2 DEF Recorded
    <2>3. CASE call.type = ET_FILE /\ call.readable
        BY <1>3, <2>1, <2>3 DEF Recorded, ET_EXECVE, ET_FILE
    <2>4. CASE call.type # ET_EXECVE /\ ~(call.type = ET_FILE /\ call.readable)
        BY <2>1, <2>4 DEF Recorded
    <2>q. QED BY <2>2, <2>3, <2>4
<1>5. Recorded(call) = [type |-> call.type, comm |-> call.comm, user |-> call.user,
                        args |-> Recorded(call).args, path |-> Recorded(call).path]
    BY DEF Recorded
<1>q. QED BY <1>3, <1>4, <1>5 DEF Record

LEMMA SameInit == RE!Init => REP!Init
BY SameTypes DEF RE!Init, REP!Init

LEMMA SameRank ==
    ASSUME NEW rules, NEW i
    PROVE  RE!Rank(rules, i) = REP!Rank(rules, i)
BY SameSets DEF RE!Rank, REP!Rank

LEMMA SameNotes ==
    ASSUME NEW types, RE!MakePermissive(types)
    PROVE  REP!MakePermissive(types)
BY SameTypes DEF RE!MakePermissive, REP!MakePermissive

LEMMA SameEntry ==
    ASSUME NEW f
    PROVE  /\ RE!NextEntry(f) => REP!NextEntry(f)
           /\ RE!Load(f) => REP!Load(f)
           /\ \A k : RE!Lowered(f, k) = REP!Lowered(f, k)
BY DEF RE!NextEntry, REP!NextEntry, RE!Load, REP!Load, RE!Lowered, REP!Lowered

LEMMA SameNext == RE!Next => REP!Next
<1> SUFFICES ASSUME RE!Next PROVE REP!Next
    OBVIOUS
<1>1. ASSUME NEW f \in Files, RE!SkipEntry(f) PROVE REP!SkipEntry(f)
    BY <1>1, SameEntry DEF RE!SkipEntry, REP!SkipEntry
<1>2. ASSUME NEW f \in Files, RE!LoadOnly(f) PROVE REP!LoadOnly(f)
    BY <1>2, SameEntry DEF RE!LoadOnly, REP!LoadOnly
<1>3. ASSUME NEW f \in Files, RE!FailOpen(f) PROVE REP!FailOpen(f)
    BY <1>3, SameEntry, SameNotes DEF RE!FailOpen, REP!FailOpen
<1>4. ASSUME NEW f \in Files, RE!PushTerms(f) PROVE REP!PushTerms(f)
    BY <1>4, SameEntry DEF RE!PushTerms, REP!PushTerms
<1>5. ASSUME NEW f \in Files, RE!PushUntilTooLong(f) PROVE REP!PushUntilTooLong(f)
    BY <1>5, SameEntry, SameNotes DEF RE!PushUntilTooLong, REP!PushUntilTooLong
<1>6. RE!NoDirectory => REP!NoDirectory
    BY DEF RE!NoDirectory, REP!NoDirectory
<1>7. RE!Retain => REP!Retain
    BY SameSets DEF RE!Retain, REP!Retain, RE!LiveAt, REP!LiveAt
<1>8. RE!Fits => REP!Fits
    BY SameSets DEF RE!Fits, REP!Fits
<1>9. ASSUME RE!Overflow PROVE REP!Overflow
    <2>1. \A rules : RE!Evicted(rules) = REP!Evicted(rules)
        BY SameRank DEF RE!Evicted, REP!Evicted
    <2>q. QED BY <1>9, <2>1, SameSets, SameNotes
              DEF RE!Overflow, REP!Overflow, RE!LiveAt, REP!LiveAt
<1>q. QED BY <1>1, <1>2, <1>3, <1>4, <1>5, <1>6, <1>7, <1>8, <1>9 DEF RE!Next, REP!Next

\* What RuleEngineProofs shows of the engine, from step to step.
LEMMA EngineInvariant ==
    /\ RE!Init => REP!IInv
    /\ REP!IInv /\ RE!Next => REP!IInv'
    /\ REP!IInv /\ UNCHANGED engine => REP!IInv'
<1>1. RE!Init => REP!IInv
    BY SameInit, SameAssumption, REP!InitIInv
<1>2. REP!IInv /\ RE!Next => REP!IInv'
    BY SameNext, SameAssumption, REP!NextIInv
<1>3. UNCHANGED engine => UNCHANGED REP!vars
    BY DEF engine, REP!vars
<1>4. REP!IInv /\ UNCHANGED REP!vars => REP!IInv'
    BY SameAssumption, REP!NextIInv
<1>q. QED BY <1>1, <1>2, <1>3, <1>4

\* Every rule of the Vec stands for a term of a loaded file.
LEMMA EngineOrigin ==
    /\ RE!Init => REP!OriginKnown
    /\ REP!IInv /\ REP!OriginKnown /\ RE!Next => REP!OriginKnown'
    /\ REP!IInv /\ REP!OriginKnown /\ UNCHANGED engine => REP!OriginKnown'
<1>1. RE!Init => REP!OriginKnown
    BY SameInit, SameAssumption, REP!OriginInitial
<1>2. REP!IInv /\ REP!OriginKnown /\ RE!Next => REP!OriginKnown'
    BY SameNext, SameAssumption, REP!OriginStep
<1>3. UNCHANGED engine => UNCHANGED REP!vars
    BY DEF engine, REP!vars
<1>4. REP!IInv /\ REP!OriginKnown /\ UNCHANGED REP!vars => REP!OriginKnown'
    BY SameAssumption, REP!OriginStep
<1>q. QED BY <1>1, <1>2, <1>3, <1>4

\* What the proofs below need of it.
LEMMA EngineFacts ==
    ASSUME REP!IInv
    PROVE  /\ DOMAIN kernel_rules \subseteq Nat \ {0} /\ IsFiniteSet(DOMAIN kernel_rules)
           /\ \A k \in DOMAIN kernel_rules :
                 kernel_rules[k].type \in EventTypes /\ kernel_rules[k].term \in Terms
           /\ permissive_mask \subseteq EventTypes /\ AlwaysPermissive \subseteq permissive_mask
           /\ sigma_rules \subseteq Files
           /\ phase = "ready" => Cardinality(DOMAIN kernel_rules) <= MAX_KERNEL_RULES
           /\ phase = "ready" => REP!EveryTermCovered
<1>1. REP!TypeOK /\ AlwaysPermissive \subseteq permissive_mask
    BY SameTypes DEF REP!IInv
<1>2. \A k \in DOMAIN kernel_rules : kernel_rules[k] \in [type : EventTypes, term : Terms]
    BY <1>1, SameTypes DEF REP!TypeOK, REP!Rule
<1>3. phase = "ready" => Cardinality(DOMAIN kernel_rules) <= MAX_KERNEL_RULES
    BY SameSets DEF REP!IInv, REP!BudgetRespected
<1>4. REP!EveryTermCovered
    BY DEF REP!IInv, REP!CoveredSoFar, REP!EveryTermCovered
<1>q. QED BY <1>1, <1>2, <1>3, <1>4, SameSets, SameTypes DEF REP!TypeOK

-----------------------------------------------------------------------------
\* The block the upload writes.

\* A position of the Vec lands in the slot of its rank.
LEMMA RuleHasSlot ==
    ASSUME REP!IInv, NEW k \in DOMAIN kernel_rules
    PROVE  \E i \in 1..Cardinality(DOMAIN kernel_rules) :
              RuleInSlot(i) = lower_term(kernel_rules[k].type, kernel_rules[k].term)
<1> DEFINE rank(p) == RE!Rank(kernel_rules, p)
           i == rank(k) + 1
           at == {p \in DOMAIN kernel_rules : rank(p) = i - 1}
<1>1. /\ DOMAIN kernel_rules \subseteq Nat
      /\ Cardinality(DOMAIN kernel_rules) \in Nat
      /\ \A p \in DOMAIN kernel_rules :
            rank(p) \in Nat /\ rank(p) < Cardinality(DOMAIN kernel_rules)
      /\ \A p, q \in DOMAIN kernel_rules : p < q => rank(p) < rank(q)
    <2>1. DOMAIN kernel_rules \subseteq Nat /\ REP!IsFiniteSet(DOMAIN kernel_rules)
        BY EngineFacts, SameSets
    <2>2. /\ REP!Cardinality(DOMAIN kernel_rules) \in Nat
          /\ \A p \in DOMAIN kernel_rules :
                /\ REP!Rank(kernel_rules, p) \in Nat
                /\ REP!Rank(kernel_rules, p) < REP!Cardinality(DOMAIN kernel_rules)
          /\ \A p, q \in DOMAIN kernel_rules :
                p < q => REP!Rank(kernel_rules, p) < REP!Rank(kernel_rules, q)
        BY <2>1, SameAssumption, REP!RankIncreases
    <2>3. \A p : rank(p) = REP!Rank(kernel_rules, p)
        BY SameRank
    <2> HIDE DEF rank
    <2>q. QED BY <2>1, <2>2, <2>3, SameSets
<1> HIDE DEF rank
<1>2. ASSUME NEW p \in DOMAIN kernel_rules, rank(p) = rank(k) PROVE p = k
    BY <1>1, <1>2
<1>3. at = {k}
    BY <1>1, <1>2
<1>4. RuleInSlot(i) = lower_term(kernel_rules[k].type, kernel_rules[k].term)
    BY <1>3 DEF RuleInSlot, rank
<1>5. i \in 1..Cardinality(DOMAIN kernel_rules)
    BY <1>1
<1>q. QED BY <1>4, <1>5

\* A slot below the count holds a rule of the Vec, never padding.
LEMMA SlotHasRule ==
    ASSUME REP!IInv, NEW i \in 1..Cardinality(DOMAIN kernel_rules)
    PROVE  \E k \in DOMAIN kernel_rules :
              RuleInSlot(i) = lower_term(kernel_rules[k].type, kernel_rules[k].term)
<1> DEFINE at == {p \in DOMAIN kernel_rules : RE!Rank(kernel_rules, p) = i - 1}
           k  == CHOOSE p \in at : TRUE
<1>1. DOMAIN kernel_rules \subseteq Nat /\ REP!IsFiniteSet(DOMAIN kernel_rules)
    BY EngineFacts, SameSets
<1>2. i - 1 \in 0..(REP!Cardinality(DOMAIN kernel_rules) - 1)
    <2>1. Cardinality(DOMAIN kernel_rules) \in Nat
        BY EngineFacts, FS_CardinalityType
    <2>2. REP!Cardinality(DOMAIN kernel_rules) = Cardinality(DOMAIN kernel_rules)
        BY SameSets
    <2>q. QED BY <2>1, <2>2
<1>3. \E p \in DOMAIN kernel_rules : REP!Rank(kernel_rules, p) = i - 1
    BY <1>1, <1>2, SameAssumption, REP!RankOnto
<1>4. at # {}
    BY <1>3, SameRank
<1>5. k \in at
    BY <1>4
<1>6. RuleInSlot(i) = lower_term(kernel_rules[k].type, kernel_rules[k].term)
    BY <1>4 DEF RuleInSlot
<1>q. QED BY <1>5, <1>6

\* What the upload may write to a slot.
LEMMA SlotTyped ==
    ASSUME REP!IInv, NEW i
    PROVE  RuleInSlot(i) \in SlotRule
<1> DEFINE at == {p \in DOMAIN kernel_rules : RE!Rank(kernel_rules, p) = i - 1}
           k == CHOOSE p \in at : TRUE
<1>1. CASE at = {}
    BY <1>1 DEF RuleInSlot, SlotRule
<1>2. CASE at # {}
    <2>1. k \in DOMAIN kernel_rules
        BY <1>2
    <2>2. RuleInSlot(i) = lower_term(kernel_rules[k].type, kernel_rules[k].term)
        BY <1>2 DEF RuleInSlot
    <2>3. kernel_rules[k].type \in EventTypes /\ kernel_rules[k].term \in Terms
        BY <2>1, EngineFacts
    <2>4. \A type \in EventTypes, t \in Terms : lower_term(type, t) \in SlotRule
        BY DEF SlotRule
    <2> HIDE DEF k
    <2>q. QED BY <2>2, <2>3, <2>4
<1>q. QED BY <1>1, <1>2

\* The parts the upload has copied.
PartlyWritten ==
    /\ Count \in unwritten \/ block.count = Cardinality(DOMAIN kernel_rules)
    /\ Mask \in unwritten \/ block.mask = permissive_mask
    /\ \A i \in Slots : i \in unwritten \/ block.rules[i] = RuleInSlot(i)

\* What a complete upload leaves in the map.
Written ==
    /\ block.count = Cardinality(DOMAIN kernel_rules)
    /\ block.mask = permissive_mask
    /\ \A i \in Slots : block.rules[i] = RuleInSlot(i)

(***************************************************************************)
(* The start-up: the block is empty until the update begins and complete   *)
(* when it ends, a part of it is right as soon as it is copied, and no     *)
(* ring is open before.                                                    *)
(***************************************************************************)
StartUpInv ==
    /\ outcome = [f \in Files |-> OutcomeOf(dir[f])]
    /\ stage # "building" => phase = "ready"
    /\ stage \in {"building", "uploading"} => ~uploaded /\ open = {}
    /\ stage = "building" => block.count = 0
    /\ stage # "uploading" => unwritten = {}
    /\ stage = "uploading" => PartlyWritten
    /\ stage \in {"opening", "watching", "aborted"} =>
           IF uploaded THEN Written ELSE block.count = 0
    /\ stage \in {"building", "uploading"} =>
           \A s \in seen : ~s.watched /\ s.fate # "forwarded"

FastPathInv ==
    /\ TypeOK
    /\ REP!IInv
    /\ REP!OriginKnown
    /\ StartUpInv

\* The fate of an event that a system call makes.
LEMMA SeenEvent ==
    ASSUME NEW c, NEW call, Syscall(c, call), NEW e \in seen'
    PROVE  /\ e.call = call
           /\ e.watched = (c \in open)
           /\ e.fate = IF ~Forwards(call) THEN "dropped"
                       ELSE IF c \in open THEN "forwarded" ELSE "lost"
<1> DEFINE fate == IF ~Forwards(call) THEN "dropped"
                   ELSE IF c \in open THEN "forwarded" ELSE "lost"
           watched == c \in open
<1>1. e = [call |-> call, fate |-> fate, watched |-> watched]
    BY DEF Syscall
<1> HIDE DEF fate, watched
<1>2. e.call = call /\ e.fate = fate /\ e.watched = watched
    BY <1>1
<1>q. QED BY <1>2 DEF fate, watched

LEMMA StartUpInitial == Init => FastPathInv
<1> SUFFICES ASSUME Init PROVE FastPathInv
    OBVIOUS
<1>1. REP!IInv /\ REP!OriginKnown
    BY EngineInvariant, EngineOrigin DEF Init
<1>2. MAX_KERNEL_RULES \in Nat
    BY SameAssumption
<1>3. block = [mask |-> {}, count |-> 0, rules |-> [i \in Slots |-> ZeroRule]]
    BY DEF Init
<1>4. block \in [mask : SUBSET EventTypes, count : 0..MAX_KERNEL_RULES,
                 rules : [Slots -> SlotRule]]
    BY <1>2, <1>3 DEF SlotRule
<1>5. TypeOK
    BY <1>4 DEF Init, TypeOK
<1>6. StartUpInv
    BY <1>3 DEF Init, StartUpInv
<1>q. QED BY <1>1, <1>5, <1>6 DEF FastPathInv

LEMMA StartUpStep == FastPathInv /\ [Next]_vars => FastPathInv'
<1> SUFFICES ASSUME FastPathInv, [Next]_vars PROVE FastPathInv'
    OBVIOUS
<1> USE DEF FastPathInv
<1>a. MAX_KERNEL_RULES \in Nat
    BY SameAssumption
\* The parts of the upload are told apart by their type.
<1>b. Count \notin Slots /\ Mask \notin Slots /\ Count # Mask
    BY <1>a DEF Count, Mask, Slots
<1>1. CASE BuildEngine
    <2>1. REP!IInv' /\ REP!OriginKnown'
        BY <1>1, EngineInvariant, EngineOrigin DEF BuildEngine
    <2>2. outcome' = outcome
        BY <1>1 DEF BuildEngine, RE!Next, RE!SkipEntry, RE!LoadOnly, RE!FailOpen,
                    RE!PushTerms, RE!PushUntilTooLong, RE!NextEntry, RE!NoDirectory,
                    RE!Retain, RE!Fits, RE!Overflow
    <2>3. StartUpInv'
        BY <1>1, <2>2 DEF BuildEngine, StartUpInv, startup
    <2>q. QED BY <1>1, <2>1, <2>3 DEF BuildEngine, startup, TypeOK
<1>2. CASE UploadFails
    <2>1. REP!IInv' /\ REP!OriginKnown'
        BY <1>2, EngineInvariant, EngineOrigin DEF UploadFails
    <2>2. StartUpInv'
        BY <1>2 DEF UploadFails, StartUpInv, engine
    <2>3. TypeOK'
        BY <1>2 DEF UploadFails, TypeOK, StartUpInv
    <2>q. QED BY <2>1, <2>2, <2>3
<1>3. CASE StartUpload
    <2>1. REP!IInv' /\ REP!OriginKnown'
        BY <1>3, EngineInvariant, EngineOrigin DEF StartUpload
    <2>2. StartUpInv'
        BY <1>3 DEF StartUpload, StartUpInv, PartlyWritten, engine, Parts
    <2>3. TypeOK'
        BY <1>3 DEF StartUpload, TypeOK, StartUpInv
    <2>q. QED BY <2>1, <2>2, <2>3
<1>5. ASSUME NEW c \in Cpus, OpenCpu(c) PROVE FastPathInv'
    <2>1. REP!IInv' /\ REP!OriginKnown'
        BY <1>5, EngineInvariant, EngineOrigin DEF OpenCpu
    <2>2. StartUpInv'
        BY <1>5 DEF OpenCpu, StartUpInv, engine, Written, RuleInSlot, RE!Rank
    <2>3. TypeOK'
        BY <1>5 DEF OpenCpu, TypeOK, StartUpInv
    <2>q. QED BY <2>1, <2>2, <2>3
<1>6. ASSUME NEW c \in Cpus, NEW call \in Calls, Syscall(c, call) PROVE FastPathInv'
    <2>1. REP!IInv' /\ REP!OriginKnown'
        BY <1>6, EngineInvariant, EngineOrigin DEF Syscall
    <2>2. UNCHANGED <<dir, outcome, phase, kernel_rules, permissive_mask,
                      stage, uploaded, unwritten, block, open>>
        BY <1>6 DEF Syscall, engine, startup
    <2>5. \A e \in seen' : e.watched \/ e.fate = "forwarded" => c \in open
        BY <1>6, SeenEvent
    <2>4. StartUpInv'
        <3>1. stage \in {"building", "uploading"} =>
                  \A e \in seen' : ~e.watched /\ e.fate # "forwarded"
            BY <2>2, <2>5 DEF StartUpInv
        <3>2. Written' = Written /\ PartlyWritten' = PartlyWritten
            BY <2>2 DEF Written, PartlyWritten, RuleInSlot, RE!Rank
        <3>q. QED BY <2>2, <3>1, <3>2 DEF StartUpInv
    <2>3. TypeOK'
        BY <1>6 DEF Syscall, TypeOK, startup
    <2>q. QED BY <2>1, <2>3, <2>4
<1>7. CASE OpenFails
    <2>1. REP!IInv' /\ REP!OriginKnown'
        BY <1>7, EngineInvariant, EngineOrigin DEF OpenFails
    <2>2. StartUpInv'
        BY <1>7 DEF OpenFails, StartUpInv, engine, Written, RuleInSlot, RE!Rank
    <2>3. TypeOK'
        BY <1>7 DEF OpenFails, TypeOK
    <2>q. QED BY <2>1, <2>2, <2>3
<1>8. CASE UNCHANGED vars
    <2>1. REP!IInv' /\ REP!OriginKnown'
        BY <1>8, EngineInvariant, EngineOrigin DEF vars
    <2>2. StartUpInv'
        BY <1>8 DEF vars, StartUpInv, engine, startup, Written, PartlyWritten, RuleInSlot, RE!Rank
    <2>3. TypeOK'
        BY <1>8 DEF vars, TypeOK, startup
    <2>q. QED BY <2>1, <2>2, <2>3
<1>4. ASSUME NEW p \in Parts, CopyPart(p) PROVE FastPathInv'
    <2>1. REP!IInv' /\ REP!OriginKnown'
        BY <1>4, EngineInvariant, EngineOrigin DEF CopyPart
    <2>2. /\ stage = "uploading" /\ phase = "ready" /\ PartlyWritten
          /\ UNCHANGED <<dir, outcome, phase, kernel_rules, permissive_mask, open, seen>>
          /\ unwritten' = unwritten \ {p}
          /\ stage' = (IF unwritten' = {} THEN "opening" ELSE stage)
          /\ uploaded' = (unwritten' = {})
          /\ ~uploaded /\ open = {}
          /\ \A s \in seen : ~s.watched /\ s.fate # "forwarded"
        BY <1>4 DEF CopyPart, StartUpInv, engine
    <2>3. \A i : RuleInSlot(i)' = RuleInSlot(i)
        BY <2>2 DEF RuleInSlot, RE!Rank
    <2>4. block \in [mask : SUBSET EventTypes, count : 0..MAX_KERNEL_RULES,
                     rules : [Slots -> SlotRule]]
        BY DEF TypeOK
    <2>5. /\ p = Count => block' = [block EXCEPT !.count = Cardinality(DOMAIN kernel_rules)]
          /\ p = Mask => block' = [block EXCEPT !.mask = permissive_mask]
          /\ p \in Slots => block' = [block EXCEPT !.rules[p] = RuleInSlot(p)]
          /\ p \in Slots \cup {Count, Mask}
        BY <1>4, <1>b DEF CopyPart, Parts
    <2>6. /\ Cardinality(DOMAIN kernel_rules) \in 0..MAX_KERNEL_RULES
          /\ permissive_mask \in SUBSET EventTypes
          /\ \A i : RuleInSlot(i) \in SlotRule
        <3>1. Cardinality(DOMAIN kernel_rules) \in Nat
            BY EngineFacts, FS_CardinalityType
        <3>q. QED BY <1>a, <2>2, <3>1, EngineFacts, SlotTyped
    <2>7. /\ block' \in [mask : SUBSET EventTypes, count : 0..MAX_KERNEL_RULES,
                         rules : [Slots -> SlotRule]]
          /\ PartlyWritten'
        <3>1. CASE p = Count
            BY <1>b, <2>2, <2>3, <2>4, <2>5, <2>6, <3>1 DEF PartlyWritten
        <3>2. CASE p = Mask
            BY <1>b, <2>2, <2>3, <2>4, <2>5, <2>6, <3>2 DEF PartlyWritten
        <3>3. CASE p \in Slots
            BY <1>b, <2>2, <2>3, <2>4, <2>5, <2>6, <3>3 DEF PartlyWritten
        <3>q. QED BY <2>5, <3>1, <3>2, <3>3
    <2>8. TypeOK'
        BY <2>2, <2>7 DEF TypeOK
    <2>9. unwritten' = {} => Written'
        BY <2>7 DEF PartlyWritten, Written
    <2>10. StartUpInv'
        BY <2>2, <2>7, <2>9 DEF StartUpInv
    <2>q. QED BY <2>1, <2>8, <2>10
<1>q. QED BY <1>1, <1>2, <1>3, <1>4, <1>5, <1>6, <1>7, <1>8 DEF Next

-----------------------------------------------------------------------------
\* What the kernel filter does with the block, once rings are open.

\* Without an upload the probes forward everything.
LEMMA EmptyBlockForwards ==
    ASSUME FastPathInv, open # {}, ~uploaded, NEW call
    PROVE  Forwards(call)
<1>1. block.count = 0
    BY DEF FastPathInv, StartUpInv, TypeOK
<1>q. QED BY <1>1 DEF Forwards, passes_kernel_filter

(***************************************************************************)
(* With it, the term of the rule that wants the event is in the slot its   *)
(* rank says, or the type of the rule fails open.                          *)
(***************************************************************************)
LEMMA BlockForwards ==
    ASSUME FastPathInv, open # {}, uploaded, NEW call \in Calls, NEW f \in sigma_rules,
           call.type = classify_event_type(dir[f]), call.type # ET_EXECVE,
           TakenForGranted(dir[f]), SigmaFires(dir[f], Recorded(call))
    PROVE  Forwards(call)
<1> DEFINE out == OutcomeOf(dir[f])
           ev  == Recorded(call)
<1>1. /\ stage \in {"opening", "watching"} /\ phase = "ready" /\ Written
      /\ f \in Files /\ outcome[f] = out /\ dir[f] \in Rules
    <2>1. REP!IInv /\ sigma_rules \subseteq Files
        BY EngineFacts DEF FastPathInv
    <2>q. QED BY <2>1 DEF FastPathInv, StartUpInv, TypeOK
<1>2. ev.type = call.type /\ out.type = call.type
    BY DEF Recorded, OutcomeOf
<1>3. call.type \in EventTypes /\ ev \in Record /\ dir[f] \in SigmaRule
    BY <1>1, RecordedTyped, FastPathAssumption DEF FastPathAssumption, CallType
<1>4. CASE call.type \in permissive_mask
    BY <1>1, <1>2, <1>4 DEF Forwards, passes_kernel_filter, Written
<1>5. CASE call.type \notin permissive_mask
    <2>1. /\ AlwaysPermissive \subseteq permissive_mask
          /\ REP!EveryTermCovered
          /\ Cardinality(DOMAIN kernel_rules) <= MAX_KERNEL_RULES
          /\ IsFiniteSet(DOMAIN kernel_rules)
        BY <1>1, EngineFacts DEF FastPathInv
    <2>2. call.type \in {ET_FILE, ET_LSM}
        BY <1>3, <1>5, <2>1 DEF AlwaysPermissive, EventTypes,
           ET_EXECVE, ET_FILE, ET_LSM, ET_MODULE, ET_NETWORK
    <2>3. /\ ~out.blocked
          /\ \A i \in DOMAIN out.terms : \E k \in DOMAIN kernel_rules :
                kernel_rules[k] = [type |-> out.type, term |-> out.terms[i].term]
        BY <1>1, <1>2, <1>3, <1>5, <2>1, SameTypes DEF REP!EveryTermCovered
    <2>4. CASE Len(ev.path) >= MAX_PATH_SCAN
        BY <2>4 DEF Forwards, passes_kernel_filter
    <2>5. CASE ~(Len(ev.path) >= MAX_PATH_SCAN)
        <3>1. PICK i \in DOMAIN out.terms :
                  RuleMatches(lower_term(out.type, out.terms[i].term),
                              ev.type, ev.comm, ev.path)
            BY <1>2, <1>3, <2>2, <2>3, RuleSound
        <3>2. PICK k \in DOMAIN kernel_rules :
                  kernel_rules[k] = [type |-> out.type, term |-> out.terms[i].term]
            BY <2>3, <3>1
        <3>3. PICK n \in 1..Cardinality(DOMAIN kernel_rules) :
                  RuleInSlot(n) = lower_term(out.type, out.terms[i].term)
            <4>1. kernel_rules[k].type = out.type /\ kernel_rules[k].term = out.terms[i].term
                BY <3>2
            <4>q. QED BY <4>1, RuleHasSlot DEF FastPathInv
        <3>4. Cardinality(DOMAIN kernel_rules) \in Nat /\ MAX_KERNEL_RULES \in Nat
            BY <2>1, FS_CardinalityType, SameAssumption
        <3>5. block.rules \in [1..MAX_KERNEL_RULES -> SlotRule]
            BY DEF FastPathInv, TypeOK, Slots
        <3>6. Len(block.rules) = MAX_KERNEL_RULES
            BY <3>4, <3>5
        <3>7. /\ n \in 1..Least(block.count, Len(block.rules))
              /\ block.rules[n] = RuleInSlot(n)
            BY <1>1, <2>1, <3>3, <3>4, <3>6 DEF Written, Slots, Least
        <3>8. passes_kernel_filter(block, ev.type, ev.comm, ev.path)
            BY <3>1, <3>3, <3>7 DEF passes_kernel_filter
        <3>q. QED BY <3>8 DEF Forwards
    <2>q. QED BY <2>4, <2>5
<1>q. QED BY <1>4, <1>5

(***************************************************************************)
(* And the filter wants nothing else: the slot that let the event through  *)
(* holds a term of a loaded rule of its type, and a rule that is nothing   *)
(* but alternatives fires on whatever one of its terms matches.            *)
(***************************************************************************)
LEMMA ForwardedMeansWanted ==
    ASSUME FastPathInv, open # {}, uploaded, DOMAIN kernel_rules # {},
           NEW call \in Calls, Forwards(call),
           Recorded(call).type \in {ET_FILE, ET_LSM} \ permissive_mask,
           ~(Recorded(call).type = ET_FILE /\ call.write),
           Len(Recorded(call).path) < MAX_PATH_SCAN,
           \A f \in sigma_rules :
              classify_event_type(dir[f]) = Recorded(call).type => OnlyAlternatives(dir[f])
    PROVE  \E f \in sigma_rules : SigmaFires(dir[f], Recorded(call))
<1> DEFINE ev == Recorded(call)
           n  == Cardinality(DOMAIN kernel_rules)
<1>1. /\ phase = "ready" /\ Written /\ sigma_rules \subseteq Files
      /\ n \in Nat /\ n <= MAX_KERNEL_RULES /\ n # 0
    <2>1. stage \in {"opening", "watching"}
        BY DEF FastPathInv, TypeOK
    <2>2. IsFiniteSet(DOMAIN kernel_rules)
        BY EngineFacts DEF FastPathInv
    <2>q. QED BY <2>1, <2>2, EngineFacts, FS_CardinalityType, FS_EmptySet
              DEF FastPathInv, StartUpInv
<1>2. ev \in Record /\ Len(ev.path) \in Nat /\ MAX_PATH_SCAN \in Nat
    <2>1. ev \in Record
        BY RecordedTyped
    <2>2. ev.path \in Seq(Char)
        BY <2>1 DEF Record
    <2>q. QED BY <2>1, <2>2, FastPathAssumption DEF FastPathAssumption
<1> HIDE DEF n
<1>3. PICK i \in 1..n : RuleMatches(RuleInSlot(i), ev.type, ev.comm, ev.path)
    <2>1. passes_kernel_filter(block, ev.type, ev.comm, ev.path)
        BY DEF Forwards, ET_FILE, ET_LSM, ET_MODULE, ET_NETWORK
    <2>2. block.count = n /\ block.mask = permissive_mask
        BY <1>1 DEF Written, n
    <2>3. ~(Len(ev.path) >= MAX_PATH_SCAN)
        BY <1>2
    <2>4. PICK i \in 1..Least(block.count, Len(block.rules)) :
              RuleMatches(block.rules[i], ev.type, ev.comm, ev.path)
        BY <1>1, <2>1, <2>2, <2>3 DEF passes_kernel_filter
    <2>5. block.rules \in [1..MAX_KERNEL_RULES -> SlotRule] /\ MAX_KERNEL_RULES \in Nat
        BY SameAssumption DEF FastPathInv, TypeOK, Slots
    <2>6. Len(block.rules) = MAX_KERNEL_RULES
        BY <2>5
    <2>7. i \in 1..n /\ i \in Slots
        BY <1>1, <2>2, <2>4, <2>5, <2>6 DEF Least, Slots
    <2>q. QED BY <1>1, <2>4, <2>7 DEF Written
<1>4. PICK k \in DOMAIN kernel_rules :
          RuleInSlot(i) = lower_term(kernel_rules[k].type, kernel_rules[k].term)
    BY <1>3, SlotHasRule DEF FastPathInv, n
<1>5. PICK f \in sigma_rules :
          /\ ~outcome[f].blocked
          /\ \E m \in DOMAIN outcome[f].terms :
                kernel_rules[k] = [type |-> outcome[f].type,
                                   term |-> outcome[f].terms[m].term]
    BY <1>4 DEF FastPathInv, REP!OriginKnown
<1> DEFINE out == OutcomeOf(dir[f])
<1>6. /\ f \in Files /\ outcome[f] = out /\ dir[f] \in SigmaRule
      /\ out.type = classify_event_type(dir[f])
    <2>1. f \in Files /\ outcome[f] = out /\ dir[f] \in Rules
        BY <1>1, <1>5 DEF FastPathInv, StartUpInv, TypeOK
    <2>q. QED BY <2>1, FastPathAssumption DEF FastPathAssumption, OutcomeOf
<1> HIDE DEF out
<1>7. PICK m \in DOMAIN out.terms :
          kernel_rules[k] = [type |-> out.type, term |-> out.terms[m].term]
    BY <1>5, <1>6
<1>8. RuleMatches(lower_term(out.type, out.terms[m].term), ev.type, ev.comm, ev.path)
    <2>1. kernel_rules[k].type = out.type /\ kernel_rules[k].term = out.terms[m].term
        BY <1>7
    <2>q. QED BY <1>3, <1>4, <2>1
<1>9. out.type = ev.type
    <2>1. out.type \in EventTypes
        <3>1. kernel_rules[k].type \in EventTypes
            BY <1>4, EngineFacts DEF FastPathInv
        <3>q. QED BY <1>7, <3>1
    <2>2. lower_term(out.type, out.terms[m].term).event_type = out.type
        BY DEF lower_term, KernelRule
    <2>q. QED BY <1>8, <2>1, <2>2 DEF RuleMatches, EventTypes, ET_ANY
<1>10. OnlyAlternatives(dir[f]) /\ ~out.blocked
    BY <1>5, <1>6, <1>9
<1>11. SigmaFires(dir[f], ev)
    <2>1. ev.type = classify_event_type(dir[f]) /\ ev.type \in {ET_FILE, ET_LSM}
        BY <1>6, <1>9
    <2>2. RuleMatches(lower_term(ev.type, out.terms[m].term), ev.type, ev.comm, ev.path)
        BY <1>8, <1>9
    <2> HIDE DEF ev
    <2>q. QED BY <1>2, <1>6, <1>7, <1>10, <2>1, <2>2, RuleExact DEF out
<1>q. QED BY <1>11

\* What the runs check of the filter.
FilterPromises ==
    /\ NoMissedDetection
    /\ NothingForwardedInVain
    /\ UnfilteredWhenUploadFails

DetectionInv == FastPathInv /\ FilterPromises

LEMMA DetectionStep == DetectionInv /\ [Next]_vars => DetectionInv'
<1> SUFFICES ASSUME DetectionInv, [Next]_vars PROVE DetectionInv'
    OBVIOUS
<1>1. FastPathInv /\ FastPathInv'
    BY StartUpStep DEF DetectionInv
<1>2. ASSUME NEW c \in Cpus, NEW call \in Calls, Syscall(c, call)
      PROVE  FilterPromises'
    <2>1. UNCHANGED <<dir, sigma_rules, kernel_rules, permissive_mask, uploaded, open>>
        BY <1>2 DEF Syscall, engine, startup
    <2>2. ASSUME NEW s \in seen', s.watched, ~uploaded PROVE s.fate = "forwarded"
        <3>1. c \in open /\ s.fate = IF ~Forwards(call) THEN "dropped" ELSE "forwarded"
            BY <1>2, <2>2, SeenEvent
        <3>q. QED BY <1>1, <2>2, <3>1, EmptyBlockForwards
    <2>3. ASSUME NEW s \in seen', NEW f \in sigma_rules, s.watched, TakenForGranted(dir[f]),
                 s.call.type = classify_event_type(dir[f]), s.call.type # ET_EXECVE,
                 SigmaFires(dir[f], Recorded(s.call))
          PROVE  s.fate = "forwarded"
        <3>1. /\ c \in open /\ s.call = call
              /\ s.fate = IF ~Forwards(call) THEN "dropped" ELSE "forwarded"
            BY <1>2, <2>3, SeenEvent
        <3>2. Forwards(call)
            BY <1>1, <2>3, <3>1, EmptyBlockForwards, BlockForwards
        <3>q. QED BY <3>1, <3>2
    <2>4. ASSUME NEW s \in seen', s.fate = "forwarded", uploaded, DOMAIN kernel_rules # {},
                 Recorded(s.call).type \in {ET_FILE, ET_LSM} \ permissive_mask,
                 ~(Recorded(s.call).type = ET_FILE /\ s.call.write),
                 Len(Recorded(s.call).path) < MAX_PATH_SCAN,
                 \A f \in sigma_rules :
                    classify_event_type(dir[f]) = Recorded(s.call).type
                        => OnlyAlternatives(dir[f])
          PROVE  \E f \in sigma_rules : SigmaFires(dir[f], Recorded(s.call))
        <3>1. c \in open /\ s.call = call /\ Forwards(call)
            BY <1>2, <2>4, SeenEvent
        <3>q. QED BY <1>1, <2>4, <3>1, ForwardedMeansWanted
    <2>5. NoMissedDetection' /\ UnfilteredWhenUploadFails'
        BY <2>1, <2>2, <2>3 DEF NoMissedDetection, UnfilteredWhenUploadFails
    <2>6. NothingForwardedInVain'
        BY <2>1, <2>4 DEF NothingForwardedInVain
    <2>q. QED BY <2>5, <2>6 DEF FilterPromises
\* An event that was seen before any ring was open was not watched, nor forwarded.
<1>3. ASSUME UNCHANGED seen, \A s \in seen : ~s.watched /\ s.fate # "forwarded"
      PROVE  FilterPromises'
    BY <1>3 DEF FilterPromises, NoMissedDetection, NothingForwardedInVain,
                UnfilteredWhenUploadFails
<1>4. ASSUME UNCHANGED <<seen, dir, sigma_rules, kernel_rules, permissive_mask, uploaded>>
      PROVE  FilterPromises'
    BY <1>4 DEF FilterPromises, NoMissedDetection, NothingForwardedInVain,
                UnfilteredWhenUploadFails, DetectionInv
<1>5. CASE BuildEngine
    BY <1>1, <1>3, <1>5 DEF BuildEngine, FastPathInv, StartUpInv, DetectionInv
<1>6. ASSUME NEW p \in Parts, CopyPart(p)
      PROVE  FilterPromises'
    BY <1>1, <1>3, <1>6 DEF CopyPart, FastPathInv, StartUpInv
<1>7. CASE UploadFails \/ StartUpload \/ OpenFails \/ UNCHANGED vars
    <2>1. UNCHANGED <<seen, dir, sigma_rules, kernel_rules, permissive_mask, uploaded>>
        BY <1>7 DEF UploadFails, StartUpload, OpenFails, vars, engine, startup
    <2>q. QED BY <1>1, <1>4, <2>1 DEF DetectionInv
<1>8. ASSUME NEW c \in Cpus, OpenCpu(c)
      PROVE  FilterPromises'
    BY <1>4, <1>8 DEF OpenCpu, engine
<1>q. QED BY <1>1, <1>2, <1>5, <1>6, <1>7, <1>8 DEF Next, DetectionInv

LEMMA Detection == Spec => []DetectionInv
<1>1. Init => DetectionInv
    BY StartUpInitial DEF Init, DetectionInv, FilterPromises, NoMissedDetection,
                          NothingForwardedInVain, UnfilteredWhenUploadFails
<1>q. QED BY <1>1, DetectionStep, PTL DEF Spec

\* The variables of the start-up keep their types; no ring opens on a torn block.
THEOREM FastPathTypeCorrect == Spec => []TypeOK
<1>1. DetectionInv => TypeOK
    BY DEF DetectionInv, FastPathInv
<1>q. QED BY <1>1, Detection, PTL

(***************************************************************************)
(* No missed detection, for every directory of rules, every budget, every  *)
(* number of CPUs and every set of system calls - with each probe run one  *)
(* step, which leaves out LSM programs preempted on SCRATCH.               *)
(***************************************************************************)
THEOREM DetectionTheorem == Spec => []NoMissedDetection
<1>1. DetectionInv => NoMissedDetection
    BY DEF DetectionInv, FilterPromises
<1>q. QED BY <1>1, Detection, PTL

(***************************************************************************)
(* And no idle filter: among alternatives, what is measured, filtered and  *)
(* still forwarded is an event that a loaded rule fires on - for every     *)
(* directory, budget and order in which the upload is torn, and each probe *)
(* run one step, as in DetectionTheorem.                                   *)
(***************************************************************************)
THEOREM SharpnessTheorem == Spec => []NothingForwardedInVain
<1>1. DetectionInv => NothingForwardedInVain
    BY DEF DetectionInv, FilterPromises
<1>q. QED BY <1>1, Detection, PTL

\* An agent whose upload failed forwards everything on the CPUs it watches.
THEOREM UnfilteredTheorem == Spec => []UnfilteredWhenUploadFails
<1>1. DetectionInv => UnfilteredWhenUploadFails
    BY DEF DetectionInv, FilterPromises
<1>q. QED BY <1>1, Detection, PTL
=============================================================================
