------------------------- MODULE EventPipelineProofs -------------------------
(***************************************************************************)
(* The pipeline keeps its types, never looks a user up twice, hands the    *)
(* events of a source over in order and implements LossyFifo, for any      *)
(* number of rings, users, events and any size of rings and batches.       *)
(***************************************************************************)
EXTENDS EventPipeline, SequenceTheorems, TLAPS

(***************************************************************************)
(* The inductive invariant.  A user that was looked up is in the cache,    *)
(* but for the one whose `id` is still running, and that one is the user   *)
(* of the event at the head of the batch: no reader can take the turn and  *)
(* miss the same name before the answer is stored.                         *)
(***************************************************************************)
LookupInv ==
    \A u \in Uid :
        /\ lookups[u] <= 1
        /\ lookups[u] = 1 /\ cache[u] = NoName => resolving /\ Head(batch).uid = u

PipelineInv == TypeOK /\ LookupInv

LEMMA PipelineInitial == Init => PipelineInv
<1> SUFFICES ASSUME Init PROVE PipelineInv
    OBVIOUS
<1>1. TypeOK
    <2>1. <<>> \in Seq(Event) /\ Len(<<>>) = 0
        BY EmptySeq
    <2>2. ring \in [Source -> Seq(Event)] /\ \A s \in Source : Len(ring[s]) <= RingSize
        BY <2>1, PipelineAssumption DEF Init
    <2>3. produced \in [Source -> Nat] /\ \A s \in Source : produced[s] \in 0..MaxEvents[s]
        BY PipelineAssumption DEF Init
    <2>q. QED BY <2>1, <2>2, <2>3 DEF Init, TypeOK
<1>2. LookupInv
    BY DEF Init, LookupInv
<1>q. QED BY <1>1, <1>2 DEF PipelineInv

\* What a reader with a batch has in hand.
LEMMA HeadOfBatch ==
    ASSUME TypeOK, batch # <<>>
    PROVE  /\ Head(batch) \in Event /\ Head(batch).uid \in Uid
           /\ Tail(batch) \in Seq(Event)
<1>1. batch \in Seq(Event)
    BY DEF TypeOK
<1>2. Head(batch) \in Event /\ Tail(batch) \in Seq(Event)
    BY <1>1, HeadTailProperties
<1>q. QED BY <1>2 DEF Event

\* A probe outputs an event, or the ring refuses it.
KernelOK ==
    /\ ring \in [Source -> Seq(Event)] /\ produced \in [Source -> Nat]
    /\ \A s \in Source : Len(ring[s]) <= RingSize /\ produced[s] \in 0..MaxEvents[s]

LEMMA OutputKeepsType ==
    ASSUME KernelOK, NEW s \in Source, NEW u \in Uid, Output(s, u)
    PROVE  KernelOK'
<1>1. /\ produced[s] \in 0..MaxEvents[s] /\ produced[s] < MaxEvents[s]
      /\ MaxEvents[s] \in Nat /\ RingSize \in Nat
    BY PipelineAssumption DEF KernelOK, Output
<1>2. /\ produced' = [produced EXCEPT ![s] = produced[s] + 1]
      /\ produced' \in [Source -> Nat] /\ produced'[s] = produced[s] + 1
      /\ \A r \in Source : produced'[r] \in 0..MaxEvents[r]
    BY <1>1 DEF KernelOK, Output
<1>3. produced'[s] \in Stamp
    BY <1>1, <1>2 DEF Stamp
<1> DEFINE e == [src |-> s, n |-> produced'[s], uid |-> u]
<1>4. e \in Event
    BY <1>3 DEF Event
<1> HIDE DEF e
<1>5. ring[s] \in Seq(Event) /\ Len(ring[s]) \in Nat
    BY LenProperties DEF KernelOK
<1>6. Append(ring[s], e) \in Seq(Event) /\ Len(Append(ring[s], e)) = Len(ring[s]) + 1
    BY <1>4, <1>5, AppendProperties
<1>7. CASE Len(ring[s]) < RingSize
    <2>1. ring' = [ring EXCEPT ![s] = Append(ring[s], e)]
        BY <1>7 DEF Output, e
    <2>2. ring' \in [Source -> Seq(Event)] /\ \A r \in Source : Len(ring'[r]) <= RingSize
        BY <1>1, <1>5, <1>6, <1>7, <2>1 DEF KernelOK
    <2>q. QED BY <1>2, <2>2 DEF KernelOK
<1>8. CASE ~(Len(ring[s]) < RingSize)
    BY <1>2, <1>8 DEF KernelOK, Output
<1>q. QED BY <1>7, <1>8

\* A batch is taken off the front of its ring.
LEMMA BatchIsFront ==
    ASSUME TypeOK, NEW s \in Source, ReadBatch(s)
    PROVE  /\ batch' \in Seq(Event) /\ batch' # <<>>
           /\ KernelOK'
<1> DEFINE k == IF Len(ring[s]) < BatchSize THEN Len(ring[s]) ELSE BatchSize
<1>1. /\ ring[s] \in Seq(Event) /\ ring[s] # <<>> /\ Len(ring[s]) \in Nat \ {0}
      /\ Len(ring[s]) <= RingSize /\ RingSize \in Nat
    BY EmptySeq, LenProperties, PipelineAssumption DEF TypeOK, ReadBatch
<1>2. k \in 1..Len(ring[s])
    BY <1>1, PipelineAssumption
<1>3. /\ batch' = SubSeq(ring[s], 1, k)
      /\ ring' = [ring EXCEPT ![s] = SubSeq(ring[s], k + 1, Len(ring[s]))]
      /\ produced' = produced
    BY DEF ReadBatch
<1> HIDE DEF k
<1>4. SubSeq(ring[s], 1, k) \in Seq(Event) /\ Len(SubSeq(ring[s], 1, k)) = k
    BY <1>1, <1>2, SubSeqProperties
<1>5. /\ SubSeq(ring[s], k + 1, Len(ring[s])) \in Seq(Event)
      /\ Len(SubSeq(ring[s], k + 1, Len(ring[s]))) <= RingSize
    BY <1>1, <1>2, SubSeqProperties
<1>6. batch' # <<>>
    BY <1>2, <1>3, <1>4, EmptySeq
<1>q. QED BY <1>3, <1>4, <1>5, <1>6 DEF TypeOK, KernelOK

\* The invariant in parts: what the kernel holds, and the rest.
AgentOK ==
    /\ closed \subseteq Source /\ turn \in Source \cup {Idle}
    /\ batch \in Seq(Event) /\ (batch # <<>> => turn # Idle)
    /\ resolving \in BOOLEAN /\ (resolving => batch # <<>>)
    /\ cache \in [Uid -> {NoName, "known", "unknown"}] /\ lookups \in [Uid -> Nat]
    /\ channel \in Seq(Event) /\ evaluated \in Seq(Event)
    /\ agent \in {"running", "exiting", "exited"}

LEMMA Parts == TypeOK <=> KernelOK /\ AgentOK
BY DEF TypeOK, KernelOK, AgentOK

LEMMA ResolveStep == PipelineInv /\ Resolve => PipelineInv'
<1> SUFFICES ASSUME PipelineInv, Resolve PROVE PipelineInv'
    OBVIOUS
<1> DEFINE u == Head(batch).uid
<1>0. TypeOK /\ KernelOK /\ AgentOK /\ LookupInv
    BY Parts DEF PipelineInv
<1>1. batch # <<>> /\ u \in Uid
    BY <1>0, HeadOfBatch DEF Resolve
<1> HIDE DEF u
<1>2. /\ cache[u] = NoName /\ lookups' = [lookups EXCEPT ![u] = lookups[u] + 1]
      /\ ~resolving /\ resolving' = TRUE
      /\ UNCHANGED <<closed, turn, batch, cache, channel, evaluated, agent>>
    BY DEF Resolve, u
<1>3. KernelOK'
    <2>1. CASE UNCHANGED kernel
        BY <1>0, <2>1 DEF KernelOK, kernel
    <2>2. ASSUME NEW s \in ExecSource, Output(s, AgentUid)
          PROVE  KernelOK'
        BY <1>0, <2>2, OutputKeepsType, PipelineAssumption
    <2>q. QED BY <2>1, <2>2 DEF Resolve
<1>4. AgentOK'
    BY <1>0, <1>1, <1>2 DEF AgentOK
<1>5. LookupInv'
    <2>1. lookups[u] = 0
        BY <1>0, <1>1, <1>2 DEF AgentOK, LookupInv
    <2>2. u' = u
        BY <1>2 DEF u
    <2>q. QED BY <1>0, <1>1, <1>2, <2>1, <2>2 DEF AgentOK, LookupInv, u
<1>6. TypeOK'
    BY <1>3, <1>4 DEF TypeOK, KernelOK, AgentOK
<1>q. QED BY <1>5, <1>6 DEF PipelineInv

LEMMA ResolvedStep == PipelineInv /\ Resolved => PipelineInv'
<1> SUFFICES ASSUME PipelineInv, Resolved PROVE PipelineInv'
    OBVIOUS
<1> DEFINE u == Head(batch).uid
<1>0. TypeOK /\ LookupInv
    BY DEF PipelineInv
<1>1. u \in Uid
    BY <1>0, HeadOfBatch DEF Resolved, TypeOK
<1> HIDE DEF u
<1>2. PICK name \in {"known", "unknown"} : cache' = [cache EXCEPT ![u] = name]
    BY DEF Resolved, u
<1>3. /\ resolving' = FALSE
      /\ UNCHANGED <<ring, produced, closed, turn, batch, lookups, channel, evaluated, agent>>
    BY DEF Resolved, kernel
<1>4. TypeOK'
    BY <1>0, <1>1, <1>2, <1>3 DEF TypeOK
<1>5. LookupInv'
    BY <1>0, <1>1, <1>2, <1>3, PipelineAssumption DEF TypeOK, LookupInv, u
<1>q. QED BY <1>4, <1>5 DEF PipelineInv

LEMMA PipelinePreserved == PipelineInv /\ [Next]_vars => PipelineInv'
<1> SUFFICES ASSUME PipelineInv, [Next]_vars PROVE PipelineInv'
    OBVIOUS
<1>0. TypeOK /\ KernelOK /\ AgentOK /\ LookupInv
    BY Parts DEF PipelineInv
<1>1. ASSUME NEW s \in Source, ReadBatch(s)
      PROVE  PipelineInv'
    <2>1. batch' \in Seq(Event) /\ batch' # <<>> /\ KernelOK'
        BY <1>0, <1>1, BatchIsFront
    <2>2. ~resolving
        BY <1>0, <1>1 DEF AgentOK, ReadBatch
    <2>3. AgentOK'
        BY <1>0, <1>1, <2>1, PipelineAssumption DEF AgentOK, ReadBatch
    <2>4. LookupInv'
        BY <1>0, <1>1, <2>2 DEF LookupInv, ReadBatch
    <2>5. TypeOK'
        BY <2>1, <2>3 DEF TypeOK, KernelOK, AgentOK
    <2>q. QED BY <2>4, <2>5 DEF PipelineInv
<1>2. ASSUME NEW s \in Source, ReadFails(s)
      PROVE  PipelineInv'
    BY <1>0, <1>2 DEF ReadFails, kernel, PipelineInv, TypeOK, LookupInv
<1>10. CASE Yield
    BY <1>0, <1>10 DEF Yield, kernel, PipelineInv, TypeOK, LookupInv
<1>3. ASSUME NEW s \in Source, NEW u \in Uid, Produce(s, u)
      PROVE  PipelineInv'
    <2>1. KernelOK'
        BY <1>0, <1>3, OutputKeepsType DEF Produce
    <2>2. AgentOK' /\ LookupInv'
        BY <1>0, <1>3 DEF Produce, reader, AgentOK, LookupInv
    <2>3. TypeOK'
        BY <2>1, <2>2 DEF TypeOK, KernelOK, AgentOK
    <2>q. QED BY <2>2, <2>3 DEF PipelineInv
<1>4. CASE Resolve
    BY <1>4, ResolveStep
<1>5. CASE Resolved
    BY <1>5, ResolvedStep
<1>6. CASE SendEvent
    <2>1. Head(batch) \in Event /\ Tail(batch) \in Seq(Event)
        BY <1>0, <1>6, HeadOfBatch DEF SendEvent
    <2>2. Append(channel, Head(batch)) \in Seq(Event)
        BY <1>0, <2>1, AppendProperties DEF AgentOK
    <2>3. /\ channel' = Append(channel, Head(batch)) /\ batch' = Tail(batch)
          /\ batch # <<>> /\ ~resolving
          /\ UNCHANGED <<ring, produced, closed, turn, resolving, cache, lookups, evaluated, agent>>
        BY <1>6 DEF SendEvent, kernel
    <2>4. TypeOK'
        BY <1>0, <2>1, <2>2, <2>3 DEF TypeOK
    <2>5. LookupInv'
        BY <1>0, <2>3 DEF LookupInv
    <2>q. QED BY <2>4, <2>5 DEF PipelineInv
<1>7. CASE Evaluate
    <2>1. Head(channel) \in Event /\ Tail(channel) \in Seq(Event)
        BY <1>0, <1>7, HeadTailProperties DEF Evaluate, AgentOK
    <2>2. Append(evaluated, Head(channel)) \in Seq(Event)
        BY <1>0, <2>1, AppendProperties DEF AgentOK
    <2>3. TypeOK'
        BY <1>0, <1>7, <2>1, <2>2 DEF TypeOK, Evaluate, kernel, reader
    <2>4. LookupInv'
        BY <1>0, <1>7 DEF LookupInv, Evaluate, reader
    <2>q. QED BY <2>3, <2>4 DEF PipelineInv
<1>8. CASE Leave \/ Exit
    BY <1>0, <1>8 DEF Leave, Exit, kernel, reader, PipelineInv, TypeOK, LookupInv
<1>9. CASE UNCHANGED vars
    BY <1>0, <1>9 DEF vars, kernel, reader, PipelineInv, TypeOK, LookupInv
<1>q. QED
    BY <1>1, <1>2, <1>10, <1>3, <1>4, <1>5, <1>6, <1>7, <1>8, <1>9 DEF Next, Reader

(***************************************************************************)
(* Every variable of the pipeline keeps its type; a reader with a batch    *)
(* holds the main task.  (the reader loops of App::run)                    *)
(***************************************************************************)
THEOREM PipelineTypeCorrect == Spec => []TypeOK
<1>1. Init /\ [][Next]_vars => []PipelineInv
    BY PipelineInitial, PipelinePreserved, PTL
<1>2. PipelineInv => TypeOK
    BY DEF PipelineInv
<1>q. QED BY <1>1, <1>2, PTL DEF Spec

(***************************************************************************)
(* No user is looked up twice: the agent does not feed itself through the  *)
(* `id` it runs, however many rings and users there are.  (get_user)       *)
(***************************************************************************)
THEOREM LookupTheorem == Spec => []OneLookupPerUser
<1>1. Init /\ [][Next]_vars => []PipelineInv
    BY PipelineInitial, PipelinePreserved, PTL
<1>2. PipelineInv => OneLookupPerUser
    BY DEF PipelineInv, LookupInv, OneLookupPerUser
<1>q. QED BY <1>1, <1>2, PTL DEF Spec

-----------------------------------------------------------------------------
(***************************************************************************)
(* Order.  The queues an event passes are seen as sets: Earlier compares   *)
(* two of them, Ordered is what one of them keeps inside.                  *)
(***************************************************************************)
Earlier(A, B) == \A x \in A, y \in B : x.src = y.src => x.n < y.n
Ordered(q) == \A i, j \in DOMAIN q : i < j /\ q[i].src = q[j].src => q[i].n < q[j].n

LEMMA AppendOrder ==
    ASSUME NEW q \in Seq(Event), NEW e \in Event
    PROVE  /\ Append(q, e) \in Seq(Event)
           /\ ToSet(Append(q, e)) = ToSet(q) \cup {e}
           /\ Ordered(q) /\ Earlier(ToSet(q), {e}) => Ordered(Append(q, e))
<1> DEFINE p == Append(q, e)
<1>1. /\ p \in Seq(Event) /\ Len(q) \in Nat /\ Len(p) = Len(q) + 1
      /\ DOMAIN p = 1..Len(p) /\ DOMAIN q = 1..Len(q)
      /\ \A i \in 1..Len(q) : p[i] = q[i]
      /\ p[Len(q) + 1] = e
    BY AppendProperties, LenProperties
<1> HIDE DEF p
<1>2. ToSet(p) = ToSet(q) \cup {e}
    BY <1>1 DEF ToSet
<1>3. ASSUME Ordered(q), Earlier(ToSet(q), {e})
      PROVE  Ordered(p)
    BY <1>1, <1>3 DEF Ordered, Earlier, ToSet
<1>q. QED BY <1>1, <1>2, <1>3 DEF p

LEMMA TailOrder ==
    ASSUME NEW q \in Seq(Event), q # <<>>
    PROVE  /\ Head(q) \in Event /\ Head(q) \in ToSet(q)
           /\ Tail(q) \in Seq(Event)
           /\ ToSet(q) = ToSet(Tail(q)) \cup {Head(q)}
           /\ Ordered(q) => Ordered(Tail(q)) /\ Earlier({Head(q)}, ToSet(Tail(q)))
<1> DEFINE p == Tail(q)
           e == Head(q)
<1>1. /\ p \in Seq(Event) /\ e \in Event /\ Len(p) = Len(q) - 1
      /\ Len(q) \in Nat \ {0} /\ e = q[1]
      /\ DOMAIN p = 1..Len(p) /\ DOMAIN q = 1..Len(q)
      /\ \A i \in 1..Len(p) : p[i] = q[i + 1]
    BY HeadTailProperties, LenProperties, EmptySeq
<1> HIDE DEF p, e
<1>2. ToSet(q) = ToSet(p) \cup {e}
    <2>1. ASSUME NEW i \in 1..Len(q)
          PROVE  q[i] \in ToSet(p) \cup {e}
        <3>1. CASE i = 1
            BY <1>1, <3>1
        <3>2. CASE i # 1
            <4>1. i - 1 \in 1..Len(p) /\ p[i - 1] = q[i]
                BY <1>1, <3>2
            <4>q. QED BY <1>1, <4>1 DEF ToSet
        <3>q. QED BY <3>1, <3>2
    <2>2. ASSUME NEW i \in 1..Len(p)
          PROVE  p[i] \in ToSet(q)
        <3>1. i + 1 \in 1..Len(q) /\ p[i] = q[i + 1]
            BY <1>1
        <3>q. QED BY <1>1, <3>1 DEF ToSet
    <2>3. e \in ToSet(q)
        BY <1>1 DEF ToSet
    <2>q. QED BY <1>1, <2>1, <2>2, <2>3 DEF ToSet
<1>3. ASSUME Ordered(q)
      PROVE  Ordered(p) /\ Earlier({e}, ToSet(p))
    <2>1. \A i \in 1..Len(p) : i + 1 \in 1..Len(q) /\ p[i] = q[i + 1] /\ 1 < i + 1
        BY <1>1
    <2>2. ASSUME NEW j \in 1..Len(p), e.src = p[j].src
          PROVE  e.n < p[j].n
        <3>1. 1 \in 1..Len(q) /\ j + 1 \in 1..Len(q) /\ 1 < j + 1 /\ p[j] = q[j + 1]
            BY <1>1, <2>1
        <3>q. QED BY <1>1, <1>3, <2>2, <3>1 DEF Ordered
    <2>3. ASSUME NEW i \in 1..Len(p), NEW j \in 1..Len(p), i < j, p[i].src = p[j].src
          PROVE  p[i].n < p[j].n
        <3>1. i + 1 < j + 1
            BY <1>1, <2>3
        <3>q. QED BY <1>1, <1>3, <2>1, <2>3, <3>1 DEF Ordered
    <2>q. QED BY <1>1, <2>2, <2>3 DEF Ordered, Earlier, ToSet
<1>q. QED BY <1>1, <1>2, <1>3 DEF p, e

LEMMA SplitOrder ==
    ASSUME NEW q \in Seq(Event), NEW k \in 1..Len(q)
    PROVE  LET front == SubSeq(q, 1, k)
               rest  == SubSeq(q, k + 1, Len(q))
           IN  /\ front \in Seq(Event) /\ rest \in Seq(Event)
               /\ ToSet(q) = ToSet(front) \cup ToSet(rest)
               /\ Ordered(q) => Ordered(front) /\ Ordered(rest)
                                /\ Earlier(ToSet(front), ToSet(rest))
<1> DEFINE front == SubSeq(q, 1, k)
           rest  == SubSeq(q, k + 1, Len(q))
<1>1. Len(q) \in Nat /\ DOMAIN q = 1..Len(q) /\ \A i \in 1..Len(q) : q[i] \in Event
    BY LenProperties, ElementOfSeq
<1>2. /\ front \in Seq(Event) /\ Len(front) = k
      /\ DOMAIN front = 1..k /\ \A i \in 1..k : front[i] = q[i]
    <2>1. \A i \in 1..k : q[i] \in Event
        BY <1>1
    <2>2. /\ front \in Seq(Event) /\ Len(front) = k
          /\ \A i \in 1..k : front[i] = q[i]
        BY <2>1, SubSeqProperties
    <2>q. QED BY <2>2, LenProperties
<1>3. /\ rest \in Seq(Event) /\ Len(rest) = Len(q) - k
      /\ DOMAIN rest = 1..(Len(q) - k) /\ \A i \in 1..(Len(q) - k) : rest[i] = q[k + i]
    <2>1. \A i \in (k + 1)..Len(q) : q[i] \in Event
        BY <1>1
    <2>2. /\ rest \in Seq(Event)
          /\ Len(rest) = IF k + 1 <= Len(q) THEN Len(q) - (k + 1) + 1 ELSE 0
          /\ \A i \in 1..(Len(q) - (k + 1) + 1) : rest[i] = q[(k + 1) + i - 1]
        BY <1>1, <2>1, SubSeqProperties
    <2>3. Len(rest) = Len(q) - k /\ \A i \in 1..(Len(q) - k) : rest[i] = q[k + i]
        <3> HIDE DEF rest
        <3>1. Len(q) - (k + 1) + 1 = Len(q) - k /\ Len(q) - k \in Nat
            BY <1>1
        <3>4. \A m \in Nat : \A j \in 1..m : ~(j + 1 <= m) => m - j = 0
            OBVIOUS
        <3>2. Len(rest) = Len(q) - k
            <4>1. CASE k + 1 <= Len(q)
                <5>1. Len(rest) = Len(q) - (k + 1) + 1
                    BY <2>2, <4>1, Zenon
                <5>q. QED BY <3>1, <5>1, Zenon
            <4>2. CASE ~(k + 1 <= Len(q))
                <5>1. Len(q) - k = 0
                    BY <1>1, <3>4, <4>2, Zenon
                <5>2. Len(rest) = 0
                    BY <2>2, <4>2, Zenon
                <5>q. QED BY <5>1, <5>2, Zenon
            <4>q. QED BY <4>1, <4>2
        <3>3. ASSUME NEW i \in 1..(Len(q) - k)
              PROVE  rest[i] = q[k + i]
            <4>1. (k + 1) + i - 1 = k + i
                BY <1>1
            <4>2. i \in 1..(Len(q) - (k + 1) + 1)
                BY <3>1
            <4>3. \A j \in 1..(Len(q) - (k + 1) + 1) : rest[j] = q[(k + 1) + j - 1]
                BY <2>2, Zenon
            <4>4. rest[i] = q[(k + 1) + i - 1]
                BY <4>2, <4>3, Zenon
            <4>q. QED BY <4>1, <4>4, Zenon
        <3>q. QED BY <3>2, <3>3
    <2>q. QED BY <2>2, <2>3, LenProperties
<1> HIDE DEF front, rest
<1>4. ToSet(q) = ToSet(front) \cup ToSet(rest)
    <2>1. ASSUME NEW i \in 1..Len(q)
          PROVE  q[i] \in ToSet(front) \cup ToSet(rest)
        <3>1. CASE i <= k
            <4>1. i \in 1..k /\ front[i] = q[i]
                BY <1>1, <1>2, <3>1
            <4>q. QED BY <1>2, <4>1 DEF ToSet
        <3>2. CASE i > k
            <4>1. i - k \in 1..(Len(q) - k) /\ rest[i - k] = q[i]
                BY <1>1, <1>3, <3>2
            <4>q. QED BY <1>3, <4>1 DEF ToSet
        <3>q. QED BY <1>1, <3>1, <3>2
    <2>2. \A i \in 1..k : front[i] \in ToSet(q)
        BY <1>1, <1>2 DEF ToSet
    <2>3. ASSUME NEW i \in 1..(Len(q) - k)
          PROVE  rest[i] \in ToSet(q)
        <3>1. k + i \in 1..Len(q) /\ rest[i] = q[k + i]
            BY <1>1, <1>3
        <3>q. QED BY <1>1, <3>1 DEF ToSet
    <2>q. QED BY <1>1, <1>2, <1>3, <2>1, <2>2, <2>3 DEF ToSet
<1>5. ASSUME Ordered(q)
      PROVE  Ordered(front) /\ Ordered(rest) /\ Earlier(ToSet(front), ToSet(rest))
    <2>1. Ordered(front)
        BY <1>1, <1>2, <1>5 DEF Ordered
    <2>2. \A i \in 1..(Len(q) - k) : k + i \in 1..Len(q) /\ rest[i] = q[k + i] /\ k < k + i
        BY <1>1, <1>3
    <2>3. ASSUME NEW i \in 1..(Len(q) - k), NEW j \in 1..(Len(q) - k),
                 i < j, rest[i].src = rest[j].src
          PROVE  rest[i].n < rest[j].n
        <3>1. k + i < k + j
            BY <1>1, <2>3
        <3>q. QED BY <1>1, <1>5, <2>2, <2>3, <3>1 DEF Ordered
    <2>4. ASSUME NEW i \in 1..k, NEW j \in 1..(Len(q) - k), front[i].src = rest[j].src
          PROVE  front[i].n < rest[j].n
        <3>1. i \in 1..Len(q) /\ front[i] = q[i] /\ i < k + j
            BY <1>1, <1>2
        <3>q. QED BY <1>1, <1>5, <2>2, <2>4, <3>1 DEF Ordered
    <2>5. Earlier(ToSet(front), ToSet(rest))
        BY <1>2, <1>3, <2>4 DEF Earlier, ToSet
    <2>q. QED BY <1>3, <2>1, <2>3, <2>5 DEF Ordered
<1>q. QED BY <1>2, <1>3, <1>4, <1>5 DEF front, rest

(***************************************************************************)
(* The inductive invariant of the order: every queue is in order, whatever *)
(* is further along its way is earlier, a ring holds events of its own     *)
(* source, and no event is later than the last its source produced.        *)
(***************************************************************************)
OrderInv ==
    /\ Ordered(evaluated) /\ Ordered(channel) /\ Ordered(batch)
    /\ Earlier(ToSet(evaluated), ToSet(channel)) /\ Earlier(ToSet(evaluated), ToSet(batch))
    /\ Earlier(ToSet(channel), ToSet(batch))
    /\ \A x \in ToSet(evaluated) \cup ToSet(channel) \cup ToSet(batch) : x.n <= produced[x.src]
    /\ \A s \in Source :
        /\ Ordered(ring[s])
        /\ \A x \in ToSet(ring[s]) : x.src = s /\ x.n <= produced[s]
        /\ Earlier(ToSet(evaluated), ToSet(ring[s])) /\ Earlier(ToSet(channel), ToSet(ring[s]))
        /\ Earlier(ToSet(batch), ToSet(ring[s]))

LEMMA StampIsNat == Stamp \subseteq Nat
BY PipelineAssumption DEF Stamp

LEMMA QueuedEvents ==
    \A q \in Seq(Event) : \A x \in ToSet(q) : x.src \in Source /\ x.n \in Nat
<1> SUFFICES ASSUME NEW q \in Seq(Event), NEW i \in DOMAIN q
             PROVE  q[i].src \in Source /\ q[i].n \in Nat
    BY DEF ToSet
<1>1. q[i] \in Event
    BY LenProperties, ElementOfSeq
<1>q. QED BY <1>1, StampIsNat DEF Event

LEMMA OrderInitial == Init => OrderInv
BY DEF Init, OrderInv, Ordered, Earlier, ToSet

\* A new event is later than every event of its source that is on its way.
LEMMA OutputKeepsOrder ==
    ASSUME TypeOK, OrderInv, NEW s \in Source, NEW u \in Uid, Output(s, u),
           UNCHANGED <<batch, channel, evaluated>>
    PROVE  OrderInv'
<1> DEFINE e == [src |-> s, n |-> produced'[s], uid |-> u]
<1>0. KernelOK /\ KernelOK' /\ AgentOK
    BY Parts, OutputKeepsType
<1>1. /\ produced[s] \in Nat /\ produced'[s] = produced[s] + 1
      /\ \A r \in Source : r # s => produced'[r] = produced[r]
      /\ \A r \in Source : produced[r] \in Nat /\ produced[r] <= produced'[r]
    BY <1>0 DEF KernelOK, Output
<1>2. e \in Event /\ e.src = s /\ e.n = produced'[s]
    <2>1. produced'[s] \in 1..MaxEvents[s]
        BY <1>0, <1>1, PipelineAssumption DEF KernelOK
    <2>q. QED BY <2>1 DEF Event, Stamp
<1>3. \A q \in Seq(Event) : \A x \in ToSet(q) : x.src \in Source /\ x.n \in Nat
    BY QueuedEvents
<1>4. ring' = [ring EXCEPT ![s] = Append(ring[s], e)] \/ ring' = ring
    BY DEF Output
<1> HIDE DEF e
<1>5. \A x \in ToSet(evaluated) \cup ToSet(channel) \cup ToSet(batch) :
          x.n <= produced'[x.src] /\ (x.src = s => x.n <= produced[s])
    BY <1>0, <1>1, <1>3 DEF OrderInv, AgentOK
<1>6. ASSUME NEW r \in Source
      PROVE  /\ Ordered(ring'[r])
             /\ \A x \in ToSet(ring'[r]) : x.src = r /\ x.n <= produced'[r]
             /\ Earlier(ToSet(evaluated), ToSet(ring'[r]))
             /\ Earlier(ToSet(channel), ToSet(ring'[r]))
             /\ Earlier(ToSet(batch), ToSet(ring'[r]))
    <2>0. ring[r] \in Seq(Event) /\ \A x \in ToSet(ring[r]) : x.n \in Nat /\ x.n <= produced[r]
        BY <1>0, <1>3 DEF KernelOK, OrderInv
    <2>1. CASE ring'[r] = ring[r]
        BY <1>1, <2>0, <2>1 DEF OrderInv
    <2>2. CASE r = s /\ ring'[r] = Append(ring[r], e)
        <3>1. /\ ToSet(ring'[r]) = ToSet(ring[r]) \cup {e}
              /\ Earlier(ToSet(ring[r]), {e}) => Ordered(ring'[r])
            BY <1>2, <2>0, <2>2, AppendOrder DEF OrderInv
        <3>2. Earlier(ToSet(ring[r]), {e})
            BY <1>1, <1>2, <2>0, <2>2 DEF Earlier
        <3>3. \A x \in ToSet(ring'[r]) : x.src = r /\ x.n <= produced'[r]
            BY <1>1, <1>2, <2>0, <2>2, <3>1 DEF OrderInv
        <3>4. Earlier(ToSet(evaluated) \cup ToSet(channel) \cup ToSet(batch), {e})
            BY <1>0, <1>1, <1>2, <1>3, <1>5 DEF Earlier, AgentOK
        <3>q. QED BY <3>1, <3>2, <3>3, <3>4 DEF Earlier, OrderInv
    <2>q. QED BY <1>0, <1>4, <2>1, <2>2 DEF KernelOK
<1>7. batch' = batch /\ channel' = channel /\ evaluated' = evaluated
    OBVIOUS
<1>8. /\ Ordered(evaluated) /\ Ordered(channel) /\ Ordered(batch)
      /\ Earlier(ToSet(evaluated), ToSet(channel)) /\ Earlier(ToSet(evaluated), ToSet(batch))
      /\ Earlier(ToSet(channel), ToSet(batch))
    BY DEF OrderInv
<1>q. QED BY <1>5, <1>6, <1>7, <1>8 DEF OrderInv

\* The reader takes the front of its ring; the main task held no other batch.
LEMMA ReadBatchKeepsOrder ==
    ASSUME TypeOK, OrderInv, NEW s \in Source, ReadBatch(s)
    PROVE  /\ OrderInv'
           /\ batch = <<>> /\ ToSet(ring[s]) = ToSet(batch') \cup ToSet(ring'[s])
           /\ \A r \in Source : r # s => ring'[r] = ring[r]
<1> DEFINE k == IF Len(ring[s]) < BatchSize THEN Len(ring[s]) ELSE BatchSize
<1>1. ring[s] \in Seq(Event) /\ k \in 1..Len(ring[s]) /\ batch = <<>>
    BY EmptySeq, LenProperties, PipelineAssumption DEF TypeOK, ReadBatch
<1>2. /\ batch' = SubSeq(ring[s], 1, k)
      /\ ring' = [ring EXCEPT ![s] = SubSeq(ring[s], k + 1, Len(ring[s]))]
      /\ UNCHANGED <<produced, channel, evaluated>>
    BY DEF ReadBatch
<1> HIDE DEF k
<1>3. /\ ring'[s] = SubSeq(ring[s], k + 1, Len(ring[s]))
      /\ \A r \in Source : r # s => ring'[r] = ring[r]
    BY <1>2 DEF TypeOK
<1>4. /\ ToSet(ring[s]) = ToSet(batch') \cup ToSet(ring'[s])
      /\ Ordered(batch') /\ Ordered(ring'[s]) /\ Earlier(ToSet(batch'), ToSet(ring'[s]))
    BY <1>1, <1>2, <1>3, SplitOrder DEF OrderInv
<1>5. \A x \in ToSet(batch') : x.src = s /\ x.n <= produced[s]
    BY <1>4 DEF OrderInv
<1>6. /\ Earlier(ToSet(evaluated), ToSet(batch')) /\ Earlier(ToSet(channel), ToSet(batch'))
      /\ Earlier(ToSet(evaluated), ToSet(ring'[s])) /\ Earlier(ToSet(channel), ToSet(ring'[s]))
    BY <1>4 DEF OrderInv, Earlier
<1>7. \A r \in Source : r # s => Earlier(ToSet(batch'), ToSet(ring'[r]))
    BY <1>3, <1>5 DEF OrderInv, Earlier
<1>8. OrderInv'
    BY <1>2, <1>3, <1>4, <1>5, <1>6, <1>7 DEF OrderInv
<1>q. QED BY <1>1, <1>3, <1>4, <1>8

\* The head of the batch becomes the last of the channel.
LEMMA SendEventKeepsOrder ==
    ASSUME TypeOK, OrderInv, SendEvent
    PROVE  /\ OrderInv'
           /\ ToSet(channel') \cup ToSet(batch') = ToSet(channel) \cup ToSet(batch)
<1> DEFINE e == Head(batch)
<1>1. /\ batch \in Seq(Event) /\ batch # <<>> /\ channel \in Seq(Event)
      /\ channel' = Append(channel, e) /\ batch' = Tail(batch)
      /\ UNCHANGED <<ring, produced, evaluated>>
    BY DEF TypeOK, SendEvent, kernel
<1>2. /\ e \in Event /\ ToSet(batch) = ToSet(batch') \cup {e}
      /\ Ordered(batch') /\ Earlier({e}, ToSet(batch'))
    BY <1>1, TailOrder DEF OrderInv
<1> HIDE DEF e
<1>3. Earlier(ToSet(channel), {e})
    BY <1>2 DEF OrderInv, Earlier
<1>4. ToSet(channel') = ToSet(channel) \cup {e} /\ Ordered(channel')
    BY <1>1, <1>2, <1>3, AppendOrder DEF OrderInv
<1>5. /\ Earlier(ToSet(evaluated), ToSet(channel')) /\ Earlier(ToSet(evaluated), ToSet(batch'))
      /\ Earlier(ToSet(channel'), ToSet(batch'))
    BY <1>2, <1>4 DEF OrderInv, Earlier
<1>6. \A s \in Source : /\ Earlier(ToSet(channel'), ToSet(ring[s]))
                        /\ Earlier(ToSet(batch'), ToSet(ring[s]))
    BY <1>2, <1>4 DEF OrderInv, Earlier
<1>7. \A x \in ToSet(evaluated) \cup ToSet(channel') \cup ToSet(batch') : x.n <= produced[x.src]
    BY <1>2, <1>4 DEF OrderInv
<1>q. QED BY <1>1, <1>2, <1>4, <1>5, <1>6, <1>7 DEF OrderInv

\* The head of the channel is evaluated; nothing on its way is earlier.
LEMMA EvaluateKeepsOrder ==
    ASSUME TypeOK, OrderInv, Evaluate
    PROVE  LET e == Head(channel)
           IN  /\ OrderInv'
               /\ e \in Event /\ e \in ToSet(channel)
               /\ ToSet(evaluated') = ToSet(evaluated) \cup {e}
               /\ ToSet(channel) = ToSet(channel') \cup {e}
               /\ Earlier({e}, ToSet(channel'))
<1> DEFINE e == Head(channel)
<1>1. /\ evaluated \in Seq(Event) /\ channel # <<>> /\ channel \in Seq(Event)
      /\ evaluated' = Append(evaluated, e) /\ channel' = Tail(channel)
      /\ UNCHANGED <<ring, produced, batch>>
    BY DEF TypeOK, Evaluate, kernel, reader
<1>2. /\ e \in Event /\ e \in ToSet(channel) /\ ToSet(channel) = ToSet(channel') \cup {e}
      /\ Ordered(channel') /\ Earlier({e}, ToSet(channel'))
    BY <1>1, TailOrder DEF OrderInv
<1> HIDE DEF e
<1>3. Earlier(ToSet(evaluated), {e})
    BY <1>2 DEF OrderInv, Earlier
<1>4. ToSet(evaluated') = ToSet(evaluated) \cup {e} /\ Ordered(evaluated')
    BY <1>1, <1>2, <1>3, AppendOrder DEF OrderInv
<1>5. /\ Earlier(ToSet(evaluated'), ToSet(channel')) /\ Earlier(ToSet(evaluated'), ToSet(batch))
      /\ Earlier(ToSet(channel'), ToSet(batch))
    BY <1>2, <1>4 DEF OrderInv, Earlier
<1>6. \A s \in Source : /\ Earlier(ToSet(evaluated'), ToSet(ring[s]))
                        /\ Earlier(ToSet(channel'), ToSet(ring[s]))
    BY <1>2, <1>4 DEF OrderInv, Earlier
<1>7. \A x \in ToSet(evaluated') \cup ToSet(channel') \cup ToSet(batch) : x.n <= produced[x.src]
    BY <1>2, <1>4 DEF OrderInv
<1>8. OrderInv'
    BY <1>1, <1>2, <1>4, <1>5, <1>6, <1>7 DEF OrderInv
<1>q. QED BY <1>2, <1>4, <1>8 DEF e

LEMMA OrderPreserved == PipelineInv /\ OrderInv /\ [Next]_vars => OrderInv'
<1> SUFFICES ASSUME PipelineInv, OrderInv, [Next]_vars PROVE OrderInv'
    OBVIOUS
<1>0. TypeOK
    BY DEF PipelineInv
<1>1. ASSUME NEW s \in Source, ReadBatch(s)
      PROVE  OrderInv'
    BY <1>0, <1>1, ReadBatchKeepsOrder
<1>2. ASSUME NEW s \in Source, NEW u \in Uid, Produce(s, u)
      PROVE  OrderInv'
    BY <1>0, <1>2, OutputKeepsOrder DEF Produce, reader
<1>3. ASSUME UNCHANGED <<kernel, batch, channel, evaluated>>
      PROVE  OrderInv'
    BY <1>3 DEF kernel, OrderInv
<1>4. CASE Resolve
    <2>1. ASSUME NEW s \in ExecSource, Output(s, AgentUid)
          PROVE  OrderInv'
        BY <1>0, <1>4, <2>1, OutputKeepsOrder, PipelineAssumption DEF Resolve
    <2>q. QED BY <1>3, <1>4, <2>1 DEF Resolve
<1>5. CASE SendEvent
    BY <1>0, <1>5, SendEventKeepsOrder
<1>6. CASE Evaluate
    BY <1>0, <1>6, EvaluateKeepsOrder
<1>7. ASSUME NEW s \in Source, ReadFails(s)
      PROVE  OrderInv'
    BY <1>3, <1>7 DEF ReadFails
<1>8. CASE Yield \/ Resolved \/ Leave \/ Exit
    BY <1>3, <1>8 DEF Yield, Resolved, Leave, Exit, reader
<1>9. CASE UNCHANGED vars
    BY <1>3, <1>9 DEF vars, reader
<1>q. QED
    BY <1>1, <1>2, <1>4, <1>5, <1>6, <1>7, <1>8, <1>9 DEF Next, Reader

(***************************************************************************)
(* The Sigma engine gets the events of one source in the order they were   *)
(* produced, none twice, for any number and size of rings and batches.     *)
(* (the reader loops and the telemetry task of App::run)                   *)
(***************************************************************************)
THEOREM InOrderTheorem == Spec => []EvaluatedInOrder
<1>1. Init => PipelineInv /\ OrderInv
    BY PipelineInitial, OrderInitial
<1>2. PipelineInv /\ OrderInv /\ [Next]_vars => (PipelineInv /\ OrderInv)'
    BY PipelinePreserved, OrderPreserved
<1>3. PipelineInv /\ OrderInv => EvaluatedInOrder
    BY DEF OrderInv, Ordered, EvaluatedInOrder
<1>q. QED BY <1>1, <1>2, <1>3, PTL DEF Spec

-----------------------------------------------------------------------------
(***************************************************************************)
(* The refinement of LossyFifo: what each step does to the stamps of a     *)
(* source that were taken into its ring, and that were evaluated.          *)
(***************************************************************************)
Delivered(s) == Stamps(evaluated, s)
Accepted(s)  == Stamps(evaluated, s) \cup InFlight(s)

LEMMA StampsSplit ==
    ASSUME NEW p, NEW q, NEW r, ToSet(p) = ToSet(q) \cup ToSet(r)
    PROVE  \A s : Stamps(p, s) = Stamps(q, s) \cup Stamps(r, s)
BY DEF Stamps

LEMMA FifoStutters ==
    ASSUME \A s \in Source : Accepted(s)' = Accepted(s) /\ Delivered(s)' = Delivered(s)
    PROVE  UNCHANGED Fifo!vars
BY DEF Fifo!vars, Accepted, Delivered

LEMMA FifoAccepts ==
    ASSUME NEW s \in Source, NEW n \in Stamp, \A m \in Accepted(s) : m < n,
           Accepted(s)' = Accepted(s) \cup {n},
           \A r \in Source : /\ Delivered(r)' = Delivered(r)
                             /\ r # s => Accepted(r)' = Accepted(r)
    PROVE  Fifo!Accept(s)
BY DEF Fifo!Accept, Accepted, Delivered

LEMMA FifoDelivers ==
    ASSUME NEW s \in Source, NEW n \in Accepted(s) \ Delivered(s),
           \A m \in Accepted(s) \ Delivered(s) : n <= m,
           Delivered(s)' = Delivered(s) \cup {n},
           \A r \in Source : /\ Accepted(r)' = Accepted(r)
                             /\ r # s => Delivered(r)' = Delivered(r)
    PROVE  Fifo!Deliver(s)
<1> DEFINE A == [x \in Source |-> Stamps(evaluated, x) \cup InFlight(x)]
           D == [x \in Source |-> Stamps(evaluated, x)]
<1>1. A[s] = Accepted(s) /\ D[s] = Delivered(s)
    BY DEF Accepted, Delivered
<1>2. A' = A
    BY DEF Accepted
<1>3. D' = [D EXCEPT ![s] = D[s] \cup {n}]
    BY DEF Delivered
<1> HIDE DEF A, D
<1>4. \E m \in A[s] \ D[s] : /\ \A l \in A[s] \ D[s] : m <= l
                            /\ D' = [D EXCEPT ![s] = D[s] \cup {m}]
                            /\ UNCHANGED A
    BY <1>1, <1>2, <1>3
<1>q. QED BY <1>4 DEF Fifo!Deliver, A, D

\* An event taken into a ring is an Accept, a refused one a stutter.
LEMMA OutputMaps ==
    ASSUME TypeOK, OrderInv, NEW s \in Source, NEW u \in Uid, Output(s, u),
           UNCHANGED <<batch, channel, evaluated>>
    PROVE  Fifo!Accept(s) \/ UNCHANGED Fifo!vars
<1> DEFINE n == produced'[s]
           e == [src |-> s, n |-> n, uid |-> u]
<1>0. KernelOK /\ KernelOK' /\ AgentOK
    BY Parts, OutputKeepsType
<1>1. n = produced[s] + 1 /\ produced[s] \in Nat /\ n \in 1..MaxEvents[s]
    BY <1>0, PipelineAssumption DEF KernelOK, Output
<1>2. n \in Stamp /\ e \in Event /\ e.src = s /\ e.n = n
    BY <1>1 DEF Stamp, Event
<1>3. batch' = batch /\ channel' = channel /\ evaluated' = evaluated
    OBVIOUS
<1>4. ring' = [ring EXCEPT ![s] = Append(ring[s], e)] \/ ring' = ring
    BY DEF Output
<1> HIDE DEF n, e
<1>5. CASE ring' = ring
    <2>1. \A r \in Source : Accepted(r)' = Accepted(r) /\ Delivered(r)' = Delivered(r)
        BY <1>3, <1>5 DEF Accepted, Delivered, InFlight
    <2>q. QED BY <2>1, FifoStutters
<1>6. CASE ring' = [ring EXCEPT ![s] = Append(ring[s], e)]
    <2>1. /\ ring'[s] = Append(ring[s], e) /\ ring[s] \in Seq(Event)
          /\ \A r \in Source : r # s => ring'[r] = ring[r]
        BY <1>0, <1>6 DEF KernelOK
    <2>2. ToSet(ring'[s]) = ToSet(ring[s]) \cup {e}
        BY <1>2, <2>1, AppendOrder
    <2>3. Stamps(ring'[s], s) = Stamps(ring[s], s) \cup {n}
        BY <1>2, <2>2 DEF Stamps
    <2>4. Accepted(s)' = Accepted(s) \cup {n}
        BY <1>3, <2>3 DEF Accepted, InFlight
    <2>5. \A r \in Source : /\ Delivered(r)' = Delivered(r)
                            /\ r # s => Accepted(r)' = Accepted(r)
        BY <1>3, <2>1 DEF Accepted, Delivered, InFlight
    <2>6. ASSUME NEW m \in Accepted(s)
          PROVE  m < n
        <3>1. PICK x \in ToSet(evaluated) \cup ToSet(channel) \cup ToSet(batch) \cup ToSet(ring[s]) :
                  x.src = s /\ x.n = m
            BY DEF Accepted, Delivered, InFlight, Stamps
        <3>2. x.n \in Nat
            BY <1>0, <2>1, <3>1, QueuedEvents DEF AgentOK
        <3>3. x.n <= produced[s]
            BY <3>1 DEF OrderInv
        <3>q. QED BY <1>1, <3>1, <3>2, <3>3
    <2>q. QED BY <1>2, <2>4, <2>5, <2>6, FifoAccepts
<1>q. QED BY <1>4, <1>5, <1>6

\* Evaluating the head of the channel delivers the least stamp that waits.
LEMMA EvaluateMaps ==
    ASSUME TypeOK, OrderInv, Evaluate
    PROVE  \E s \in Source : Fifo!Deliver(s)
<1> DEFINE e == Head(channel)
<1>1. /\ e \in Event /\ e \in ToSet(channel)
      /\ ToSet(evaluated') = ToSet(evaluated) \cup {e}
      /\ ToSet(channel) = ToSet(channel') \cup {e}
      /\ Earlier({e}, ToSet(channel'))
    BY EvaluateKeepsOrder
<1>2. batch' = batch /\ ring' = ring
    BY DEF Evaluate, kernel, reader
<1> HIDE DEF e
<1>3. PICK s \in Source, n \in Nat : e.src = s /\ e.n = n
    BY <1>1, StampIsNat DEF Event
<1>4. Delivered(s)' = Delivered(s) \cup {n}
    BY <1>1, <1>3 DEF Delivered, Stamps
<1>5. \A r \in Source : r # s => Delivered(r)' = Delivered(r)
    BY <1>1, <1>3 DEF Delivered, Stamps
<1>6. ASSUME NEW r \in Source
      PROVE  Accepted(r)' = Accepted(r)
    <2>1. Stamps(evaluated', r) \cup Stamps(channel', r) = Stamps(evaluated, r) \cup Stamps(channel, r)
        BY <1>1 DEF Stamps
    <2>q. QED BY <1>2, <2>1 DEF Accepted, InFlight
<1>7. n \in Accepted(s) \ Delivered(s)
    <2>1. n \in Accepted(s)
        BY <1>1, <1>3 DEF Accepted, InFlight, Stamps
    <2>2. ASSUME NEW x \in ToSet(evaluated), x.src = s
          PROVE  x.n # n
        <3>1. x.n < n /\ x.n \in Nat
            BY <1>1, <1>3, <2>2, QueuedEvents DEF OrderInv, Earlier, TypeOK
        <3>q. QED BY <3>1
    <2>q. QED BY <2>1, <2>2 DEF Delivered, Stamps
<1>8. ASSUME NEW m \in Accepted(s) \ Delivered(s)
      PROVE  n <= m
    <2>1. PICK x \in ToSet(channel) \cup ToSet(batch) \cup ToSet(ring[s]) : x.src = s /\ x.n = m
        BY DEF Accepted, Delivered, InFlight, Stamps
    <2>2. x.n \in Nat
        BY <2>1, QueuedEvents DEF TypeOK
    <2>3. x = e \/ e.n < x.n
        BY <1>1, <1>3, <2>1 DEF OrderInv, Earlier
    <2>q. QED BY <1>3, <2>1, <2>2, <2>3
<1>9. Fifo!Deliver(s)
    BY <1>4, <1>5, <1>6, <1>7, <1>8, FifoDelivers
<1>q. QED BY <1>9

LEMMA FifoInitial == Init => Fifo!Init
<1> SUFFICES ASSUME Init PROVE Fifo!Init
    OBVIOUS
<1>1. \A s : Stamps(<<>>, s) = {}
    BY DEF Stamps, ToSet
<1>2. \A s \in Source : Accepted(s) = {} /\ Delivered(s) = {}
    BY <1>1 DEF Init, Accepted, Delivered, InFlight
<1>q. QED BY <1>2 DEF Fifo!Init, Accepted, Delivered

LEMMA FifoStep == PipelineInv /\ OrderInv /\ [Next]_vars => [Fifo!Next]_(Fifo!vars)
<1> SUFFICES ASSUME PipelineInv, OrderInv, [Next]_vars PROVE [Fifo!Next]_(Fifo!vars)
    OBVIOUS
<1>0. TypeOK
    BY DEF PipelineInv
<1>1. ASSUME NEW s \in Source, ReadBatch(s)
      PROVE  UNCHANGED Fifo!vars
    <2>1. /\ batch = <<>> /\ ToSet(ring[s]) = ToSet(batch') \cup ToSet(ring'[s])
          /\ \A r \in Source : r # s => ring'[r] = ring[r]
          /\ evaluated' = evaluated /\ channel' = channel
        BY <1>0, <1>1, ReadBatchKeepsOrder DEF ReadBatch
    <2>2. \A r : Stamps(batch, r) = {}
        BY <2>1 DEF Stamps, ToSet
    <2>3. ASSUME NEW r \in Source
          PROVE  Stamps(batch', r) \cup Stamps(ring'[r], r) = Stamps(batch, r) \cup Stamps(ring[r], r)
        <3>1. CASE r = s
            <4>1. Stamps(ring[s], r) = Stamps(batch', r) \cup Stamps(ring'[s], r)
                BY <2>1, StampsSplit
            <4>q. QED BY <2>2, <3>1, <4>1
        <3>2. CASE r # s
            <4>1. \A x \in ToSet(batch') : x.src # r
                BY <2>1, <3>2 DEF OrderInv
            <4>q. QED BY <2>1, <2>2, <3>2, <4>1 DEF Stamps
        <3>q. QED BY <3>1, <3>2
    <2>4. \A r \in Source : Accepted(r)' = Accepted(r) /\ Delivered(r)' = Delivered(r)
        BY <2>1, <2>3 DEF Accepted, Delivered, InFlight
    <2>q. QED BY <2>4, FifoStutters
<1>2. ASSUME NEW s \in Source, NEW u \in Uid, Produce(s, u)
      PROVE  Fifo!Accept(s) \/ UNCHANGED Fifo!vars
    BY <1>0, <1>2, OutputMaps DEF Produce, reader
<1>3. ASSUME UNCHANGED <<kernel, batch, channel, evaluated>>
      PROVE  UNCHANGED Fifo!vars
    <2>1. \A r \in Source : Accepted(r)' = Accepted(r) /\ Delivered(r)' = Delivered(r)
        BY <1>3 DEF kernel, Accepted, Delivered, InFlight
    <2>q. QED BY <2>1, FifoStutters
<1>4. CASE Resolve
    <2>1. ASSUME NEW s \in ExecSource, Output(s, AgentUid)
          PROVE  s \in Source /\ (Fifo!Accept(s) \/ UNCHANGED Fifo!vars)
        BY <1>0, <1>4, <2>1, OutputMaps, PipelineAssumption DEF Resolve
    <2>2. CASE UNCHANGED kernel
        BY <1>3, <1>4, <2>2 DEF Resolve
    <2>q. QED BY <1>4, <2>1, <2>2 DEF Resolve, Fifo!Next
<1>5. CASE SendEvent
    <2>1. /\ ToSet(channel') \cup ToSet(batch') = ToSet(channel) \cup ToSet(batch)
          /\ ring' = ring /\ evaluated' = evaluated
        BY <1>0, <1>5, SendEventKeepsOrder DEF SendEvent, kernel
    <2>2. \A r \in Source : Stamps(channel', r) \cup Stamps(batch', r)
                                = Stamps(channel, r) \cup Stamps(batch, r)
        BY <2>1 DEF Stamps
    <2>3. \A r \in Source : Accepted(r)' = Accepted(r) /\ Delivered(r)' = Delivered(r)
        BY <2>1, <2>2 DEF Accepted, Delivered, InFlight
    <2>q. QED BY <2>3, FifoStutters
<1>6. CASE Evaluate
    BY <1>0, <1>6, EvaluateMaps DEF Fifo!Next
<1>7. ASSUME NEW s \in Source, ReadFails(s)
      PROVE  UNCHANGED Fifo!vars
    BY <1>3, <1>7 DEF ReadFails
<1>8. CASE Yield \/ Resolved \/ Leave \/ Exit
    BY <1>3, <1>8 DEF Yield, Resolved, Leave, Exit, reader
<1>9. CASE UNCHANGED vars
    BY <1>3, <1>9 DEF vars, reader
<1>q. QED
    BY <1>1, <1>2, <1>4, <1>5, <1>6, <1>7, <1>8, <1>9 DEF Next, Reader, Fifo!Next

(***************************************************************************)
(* The pipeline implements LossyFifo: from its ring to the Sigma engine no *)
(* event is overtaken, lost or delivered twice.  (App::run, telemetry)     *)
(***************************************************************************)
THEOREM FifoTheorem == Spec => SourceOrderKept
<1>1. Init => PipelineInv /\ OrderInv
    BY PipelineInitial, OrderInitial
<1>2. PipelineInv /\ OrderInv /\ [Next]_vars => (PipelineInv /\ OrderInv)'
    BY PipelinePreserved, OrderPreserved
<1>q. QED
    BY <1>1, <1>2, FifoInitial, FifoStep, PTL DEF Spec, SourceOrderKept, Fifo!Spec
===============================================================================
