-------------------------- MODULE AlertSinkProofs --------------------------
(***************************************************************************)
(* For any number of alerts, any batch size and any number of restarts:    *)
(* the sinks keep the promise of AlertLog, and a restart of syslogd wastes *)
(* at most one batch.                                                      *)
(***************************************************************************)
EXTENDS AlertSink, TLAPS

\* The alert a step emits is the one that follows the last written.
Numbered == Len(stdout) = raised - pending

(***************************************************************************)
(* What a restart has left to cost: one batch, as long as the connection   *)
(* is one to an earlier syslogd, or the batch that found out is not over.  *)
(***************************************************************************)
Stale   == syslog # None /\ syslog # starts
Charged == pending > 0 /\ steady /\ hurt

IInv ==
    /\ TypeOK
    /\ Numbered
    /\ steady /\ pending > 0 => up
    /\ pending > 0 /\ hurt => syslog = None
    /\ pending > 0 /\ steady /\ syslog = None => hurt
    /\ wasted + (IF Stale \/ Charged THEN 1 ELSE 0) <= starts

\* Nothing raised, and either no connection or one to the running syslogd.
LEMMA InitIInv == Init => IInv
<1> SUFFICES ASSUME Init PROVE IInv
  OBVIOUS
<1>1. syslog \in 0..starts \cup {None} /\ ~Stale
  BY DEF Init, Stale
<1>2. stdout \in Seq(Nat) /\ logged \in Seq(Nat) /\ Len(stdout) = 0
  BY DEF Init
<1>3. TypeOK
  <2>1. up \in BOOLEAN /\ steady \in BOOLEAN /\ hurt \in BOOLEAN
    BY Zenon DEF Init
  <2>2. starts \in Nat /\ raised \in Nat /\ pending \in 0..raised /\ wasted \in Nat
    BY DEF Init
  <2> QED
    BY <1>1, <1>2, <2>1, <2>2 DEF TypeOK
<1>4. Numbered
  BY <1>2 DEF Init, Numbered
<1> QED
  BY <1>1, <1>3, <1>4 DEF Init, IInv, Charged

\* Each step keeps the invariant: one step per action.
LEMMA NextIInv == IInv /\ [Next]_vars => IInv'
<1> SUFFICES ASSUME IInv, [Next]_vars PROVE IInv'
  OBVIOUS
<1> USE SinkAssumption DEF SinkAssumption
<1>1. ASSUME NEW k \in 1..MaxBatch, TakeBatch(k) PROVE IInv'
  <2>1. k \in Nat \ {0}
    OBVIOUS
  <2>2. raised' \in Nat /\ pending' \in 0..raised'
    BY <1>1, <2>1 DEF IInv, TypeOK, TakeBatch
  <2>3. syslog' \in 0..starts' \cup {None}
    BY <1>1 DEF IInv, TypeOK, TakeBatch, syslogd
  <2>4. TypeOK'
    BY <1>1, <2>2, <2>3 DEF IInv, TypeOK, TakeBatch, syslogd
  <2>5. Numbered'
    BY <1>1, <2>1 DEF IInv, TypeOK, Numbered, TakeBatch
  <2> QED
    BY <1>1, <2>1, <2>4, <2>5 DEF IInv, TypeOK, TakeBatch, syslogd, Stale, Charged
<1>2. ASSUME Write, UNCHANGED steady, stdout' \in Seq(Nat)
      PROVE  Numbered' /\ raised' \in Nat /\ pending' \in 0..raised'
  BY <1>2 DEF IInv, TypeOK, Numbered, Write, syslogd
<1>3. ASSUME Write PROVE stdout' \in Seq(Nat)
  BY <1>3 DEF IInv, TypeOK, Write
<1>4. CASE Send
  <2>1. TypeOK' /\ Numbered'
    <3>1. logged' \in Seq(Nat)
      BY <1>4 DEF IInv, TypeOK, Send
    <3> QED
      BY <1>2, <1>3, <1>4, <3>1 DEF IInv, TypeOK, Send, Write, Account, syslogd
  <2> QED
    BY <1>4, <2>1
       DEF IInv, TypeOK, Send, Write, Account, Live, syslogd, Stale, Charged
<1>5. CASE SendFails
  <2>1. TypeOK' /\ Numbered'
    BY <1>2, <1>3, <1>5 DEF IInv, TypeOK, SendFails, Write, Account, syslogd
  <2> QED
    BY <1>5, <2>1
       DEF IInv, TypeOK, SendFails, Write, Account, Live, syslogd, Stale, Charged
<1>6. CASE WriteOnly
  <2>1. TypeOK' /\ Numbered'
    BY <1>2, <1>3, <1>6 DEF IInv, TypeOK, WriteOnly, Write, Account, syslogd
  <2> QED
    BY <1>6, <2>1
       DEF IInv, TypeOK, WriteOnly, Write, Account, syslogd, Stale, Charged
<1>7. CASE SyslogdStops
  <2>1. TypeOK' /\ Numbered'
    BY <1>7 DEF IInv, TypeOK, Numbered, SyslogdStops, agent
  <2>2. ~Charged' /\ (Stale' => Stale) /\ UNCHANGED <<wasted, starts>>
    BY <1>7 DEF SyslogdStops, agent, Stale, Charged
  <2>3. wasted' + (IF Stale' \/ Charged' THEN 1 ELSE 0) <= starts'
    BY <2>2 DEF IInv, TypeOK
  <2> QED
    BY <1>7, <2>1, <2>3 DEF IInv, SyslogdStops, agent
<1>8. CASE SyslogdStarts
  BY <1>8 DEF IInv, TypeOK, Numbered, SyslogdStarts, agent, history, Stale, Charged
<1>9. CASE UNCHANGED vars
  BY <1>9 DEF vars, agent, syslogd, history, IInv, TypeOK, Numbered, Stale, Charged
<1> QED
  BY <1>1, <1>4, <1>5, <1>6, <1>7, <1>8, <1>9 DEF Next, Emit

\* The invariant holds of every behaviour of the sink.
LEMMA Invariant == Spec => []IInv
BY InitIInv, NextIInv, PTL DEF Spec

(***************************************************************************)
(* A restart of syslogd wastes at most one batch that could have been      *)
(* logged.                                                                 *)
(***************************************************************************)
THEOREM OneBatchTheorem == Spec => [](TypeOK /\ OneBatchPerRestart)
<1>1. IInv => TypeOK /\ OneBatchPerRestart
  BY DEF IInv, OneBatchPerRestart, TypeOK
<1> QED
  BY <1>1, Invariant, PTL

(***************************************************************************)
(* The sink implements AlertLog: every emission writes the next alert to   *)
(* standard output, and to syslog the same alert or none; every other step *)
(* touches neither.                                                        *)
(***************************************************************************)
THEOREM SinkImplementsLog == Spec => LogPromise
<1>1. Init => Log!Init
  BY DEF Init, Log!Init
<1>2. IInv /\ [Next]_vars => [Log!Alert]_Log!vars
  <2> SUFFICES ASSUME IInv, [Next]_vars PROVE [Log!Alert]_Log!vars
    OBVIOUS
  <2>1. ASSUME Write PROVE stdout' = Append(stdout, Len(stdout) + 1)
    BY <2>1 DEF IInv, TypeOK, Numbered, Write
  <2>2. CASE Send
    BY <2>1, <2>2 DEF Send, Write, IInv, TypeOK, Numbered, Log!Alert
  <2>3. CASE SendFails
    BY <2>1, <2>3 DEF SendFails, Log!Alert
  <2>4. CASE WriteOnly
    BY <2>1, <2>4 DEF WriteOnly, Log!Alert
  <2>5. CASE ~Emit
    BY <2>5 DEF Next, vars, TakeBatch, SyslogdStops, SyslogdStarts, Log!vars
  <2> QED
    BY <2>2, <2>3, <2>4, <2>5 DEF Emit
<1> QED
  BY <1>1, <1>2, Invariant, PTL DEF Spec, LogPromise, Log!Spec
=============================================================================
