----------------------------- MODULE AlertSink -----------------------------
(***************************************************************************)
(* The end of Engine::process_event (agent/engine.rs): the Sigma matches   *)
(* of one event are a batch of alerts; each is written to standard output  *)
(* and sent to syslog over a connection that is opened once per batch at   *)
(* most, while syslogd may stop and start at any moment.  A connection     *)
(* belongs to the syslogd it was opened to and is dead after a restart.    *)
(***************************************************************************)
EXTENDS Integers, Sequences

CONSTANTS
    None,       \* no connection
    MaxAlerts,  \* bound on the alerts raised
    MaxBatch,   \* bound on the matches of one event
    MaxStarts   \* bound on the times syslogd starts

ASSUME SinkAssumption ==
    MaxAlerts \in Nat /\ MaxBatch \in Nat /\ MaxStarts \in Nat /\ None \notin Nat

VARIABLES
    syslog,   \* the Option<SyslogWriter>: None, or the syslogd it is connected to
    raised,   \* alerts raised so far
    pending,  \* those of the current batch not yet emitted
    up,       \* is syslogd running?
    starts,   \* how many times syslogd has started: the one that runs now
    stdout, logged,  \* what each sink has got
    steady,   \* syslogd has been up ever since the batch was taken
    hurt,     \* an alert of the batch did not reach syslog
    wasted    \* batches that lost an alert though syslogd was up all along

agent   == <<syslog, raised, pending>>
syslogd == <<up, starts>>
history == <<steady, hurt, wasted>>
vars    == <<agent, syslogd, stdout, logged, history>>

Live == up /\ syslog = starts

Init ==
    /\ up \in BOOLEAN /\ starts = 0
    /\ syslog = IF up THEN 0 ELSE None      \* connect_syslog in Engine::new
    /\ raised = 0 /\ pending = 0
    /\ stdout = <<>> /\ logged = <<>>
    /\ steady = up /\ hurt = FALSE /\ wasted = 0

\* Mutated: a lost connection is never opened again.
TakeBatchNoReconnect(k) ==
    /\ pending = 0
    /\ raised + k <= MaxAlerts
    /\ raised' = raised + k /\ pending' = k
    /\ steady' = up /\ hurt' = FALSE
    /\ UNCHANGED <<syslog, syslogd, stdout, logged, wasted>>

\* An event with k matches; without a connection one attempt is made to get it.
TakeBatch(k) ==
    /\ pending = 0
    /\ raised + k <= MaxAlerts
    /\ raised' = raised + k /\ pending' = k
    /\ syslog' = IF syslog = None /\ up THEN starts ELSE syslog
    /\ steady' = up /\ hurt' = FALSE
    /\ UNCHANGED <<syslogd, stdout, logged, wasted>>

\* Bookkeeping of one alert that did or did not reach syslog.
Account(missed) ==
    /\ hurt' = (hurt \/ missed)
    /\ wasted' = wasted + IF pending = 1 /\ steady /\ hurt' THEN 1 ELSE 0
    /\ steady' = steady

\* Mutated: one alert more than the batch has.
WriteOneMore ==
    /\ pending >= 0 /\ raised > 0
    /\ stdout' = Append(stdout, raised - pending + 1)
    /\ pending' = pending - 1
    /\ UNCHANGED <<raised, syslogd>>

Write ==
    /\ pending > 0
    /\ stdout' = Append(stdout, raised - pending + 1)
    /\ pending' = pending - 1
    /\ UNCHANGED <<raised, syslogd>>

Send ==
    /\ Write
    /\ Live
    /\ logged' = Append(logged, raised - pending + 1)
    /\ Account(FALSE)
    /\ UNCHANGED syslog

\* Mutated: the rest of the batch waits, the failed alert is sent again.
SendFailsAndRetries ==
    /\ pending > 0
    /\ syslog # None /\ ~Live
    /\ stdout' = Append(stdout, raised - pending + 1)
    /\ syslog' = None
    /\ Account(TRUE)
    /\ UNCHANGED <<raised, pending, syslogd, logged>>

\* Mutated: a failed send ends the batch.
SendFailsAndReturns ==
    /\ pending > 0
    /\ stdout' = Append(stdout, raised - pending + 1)
    /\ pending' = 0
    /\ syslog # None /\ ~Live
    /\ syslog' = None
    /\ Account(TRUE)
    /\ UNCHANGED <<raised, syslogd, logged>>

\* The socket died: the connection is dropped.
SendFails ==
    /\ Write
    /\ syslog # None /\ ~Live
    /\ syslog' = None
    /\ Account(TRUE)
    /\ UNCHANGED logged

\* No connection for the rest of the batch.
WriteOnly ==
    /\ Write
    /\ syslog = None
    /\ Account(TRUE)
    /\ UNCHANGED <<syslog, logged>>

SyslogdStops ==
    /\ up
    /\ up' = FALSE /\ steady' = FALSE
    /\ UNCHANGED <<agent, starts, stdout, logged, hurt, wasted>>

SyslogdStarts ==
    /\ ~up /\ starts < MaxStarts
    /\ up' = TRUE /\ starts' = starts + 1
    /\ UNCHANGED <<agent, stdout, logged, history>>

Emit == Send \/ SendFails \/ WriteOnly
Next ==
    \/ \E k \in 1..MaxBatch : TakeBatch(k)
    \/ Emit
    \/ SyslogdStops \/ SyslogdStarts

(***************************************************************************)
(* The telemetry task finishes the batch it is in: the loop awaits nothing. *)
(* That println! and the send to the syslog socket return is assumed: on a *)
(* terminal or pipe nobody reads, or a full socket queue, they may block.  *)
(***************************************************************************)
Spec == Init /\ [][Next]_vars /\ WF_vars(Emit)

-----------------------------------------------------------------------------
\* Every variable stays in its type.
TypeOK ==
    /\ syslog \in 0..starts \cup {None} /\ up \in BOOLEAN /\ starts \in Nat
    /\ raised \in Nat /\ pending \in 0..raised
    /\ stdout \in Seq(Nat) /\ logged \in Seq(Nat)
    /\ steady \in BOOLEAN /\ hurt \in BOOLEAN /\ wasted \in Nat

(***************************************************************************)
(* The sinks keep their promise whatever syslogd does: see AlertLog.       *)
(***************************************************************************)
Log == INSTANCE AlertLog
LogPromise == Log!Spec

(***************************************************************************)
(* A restart of syslogd costs at most one batch that could have been       *)
(* logged: the failed send drops the dead connection and the next batch    *)
(* opens a new one, "instead of failing forever" (process_event).          *)
(***************************************************************************)
OneBatchPerRestart == wasted <= starts

(***************************************************************************)
(* Every alert raised is on standard output in the end, syslogd or not.    *)
(***************************************************************************)
EveryAlertWritten ==
    \A n \in 1..MaxAlerts : raised >= n ~> Len(stdout) >= n

(***************************************************************************)
(* What the comments of Engine.syslog and process_event say: without a     *)
(* connection the next alert retries it.  Stated where it is easiest: with *)
(* syslogd up since before the batch.  It is the next batch that retries.  *)
(***************************************************************************)
NextAlertRetries ==
    [][syslog = None /\ steady /\ stdout' # stdout => syslog' # None]_vars
=============================================================================
