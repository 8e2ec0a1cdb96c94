--------------------------- MODULE EventPipeline ---------------------------
(***************************************************************************)
(* The way of an event from a probe to the Sigma engine (agent/app.rs,     *)
(* agent/user.rs): a perf ring per CPU and probe, one reader loop per ring,*)
(* all of them polled by the main task, the user-name cache they share, an *)
(* unbounded channel, and the telemetry task that evaluates events.        *)
(*                                                                         *)
(* A reader gives the main task back only at read_events().await, and only *)
(* when its ring is empty: on a ring with events the await is ready at     *)
(* once.  Until then no other reader runs and no ctrl_c is seen, while the *)
(* kernel goes on filling rings and the telemetry task emptying the        *)
(* channel.                                                                *)
(***************************************************************************)
EXTENDS Integers, SequencesExt

CONSTANTS
    Source,       \* one probe on one CPU: a perf ring and its reader loop
    ExecSource,   \* the sources of the execve probe
    Uid,          \* user ids
    AgentUid,     \* the agent's own
    NoName,       \* not in the cache
    Idle,         \* no reader holds the main task
    RingSize,     \* events a ring holds
    BatchSize,    \* buffers passed to read_events
    MaxEvents     \* bound on the events produced, per source

ASSUME PipelineAssumption ==
    /\ ExecSource \subseteq Source /\ AgentUid \in Uid /\ Idle \notin Source
    /\ NoName \notin {"known", "unknown"}
    /\ RingSize \in Nat \ {0} /\ BatchSize \in Nat \ {0} /\ MaxEvents \in [Source -> Nat]

VARIABLES
    ring,       \* per source, events accepted and not yet read
    produced,   \* per source, events the probe tried to output
    closed,     \* the sources whose reader loop has ended on an error
    turn,       \* the source whose reader holds the main task, or Idle
    batch,      \* the events of its batch still to be sent
    resolving,  \* its first event waits for `id -nu`
    cache,      \* user name per uid: NoName, "known" or "unknown"
    lookups,    \* how often `id` was run per uid
    channel,    \* the unbounded channel
    evaluated,  \* what the Sigma engine was given
    agent       \* "running", "exiting", "exited"

kernel == <<ring, produced>>
reader == <<closed, turn, batch, resolving, cache, lookups>>
vars   == <<kernel, reader, channel, evaluated, agent>>

Init ==
    /\ ring = [s \in Source |-> <<>>]
    /\ produced = [s \in Source |-> 0]
    /\ closed = {} /\ turn = Idle /\ batch = <<>> /\ resolving = FALSE
    /\ cache = [u \in Uid |-> NoName] /\ lookups = [u \in Uid |-> 0]
    /\ channel = <<>> /\ evaluated = <<>>
    /\ agent = "running"

\* PerfEventArray::output: a full ring refuses the event.
Output(s, u) ==
    /\ produced[s] < MaxEvents[s]
    /\ produced' = [produced EXCEPT ![s] = @ + 1]
    /\ ring' = IF Len(ring[s]) < RingSize
               THEN [ring EXCEPT ![s] = Append(@, [src |-> s, n |-> produced'[s], uid |-> u])]
               ELSE ring

Produce(s, u) ==
    /\ agent = "running"
    /\ Output(s, u)
    /\ UNCHANGED <<reader, channel, evaluated, agent>>

\* Mutated: a reader is woken for a full batch only.
ReadBatchFull(s) ==
    /\ agent = "running" /\ turn \in {Idle, s} /\ batch = <<>>
    /\ s \notin closed /\ Len(ring[s]) >= BatchSize
    /\ batch' = SubSeq(ring[s], 1, BatchSize)
    /\ ring' = [ring EXCEPT ![s] = SubSeq(@, BatchSize + 1, Len(@))]
    /\ turn' = s
    /\ UNCHANGED <<produced, closed, resolving, cache, lookups, channel, evaluated, agent>>

(***************************************************************************)
(* read_events().await returns a batch of at most BatchSize events, to a   *)
(* reader that is polled anew or to the one that still holds the task.     *)
(***************************************************************************)
ReadBatch(s) ==
    /\ agent = "running" /\ turn \in {Idle, s} /\ batch = <<>>
    /\ s \notin closed /\ ring[s] # <<>>
    /\ LET k == IF Len(ring[s]) < BatchSize THEN Len(ring[s]) ELSE BatchSize
       IN  /\ batch' = SubSeq(ring[s], 1, k)
           /\ ring' = [ring EXCEPT ![s] = SubSeq(@, k + 1, Len(@))]
    /\ turn' = s
    /\ UNCHANGED <<produced, closed, resolving, cache, lookups, channel, evaluated, agent>>

\* read_events().await fails: this loop ends, the agent goes on without it.
ReadFails(s) ==
    /\ agent = "running" /\ turn \in {Idle, s} /\ batch = <<>> /\ s \notin closed
    /\ closed' = closed \cup {s}
    /\ turn' = Idle
    /\ UNCHANGED <<kernel, batch, resolving, cache, lookups, channel, evaluated, agent>>

\* read_events().await suspends the reader, for its ring has nothing to read.
Yield ==
    /\ turn # Idle /\ batch = <<>> /\ ring[turn] = <<>>
    /\ turn' = Idle
    /\ UNCHANGED <<kernel, closed, batch, resolving, cache, lookups, channel, evaluated, agent>>

\* get_user misses: `id` is run, itself a program execution the probes report.
Resolve ==
    /\ batch # <<>> /\ ~resolving
    /\ LET u == Head(batch).uid
       IN  /\ cache[u] = NoName
           /\ lookups' = [lookups EXCEPT ![u] = @ + 1]
    /\ resolving' = TRUE
    /\ \/ UNCHANGED kernel
       \/ \E s \in ExecSource : Output(s, AgentUid)
    /\ UNCHANGED <<closed, turn, batch, cache, channel, evaluated, agent>>

\* Mutated: a failed lookup leaves no trace in the cache.
ResolvedKnownOnly ==
    /\ resolving
    /\ resolving' = FALSE
    /\ cache' \in {cache, [cache EXCEPT ![Head(batch).uid] = "known"]}
    /\ UNCHANGED <<kernel, closed, turn, batch, lookups, channel, evaluated, agent>>

\* The answer, or "unknown" when there is none, is cached for good.
Resolved ==
    /\ resolving
    /\ resolving' = FALSE
    /\ \E name \in {"known", "unknown"} : cache' = [cache EXCEPT ![Head(batch).uid] = name]
    /\ UNCHANGED <<kernel, closed, turn, batch, lookups, channel, evaluated, agent>>

\* Mutated: the reader gives the task back behind every event.
SendEventYields ==
    /\ batch # <<>> /\ ~resolving
    /\ cache[Head(batch).uid] # NoName
    /\ channel' = Append(channel, Head(batch))
    /\ batch' = Tail(batch)
    /\ turn' = Idle
    /\ UNCHANGED <<kernel, closed, resolving, cache, lookups, evaluated, agent>>

\* The event is built and sent.
SendEvent ==
    /\ batch # <<>> /\ ~resolving
    /\ cache[Head(batch).uid] # NoName
    /\ channel' = Append(channel, Head(batch))
    /\ batch' = Tail(batch)
    /\ UNCHANGED <<kernel, closed, turn, resolving, cache, lookups, evaluated, agent>>

\* Mutated: what was evaluated stays in the channel once more.
EvaluateTwice ==
    /\ agent # "exited" /\ channel # <<>>
    /\ evaluated' = Append(evaluated, Head(channel))
    /\ channel' \in {channel, Tail(channel)}
    /\ UNCHANGED <<kernel, reader, agent>>

\* Mutated: the newest event first.
EvaluateLast ==
    /\ agent # "exited" /\ channel # <<>>
    /\ evaluated' = Append(evaluated, Last(channel))
    /\ channel' = Front(channel)
    /\ UNCHANGED <<kernel, reader, agent>>

\* The telemetry task; it may get a little further after run has returned.
Evaluate ==
    /\ agent # "exited" /\ channel # <<>>
    /\ evaluated' = Append(evaluated, Head(channel))
    /\ channel' = Tail(channel)
    /\ UNCHANGED <<kernel, reader, agent>>

\* ctrl_c is seen, or every reader has ended: only while no reader runs.
Leave ==
    /\ agent = "running" /\ turn = Idle
    /\ agent' = "exiting"
    /\ UNCHANGED <<kernel, reader, channel, evaluated>>

\* The runtime is dropped, with whatever the channel still holds.
Exit ==
    /\ agent = "exiting"
    /\ agent' = "exited"
    /\ UNCHANGED <<kernel, reader, channel, evaluated>>

Reader == Resolve \/ Resolved \/ SendEvent
Next ==
    \/ \E s \in Source : ReadBatch(s) \/ ReadFails(s) \/ \E u \in Uid : Produce(s, u)
    \/ Yield \/ Reader \/ Evaluate \/ Leave \/ Exit

(***************************************************************************)
(* The main task goes on while any reader can, and the telemetry task is   *)
(* scheduled beside it.  Which of several woken readers is polled is left  *)
(* open: one that is refilled as fast as it reads keeps the task for ever. *)
(***************************************************************************)
MainTask == Reader \/ Yield \/ \E s \in Source : ReadBatch(s)

Fairness == WF_vars(MainTask) /\ WF_vars(Evaluate)

Spec == Init /\ [][Next]_vars /\ Fairness

-----------------------------------------------------------------------------
Stamp == UNION {1..MaxEvents[s] : s \in Source}
Event == [src : Source, n : Stamp, uid : Uid]

\* Every variable stays in its type; a reader with a batch holds the task.
TypeOK ==
    /\ ring \in [Source -> Seq(Event)] /\ produced \in [Source -> Nat]
    /\ \A s \in Source : Len(ring[s]) <= RingSize /\ produced[s] \in 0..MaxEvents[s]
    /\ closed \subseteq Source /\ turn \in Source \cup {Idle}
    /\ batch \in Seq(Event) /\ (batch # <<>> => turn # Idle)
    /\ resolving \in BOOLEAN /\ (resolving => batch # <<>>)
    /\ cache \in [Uid -> {NoName, "known", "unknown"}] /\ lookups \in [Uid -> Nat]
    /\ channel \in Seq(Event) /\ evaluated \in Seq(Event)
    /\ agent \in {"running", "exiting", "exited"}

\* The stamps of the events of one source.
Stamps(events, s) == {e.n : e \in {x \in ToSet(events) : x.src = s}}

InFlight(s) == Stamps(channel, s) \cup Stamps(batch, s) \cup Stamps(ring[s], s)

(***************************************************************************)
(* From its ring to the Sigma engine an event of one source is neither     *)
(* overtaken by a later one of that source nor lost: the only losses are   *)
(* refused outputs, ended readers and the exit.  Ring, batch, channel and  *)
(* engine together implement LossyFifo.                                    *)
(***************************************************************************)
Fifo == INSTANCE LossyFifo WITH
            Stamp     <- Stamp,
            accepted  <- [s \in Source |-> Stamps(evaluated, s) \cup InFlight(s)],
            delivered <- [s \in Source |-> Stamps(evaluated, s)]
SourceOrderKept == Fifo!Spec

(***************************************************************************)
(* The Sigma engine gets the events of one source in the order they were   *)
(* produced, and none of them twice.                                       *)
(***************************************************************************)
EvaluatedInOrder ==
    \A i, j \in DOMAIN evaluated :
        i < j /\ evaluated[i].src = evaluated[j].src => evaluated[i].n < evaluated[j].n

(***************************************************************************)
(* The agent does not feed itself: the programs it runs to name users are  *)
(* executions its own probes report, for which it needs a name again, but  *)
(* no user is ever looked up a second time.                                *)
(***************************************************************************)
OneLookupPerUser == \A u \in Uid : lookups[u] <= 1

(***************************************************************************)
(* Once the probes fall silent the pipeline drains: each event a ring      *)
(* holds is evaluated in the end, whatever lookups stalled the readers and *)
(* whichever readers had the task first, unless the agent is told to exit  *)
(* or the event's reader ended before it read it.  While some ring never   *)
(* runs dry nothing of the kind is promised: its reader keeps the task.    *)
(***************************************************************************)
InRing(s, n) == \E i \in DOMAIN ring[s] : ring[s][i].n = n

QuietPipelineDrains ==
    <>[][FALSE]_produced =>
        \A s \in Source : \A n \in Stamp :
            InRing(s, n) ~> \/ n \in Stamps(evaluated, s)
                            \/ s \in closed /\ InRing(s, n)
                            \/ agent # "running"
=============================================================================
