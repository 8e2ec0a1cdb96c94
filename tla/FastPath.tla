------------------------------ MODULE FastPath ------------------------------
(***************************************************************************)
(* The kernel fast path from start to steady state: App::run attaches the  *)
(* probes, builds the engine (RuleEngine, on the outcomes SigmaLowering    *)
(* computes from the directory), uploads the rule block with one map       *)
(* update that the kernel does not make atomic for the probes, and only    *)
(* then opens the perf rings, one CPU after the other.  Programs make      *)
(* system calls on every CPU all the while.                                *)
(***************************************************************************)
EXTENDS SigmaLowering, FiniteSets

CONSTANTS
    Files, Rules,      \* the directory entries and what they may contain
    Calls,             \* the system calls programs may make
    Cpus,
    MAX_KERNEL_RULES,
    FILE_BUF, EXEC_BUF \* the sizes of the probes' path buffers

VARIABLES
    dir,                                       \* the Sigma rule in each file
    outcome, phase, remaining, sigma_rules,    \* the variables of RuleEngine
    kernel_rules, permissive_mask, permissive_notes,
    stage,      \* "building", "uploading", "opening", "watching", "aborted"
    uploaded,   \* did add_kernel_rules succeed?
    unwritten,  \* parts of the map value the update has yet to copy
    block,      \* the value of RULES_ARRAY
    open,       \* the CPUs whose rings the readers have opened
    seen        \* {}, or the last event and its fate

engine  == <<outcome, phase, remaining, sigma_rules, kernel_rules,
             permissive_mask, permissive_notes>>
startup == <<stage, uploaded, unwritten, block, open>>
vars    == <<dir, engine, startup, seen>>

Terms == UNION {{t.term : t \in ToSet(OutcomeOf(r).terms)} : r \in Rules}

RE == INSTANCE RuleEngine WITH
          Outcome <- {OutcomeOf(r) : r \in Rules},
          Term    <- Terms

\* A system call: what its arguments point to, and whether that can be read.
CallType == [type : EventTypes, comm : Seq(Char), path : Seq(Char), arg0 : Seq(Char),
             user : Seq(Char), args : Seq(Char), readable : BOOLEAN, write : BOOLEAN]

ASSUME FastPathAssumption ==
    /\ IsFiniteSet(Files)
    /\ Rules \subseteq SigmaRule
    /\ Calls \subseteq CallType
    /\ {MAX_KERNEL_RULES, MAX_PATH_SCAN, FILE_BUF, EXEC_BUF} \subseteq Nat

Slots == 1..MAX_KERNEL_RULES
Count == 0
Mask  == -1
Parts == {Count, Mask} \cup Slots

Init ==
    /\ dir \in [Files -> Rules]
    /\ outcome = [f \in Files |-> OutcomeOf(dir[f])]
    /\ RE!Init
    /\ stage = "building" /\ uploaded = FALSE /\ unwritten = {}
    /\ block = [mask |-> {}, count |-> 0, rules |-> [i \in Slots |-> ZeroRule]]
    /\ open = {} /\ seen = {}

BuildEngine ==
    /\ stage = "building"
    /\ RE!Next
    /\ UNCHANGED <<dir, startup, seen>>

\* add_kernel_rules fails before the map is touched: logged, never fatal.
UploadFails ==
    /\ stage = "building" /\ phase = "ready"
    /\ stage' = "opening"
    /\ UNCHANGED <<dir, engine, uploaded, unwritten, block, open, seen>>

StartUpload ==
    /\ stage = "building" /\ phase = "ready"
    /\ Cardinality(DOMAIN kernel_rules) <= MAX_KERNEL_RULES
    /\ stage' = "uploading" /\ unwritten' = Parts
    /\ UNCHANGED <<dir, engine, uploaded, block, open, seen>>

\* The rules in Vec order, padded with zeroed slots.
RuleInSlot(i) ==
    LET at == {p \in DOMAIN kernel_rules : RE!Rank(kernel_rules, p) = i - 1}
    IN  IF at = {} THEN ZeroRule
        ELSE LET r == kernel_rules[CHOOSE p \in at : TRUE]
             IN  lower_term(r.type, r.term)

\* Mutated: the count is the capacity, so that padding counts as rules.
CopyPartFull(p) ==
    /\ stage = "uploading" /\ p \in unwritten
    /\ unwritten' = unwritten \ {p}
    /\ block' = CASE p = Count -> [block EXCEPT !.count = MAX_KERNEL_RULES]
                  [] p = Mask  -> [block EXCEPT !.mask = permissive_mask]
                  [] OTHER     -> [block EXCEPT !.rules[p] = RuleInSlot(p)]
    /\ stage' = IF unwritten' = {} THEN "opening" ELSE stage
    /\ uploaded' = (unwritten' = {})
    /\ UNCHANGED <<dir, engine, open, seen>>

\* The kernel copies the value part by part, in no order the probes can rely on.
CopyPart(p) ==
    /\ stage = "uploading" /\ p \in unwritten
    /\ unwritten' = unwritten \ {p}
    /\ block' = CASE p = Count -> [block EXCEPT !.count = Cardinality(DOMAIN kernel_rules)]
                  [] p = Mask  -> [block EXCEPT !.mask = permissive_mask]
                  [] OTHER     -> [block EXCEPT !.rules[p] = RuleInSlot(p)]
    /\ stage' = IF unwritten' = {} THEN "opening" ELSE stage
    /\ uploaded' = (unwritten' = {})
    /\ UNCHANGED <<dir, engine, open, seen>>

\* Mutated: the readers are started beside the upload.
OpenCpuEarly(c) ==
    /\ stage \in {"uploading", "opening"} /\ c \notin open
    /\ open' = open \cup {c}
    /\ stage' = IF open' = Cpus /\ stage = "opening" THEN "watching" ELSE stage
    /\ UNCHANGED <<dir, engine, uploaded, unwritten, block, seen>>

\* The readers of one CPU open its rings.
OpenCpu(c) ==
    /\ stage = "opening" /\ c \notin open
    /\ open' = open \cup {c}
    /\ stage' = IF open' = Cpus THEN "watching" ELSE stage
    /\ UNCHANGED <<dir, engine, uploaded, unwritten, block, seen>>

\* A ring that does not open ends the agent, and with it the probes.
OpenFails ==
    /\ stage = "opening"
    /\ stage' = "aborted" /\ open' = {}
    /\ UNCHANGED <<dir, engine, uploaded, unwritten, block, seen>>

(***************************************************************************)
(* What the probe of a call records, as the readers are given it later.  A *)
(* path that cannot be read leaves the buffer empty; for execve it holds   *)
(* arg0, which is argv[0] or nothing, as the helper left it; bprm_check    *)
(* leaves it empty always; the others have none.                           *)
(***************************************************************************)
Recorded(call) ==
    [type |-> call.type,
     comm |-> call.comm,
     user |-> call.user,
     args |-> IF call.type = ET_EXECVE THEN call.args ELSE <<>>,
     path |->
        CASE call.type = ET_EXECVE ->
                Captured(IF call.readable THEN call.path ELSE call.arg0, EXEC_BUF)
          [] call.type = ET_FILE /\ call.readable -> Captured(call.path, FILE_BUF)
          [] OTHER -> <<>>]

\* Mutated: pure writes are filtered like reads, reads are not.
ForwardsSwapped(call) ==
    LET ev == Recorded(call)
    IN  \/ ev.type \in {ET_MODULE, ET_NETWORK}
        \/ passes_kernel_filter(block, ev.type, ev.comm, ev.path) /\ call.write
        \/ ev.type # ET_FILE /\ passes_kernel_filter(block, ev.type, ev.comm, ev.path)

\* Does the probe output the event?  Writes of files always pass.
Forwards(call) ==
    LET ev == Recorded(call)
    IN  \/ ev.type \in {ET_MODULE, ET_NETWORK}
        \/ ev.type = ET_FILE /\ call.write
        \/ passes_kernel_filter(block, ev.type, ev.comm, ev.path)

\* A connect makes no event when its address is unreadable or no IP address.
Reported(call) == call.type = ET_NETWORK => call.readable

(***************************************************************************)
(* A program makes a system call on CPU c; without an open ring the output *)
(* is lost.  The probe is one step: it has SCRATCH to itself from fill to  *)
(* output.  That is true of the tracepoints; of the LSM program it is only *)
(* where no probe preempts it (KernelProbes has the other case).           *)
(***************************************************************************)
Syscall(c, call) ==
    /\ stage # "aborted"
    /\ Reported(call)
    /\ seen' = {[call |-> call,
                 fate |-> IF ~Forwards(call) THEN "dropped"
                          ELSE IF c \in open THEN "forwarded" ELSE "lost",
                 watched |-> c \in open]}
    /\ UNCHANGED <<dir, engine, startup>>

Next ==
    \/ BuildEngine \/ UploadFails \/ StartUpload
    \/ \E p \in Parts : CopyPart(p)
    \/ \E c \in Cpus : OpenCpu(c) \/ \E call \in Calls : Syscall(c, call)
    \/ OpenFails

Spec == Init /\ [][Next]_vars

-----------------------------------------------------------------------------
\* What a slot of the block may hold.
SlotRule == {ZeroRule} \cup {lower_term(type, t) : type \in EventTypes, t \in Terms}

\* Every variable stays in its type; rings are open once the block is written.
TypeOK ==
    /\ open # {} => stage \in {"opening", "watching"} /\ unwritten = {}
    /\ dir \in [Files -> Rules]
    /\ stage \in {"building", "uploading", "opening", "watching", "aborted"}
    /\ unwritten \subseteq Parts /\ uploaded \in BOOLEAN /\ open \subseteq Cpus
    /\ block \in [mask : SUBSET EventTypes, count : 0..MAX_KERNEL_RULES,
                  rules : [Slots -> SlotRule]]

(***************************************************************************)
(* No missed detection: on a CPU whose rings are open, every FILE, LSM,    *)
(* MODULE or NETWORK event that makes a loaded Sigma rule of its own type  *)
(* fire reaches the agent, if the rule is of the form extract_pushdown     *)
(* takes for granted - whether the upload failed, whatever overflowed      *)
(* or failed open, and however the upload was torn.  It is the order of    *)
(* App::run, upload before the first ring, that makes tearing harmless.    *)
(* Of LSM events it speaks as far as Syscall does: where the LSM program   *)
(* is not preempted between filling SCRATCH and comparing it.              *)
(* (EXECVE is the subject of ExecveSuperset in LoweringSoundness.)         *)
(***************************************************************************)
NoMissedDetection ==
    \A s \in seen : \A f \in sigma_rules :
        /\ s.watched /\ TakenForGranted(dir[f])
        /\ s.call.type = classify_event_type(dir[f]) /\ s.call.type # ET_EXECVE
        /\ SigmaFires(dir[f], Recorded(s.call))
        => s.fate = "forwarded"

(***************************************************************************)
(* The other half: the filter keeps from the agent what no rule wants.     *)
(* When the loaded rules of a filtered type are nothing but alternatives,  *)
(* an event of that type that is measured and no write, and still reaches  *)
(* the agent, makes one of them fire.  A padding slot below the count, or  *)
(* a rule in the block that no loaded file stands for, breaks only this.   *)
(* LSM events: where the LSM program is not preempted, as above.           *)
(* (Engine::new, add_kernel_rules, passes_kernel_filter)                   *)
(***************************************************************************)
NothingForwardedInVain ==
    \A s \in seen :
        LET ev == Recorded(s.call)
        IN  /\ s.fate = "forwarded" /\ uploaded /\ DOMAIN kernel_rules # {}
            /\ ev.type \in {ET_FILE, ET_LSM} \ permissive_mask
            /\ ~(ev.type = ET_FILE /\ s.call.write) /\ Len(ev.path) < MAX_PATH_SCAN
            /\ \A f \in sigma_rules :
                  classify_event_type(dir[f]) = ev.type => OnlyAlternatives(dir[f])
            => \E f \in sigma_rules : SigmaFires(dir[f], ev)

(***************************************************************************)
(* "Without the fast-path the agent still detects everything": when the    *)
(* upload fails, every event on a watched CPU is forwarded.                *)
(* (App::run, passes_kernel_filter on a block without rules)               *)
(***************************************************************************)
UnfilteredWhenUploadFails ==
    \A s \in seen : s.watched /\ ~uploaded => s.fate = "forwarded"

(***************************************************************************)
(* What the comments of MAX_PATH_SCAN and passes_kernel_filter say: a path *)
(* longer than the scan is forwarded unmeasured rather than mis-measured.  *)
(* The openat buffer is shorter than the scan, so its paths are truncated  *)
(* and then measured.                                                      *)
(***************************************************************************)
LongPathsForwarded ==
    \A s \in seen :
        /\ s.watched /\ s.call.type \in {ET_EXECVE, ET_FILE} /\ s.call.readable
        /\ Len(s.call.path) > MAX_PATH_SCAN
        => s.fate = "forwarded"
=============================================================================
