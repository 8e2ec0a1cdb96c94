----------------------------- MODULE AgentEvent -----------------------------
(***************************************************************************)
(* What the reader of a ring makes of a probe's record (agent/app.rs): the *)
(* Event the Sigma engine evaluates.  There is one reader per event type,  *)
(* and each chooses its own names and leaves out its own fields.           *)
(*                                                                         *)
(* A record is [type, comm, path, args, user]: strings as parse_cstr ends  *)
(* them, args the argument slots of an execve that are not empty, joined,  *)
(* and user what UserManager answered.  An optional field of an Event is a *)
(* set of at most one string.                                              *)
(***************************************************************************)
EXTENDS XdrCommon

CONSTANTS Execve, Openat, Connect,  \* the texts of the Syscall field
          ModuleLoad                \* init_module or finit_module

Event(event_type, rec, cmdline, syscall, file_path) ==
    [event_type |-> event_type, process_name |-> rec.comm, user_name |-> rec.user,
     cmdline |-> cmdline, syscall |-> syscall, file_path |-> file_path]

\* The command line of an execution without a readable argument is its filename.
FromExecve(rec) ==
    Event("EXECVE", rec, {IF rec.args = <<>> THEN rec.path ELSE rec.args}, {Execve}, {rec.path})

\* open is reported as openat, and the process name serves as command line.
FromFile(rec) == Event("SYSCALL", rec, {rec.comm}, {Openat}, {rec.path})

\* An empty file name is no file name.
FromLsm(rec) == Event("LSM", rec, {}, {}, {rec.path} \ {<<>>})

FromModule(rec) == Event("SYSCALL", rec, {}, {ModuleLoad}, {})

\* The destination of a connect is left out: nothing is lowered from it.
FromNetwork(rec) == Event("NETWORK", rec, {}, {Connect}, {})

EngineEvent(rec) ==
    CASE rec.type = ET_EXECVE -> FromExecve(rec)
      [] rec.type = ET_FILE   -> FromFile(rec)
      [] rec.type = ET_LSM    -> FromLsm(rec)
      [] rec.type = ET_MODULE -> FromModule(rec)
      [] OTHER                -> FromNetwork(rec)
=============================================================================
