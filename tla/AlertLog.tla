------------------------------ MODULE AlertLog ------------------------------
(***************************************************************************)
(* What the engine promises of its two alert sinks: alerts are numbered in *)
(* the order they are raised; stdout gets every one of them, once and in   *)
(* order, and syslog gets an alert with its stdout line or never.          *)
(***************************************************************************)
EXTENDS Naturals, Sequences

VARIABLES stdout,  \* the alerts written to standard output
          logged   \* the alerts syslogd took

vars == <<stdout, logged>>

Init == stdout = <<>> /\ logged = <<>>

Alert ==
    LET n == Len(stdout) + 1
    IN  /\ stdout' = Append(stdout, n)
        /\ logged' \in {logged, Append(logged, n)}

Spec == Init /\ [][Alert]_vars
=============================================================================
