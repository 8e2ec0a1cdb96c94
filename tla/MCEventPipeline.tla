-------------------------- MODULE MCEventPipeline --------------------------
EXTENDS EventPipeline

\* Enough events of the first kind to fill a ring, of the other to compete.
MCMaxEvents == [s \in Source |-> IF s \in ExecSource THEN 1 ELSE 3]
=============================================================================
