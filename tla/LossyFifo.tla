----------------------------- MODULE LossyFifo -----------------------------
(***************************************************************************)
(* What the way from the probes to the Sigma engine promises, per source   *)
(* (one probe on one CPU): events accepted into the ring come out in the   *)
(* order they went in, each at most once and none of them skipped.  Events *)
(* may be refused when they are produced; none may vanish later.           *)
(***************************************************************************)
EXTENDS Naturals

CONSTANTS Source, Stamp

VARIABLES accepted,   \* per source, the stamps of the events taken into its ring
          delivered   \* per source, the stamps of those the Sigma engine evaluated

vars == <<accepted, delivered>>

Init == accepted = [s \in Source |-> {}] /\ delivered = [s \in Source |-> {}]

\* Stamps grow: an event is later than all that were accepted before it.
Accept(s) ==
    \E n \in Stamp :
        /\ \A m \in accepted[s] : m < n
        /\ accepted' = [accepted EXCEPT ![s] = @ \cup {n}]
        /\ UNCHANGED delivered

\* The oldest event that waits comes out.
Deliver(s) ==
    \E n \in accepted[s] \ delivered[s] :
        /\ \A m \in accepted[s] \ delivered[s] : n <= m
        /\ delivered' = [delivered EXCEPT ![s] = @ \cup {n}]
        /\ UNCHANGED accepted

Next == \E s \in Source : Accept(s) \/ Deliver(s)
Spec == Init /\ [][Next]_vars
=============================================================================
