--------------------------- MODULE FaultLifecycle ---------------------------
(***************************************************************************)
(* What fault detection promises about the faults of one (rule, point):    *)
(* they come in episodes, each raised once and cleared once, one after the *)
(* other in time, whatever happens to the process that records them.       *)
(***************************************************************************)
EXTENDS Naturals

CONSTANT Key     \* (rule, point) pairs

VARIABLES
  active,   \* the keys in fault
  since     \* since[k]: time of the last transition of k

Init == active = {} /\ since = [k \in Key |-> 0]

Raise(k, t) ==
  /\ k \notin active /\ since[k] <= t
  /\ active' = active \cup {k} /\ since' = [since EXCEPT ![k] = t]

Clear(k, t) ==
  /\ k \in active /\ since[k] <= t
  /\ active' = active \ {k} /\ since' = [since EXCEPT ![k] = t]

\* The transition of k, at the time its key carries afterwards.
Transition(k) == Raise(k, since'[k]) \/ Clear(k, since'[k])

Next == \E k \in Key : Transition(k)

Spec == Init /\ [][Next]_<<active, since>>
=============================================================================
