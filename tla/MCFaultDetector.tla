-------------------------- MODULE MCFaultDetector --------------------------
(* Instances of FaultDetector for TLC: one Cur-mode and one His-mode rule  *)
(* on one point, and a webhook that wants both.                            *)
EXTENDS FaultDetector

CONSTANTS range, stale, p1, low, high, w1

MCRule == {range, stale}
MCCurRule == {range}
MCPoint == {p1}
MCApplies == [r \in MCRule |-> MCPoint]
MCValue == {low, high}
MCOutOfRange == [r \in MCCurRule |-> {high}]
MCHook == {w1}
MCWants == [h \in MCHook |-> MCRule]
=============================================================================
