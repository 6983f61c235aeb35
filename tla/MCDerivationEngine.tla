------------------------- MODULE MCDerivationEngine -------------------------
(* DerivationEngine for TLC: a formula, one that reads its output, and a   *)
(* rollup of two nodes, over one source.                                   *)
EXTENDS DerivationEngine

CONSTANTS mean, chained, total, zone, leaf, root, temp

MCFormula == {mean, chained}
MCRollup == {total}
MCSource == {temp}
MCDependsOn == [d \in Deriv |-> IF d = chained THEN {mean} ELSE {}]
MCInterval == [d \in Deriv |-> IF d \in Formula THEN 2 ELSE 1]
MCTargets == [d \in Deriv |-> CASE d = mean -> <<zone>> [] d = chained -> <<zone>> [] OTHER -> <<leaf, root>>]
MCInputs == [d \in Deriv |-> CASE d = mean -> [t \in {zone} |-> {temp}]
                               [] d = chained -> [t \in {zone} |-> {<<mean, zone>>}]
                               [] OTHER -> [t \in {leaf, root} |-> IF t = leaf THEN {temp} ELSE {}]]
MCChild == [d \in Deriv |-> [t \in ToSet(MCTargets[d]) |-> IF t = root THEN {leaf} ELSE {}]]
MCGlob == [d \in Deriv |-> IF d = mean THEN {temp} ELSE {}]

\* The formulas; the rollup and what it shares a source with, with that source
\* faulted or not; a formula whose dependency is missing.
MCGiven == [file : {{mean, chained}, {mean, total}}, faulted : {{}}]
           \cup [file : {{mean, chained}, {chained, total}}, faulted : {{temp}}]
=============================================================================
