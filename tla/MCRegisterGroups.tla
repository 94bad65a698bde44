--------------------------- MODULE MCRegisterGroups ---------------------------
(* Instances of RegisterGroups for TLC: the map of each family in full, and *)
(* that of a Navigator 2.0 with two circuits and a zone module.             *)
EXTENDS RegisterGroups

TwoCircuits == [model |-> "Navigator 2.0", circuits |-> {0, 6}, zones |-> 1,
                solar |-> TRUE, isc |-> FALSE, pv |-> TRUE, cascade |-> FALSE]
EachFamily == {ManualMap({}, 2, 8), navigator_17_registers(TRUE), DetectedMap(TwoCircuits, 6)}

AnyLimits == {2, 7, 40}
MissingOnes == {{}, {1032, 1446, 2020}}
SuspectOnes == {{}, {1005, 1441, 2086}}
=============================================================================
