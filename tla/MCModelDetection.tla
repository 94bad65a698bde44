--------------------------- MODULE MCModelDetection ---------------------------
(* Instances of ModelDetection for TLC: controllers that differ in what    *)
(* the source says tells the families apart.                               *)
EXTENDS ModelDetection, TLC

CONSTANTS d1, d2

OneDetector == {d1}
TwoDetectors == {d1, d2}
DetectorSymmetry == Permutations(TwoDetectors)

(* A controller answers the registers named, with a value or a marker, and *)
(* rejects all the others.                                                 *)
Unit(family, values, markers) ==
    [family |-> family,
     says |-> [r \in Registers |->
         IF r \in values THEN "value" ELSE IF r \in markers THEN "marker" ELSE "rejected"]]

FlowAndMode == Slots("flow", Circuits) \cup Slots("mode", Circuits)
OnlyCircuitB == {Slot("mode", 2)}

(* Circuit B alone, without a flow sensor; 4108 and 4001 answer with the   *)
(* marker, as on a Terra SWM.                                              *)
Swm20 == Unit("navigator_20", OnlyCircuitB \cup {One("pv"), One("core")},
    FlowAndMode \cup {One("solar"), One("cascade"), One("power_limit"), One("booster")})
(* A Navigator 10 in standby: only the power measurements give it away.    *)
Standby10 == Unit("navigator_10",
    {Slot("flow", 1), One("consumption"), One("flow_sensor"), One("core")},
    FlowAndMode \cup {One("power_limit"), One("booster")})
Booster10 == Unit("navigator_10", {Slot("flow", 1), Slot("zone", 1), One("booster"), One("isc")},
    FlowAndMode \cup {One("power_limit"), One("core")})
(* Zone modules 1 and 3; circuit B is not in the register map at all.      *)
Pro == Unit("navigator_pro",
    {Slot("flow", 1), Slot("mode", 1), Slot("zone", 1), Slot("zone", 3), One("cascade")},
    {One("core")})
(* The status block of 1.x answers where others keep the mode of circuit B.*)
Nav17 == Unit("navigator_17", {One("core"), Slot("mode", 2), One("pv"),
    One("consumption"), One("flow_sensor")}, {})

Known == {Swm20, Standby10, Booster10, Pro, Nav17}

ASSUME KnownAreTellable == \A c \in Known : TellsApart(c)
=============================================================================
