--------------------------- MODULE MCRegisterAccess ---------------------------
(* Instances of RegisterAccess for TLC: a Navigator 2.0 with a zone module, *)
(* a 10 with all its heating circuits, a solar collector and a cascade, and *)
(* a 1.7.                                                                   *)
EXTENDS RegisterAccess

Plain(model) == [model |-> model, circuits |-> {0}, zones |-> 0,
                 solar |-> FALSE, isc |-> FALSE, pv |-> TRUE, cascade |-> FALSE]
Nav20 == [Plain("Navigator 2.0") EXCEPT !.zones = 1]
Nav10 == [Plain("Navigator 10") EXCEPT !.circuits = 0 .. 6, !.solar = TRUE, !.cascade = TRUE]
Nav17 == [Plain("Navigator 1.7") EXCEPT !.circuits = {}]

Families == {Nav20, Nav10, Nav17}

(* Every register of the maps.                                             *)
Addresses == 0 .. 5000

(* Humidity, the limit of the power and the solar collector, of which the  *)
(* device has none but humidity.                                           *)
PolledAddresses == {1046, 1392, 1850, 4108}

(* A register of each type, without limits, at an address of no map; and   *)
(* registers of another type, or that can be written, at the addresses of  *)
(* the outside temperature and of the target for hot water, the latter     *)
(* also at the one that the 1.7 has for it.                                *)
OwnRegisters == In("holding", "INT8", "volatile", NoLimits, {6000})
                    \cup In("holding", "INT16", "volatile", NoLimits, {6001})
                    \cup In("holding", "UINT16", "volatile", NoLimits, {6002})
                    \cup In("holding", "UCHAR", "volatile", NoLimits, {6003})
                    \cup In("holding", "FLOAT", "volatile", NoLimits, {6004})
                    \cup In("input", "INT16", "volatile", NoLimits, {1000, 1032})
                    \cup In("holding", "UINT16", "volatile", NoLimits, {2152})

(* Around the limits in use and the ends of the types.                     *)
Edges == UNION {m - 1 .. m + 1 : m \in
            {-32768, -128, -40, -20, 0, 5, 20, 36, 40, 50, 95, 127, 255, 32767, 65535}}

SomeWords == {0, 128, 255, 256, 32767, 32768, 65535}

(* The facts about the maps that Registers_proofs proves for all models,   *)
(* on the maps of this instance.                                           *)
ASSUME MapsOfTheRun == NamesAgree /\ KeysNameOne /\ NoFlags /\ LimitsFit
=============================================================================
