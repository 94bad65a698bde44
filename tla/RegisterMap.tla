---------------------------- MODULE RegisterMap ----------------------------
(***************************************************************************)
(* The register map of the controllers (idm_heatpump/registers.py), one    *)
(* definition for each function that builds a block, and                   *)
(* build_register_map(), which puts the blocks of a model together.        *)
(*                                                                         *)
(* A register is known by its table and address; names, units and the      *)
(* texts of the options are left out.  Limits are those of whole numbers;  *)
(* the options of a mode are its limits, less the ones excluded.           *)
(***************************************************************************)
EXTENDS Integers, FiniteSets

Types == {"FLOAT", "UCHAR", "INT8", "INT16", "UINT16", "BOOL", "BITFLAG"}
Tables == {"input", "holding", "coil"}
Accesses == {"read", "volatile", "eeprom", "cyclic", "writeonly"}

NoLimits == <<>>

(* RegisterDef *)
Register == [table : Tables, at : Nat, type : Types, access : Accesses,
             limits : {NoLimits} \cup (Int \X Int)]

Writable(r) == r.access # "read"

size(r) == IF r.type = "FLOAT" THEN 2 ELSE 1

Words(r) == r.at .. r.at + size(r) - 1

(* The addresses from a to b, n apart.                                     *)
Every(n, a, b) == {x \in a .. b : (x - a) % n = 0}

In(table, type, access, limits, addresses) ==
    {[table |-> table, at |-> a, type |-> type, access |-> access, limits |-> limits] :
        a \in addresses}

Read(type, addresses) == In("input", type, "read", NoLimits, addresses)

Set(type, access, addresses) == In("input", type, access, NoLimits, addresses)

Set2(type, access, min, max, addresses) == In("input", type, access, <<min, max>>, addresses)

-----------------------------------------------------------------------------
(* The blocks that the Navigators 2.0, 10 and Pro share.                   *)

system_registers ==
    Read("UCHAR", {90, 1006})
    \cup Read("UINT16", {1004})
    \cup Read("FLOAT", {1000, 1002, 1030, 1048} \cup Every(2, 1008, 1014) \cup Every(2, 1050, 1066))
    \cup Set2("UCHAR", "eeprom", 0, 5, {1005})
    \cup Set2("UCHAR", "eeprom", 35, 95, {1032})
    \cup Set2("UCHAR", "eeprom", 30, 50, {1033})
    \cup Set2("UCHAR", "eeprom", 46, 67, {1034})

hp_operation == Read("UCHAR", 1090 .. 1093 \cup 1098 .. 1103)

hp_pumps == Read("INT16", 1104 .. 1106 \cup 1108 .. 1109) \cup Read("UINT16", 1110 .. 1118)

hp_bivalence == Set2("INT16", "eeprom", -40, 40, 1120 .. 1123)

hp_status_registers ==
    hp_operation \cup hp_pumps \cup hp_bivalence \cup Read("UCHAR", {1124} \cup 1147 .. 1152)

energy_registers ==
    Read("FLOAT", Every(2, 1748, 1762) \cup {1790, 1792, 4120, 4122, 4126, 4128})

cascade_registers ==
    Read("FLOAT", Every(2, 1200, 1210)) \cup Set2("UCHAR", "volatile", 0, 100, 1220 .. 1225)

more_cascade_registers == Set2("INT16", "volatile", -40, 40, 1226 .. 1231)

solar_registers ==
    Read("FLOAT", {1850, 1852, 1854, 1857}) \cup Set2("UCHAR", "eeprom", 0, 4, {1856})

isc_registers == Read("FLOAT", {1870, 1872}) \cup Read("UCHAR", {1874})

pv_registers ==
    Set("FLOAT", "volatile", {74, 76, 78, 82, 84, 88}) \cup Set2("INT16", "volatile", 0, 100, {86})

glt_demands ==
    Set("FLOAT", "cyclic", {1696, 1698})
    \cup Set2("UCHAR", "eeprom", 20, 65, {1694})
    \cup Set2("UCHAR", "eeprom", 10, 25, {1695})

glt_registers ==
    Set("FLOAT", "volatile", {1690, 1692} \cup Every(2, 1716, 1722))
    \cup glt_demands
    \cup Set("BOOL", "volatile", 1710 .. 1713)

error_acknowledge == Set("UCHAR", "writeonly", {1999})

humidity_sensor == Read("FLOAT", {1392})

NoGapForFloats(c) ==    \* mutant: the floats of the circuits are one word apart
    Set("FLOAT", "eeprom", {1401 + c, 1415 + c, 1429 + c, 1457 + c, 1471 + c})

(* get_heating_circuit_registers(): circuit c is counted from A = 0.       *)
circuit_floats(c) ==
    Set("FLOAT", "eeprom", {1401 + 2 * c, 1415 + 2 * c, 1429 + 2 * c,
                            1457 + 2 * c, 1471 + 2 * c})

circuit_setpoints(c) ==
    Read("FLOAT", {1350 + 2 * c, 1364 + 2 * c, 1378 + 2 * c})
    \cup Set2("UCHAR", "eeprom", 0, 5, {1393 + c})
    \cup circuit_floats(c)
    \cup Set2("UCHAR", "eeprom", 0, 50, {1442 + c})
    \cup Set2("UCHAR", "eeprom", 20, 90, {1449 + c})

heating_circuit_registers(c) ==
    circuit_setpoints(c)
    \cup Set2("UCHAR", "eeprom", 0, 36, {1484 + c})
    \cup Set2("UCHAR", "eeprom", 8, 30, {1491 + c})
    \cup Read("UCHAR", {1498 + c})
    \cup Set2("UCHAR", "eeprom", 0, 30, {1505 + c})
    \cup Set("FLOAT", "volatile", {1650 + 2 * c})

(* get_zone_module_registers(): the modules are counted from 1.            *)
zone_module_registers(z, rooms) ==
    LET base == 2000 + (z - 1) * 65
        room == {base + 2 + (r - 1) * 7 : r \in 1 .. rooms}
    IN  Read("UCHAR", {base, base + 1} \cup {b + 6 : b \in room})
        \cup Set("FLOAT", "volatile", room \cup {b + 2 : b \in room})
        \cup Set2("UCHAR", "volatile", 0, 100, {b + 4 : b \in room})
        \cup Set2("UCHAR", "volatile", 0, 4, {b + 5 : b \in room})

-----------------------------------------------------------------------------
(* The blocks of the Navigator 10 alone.                                   *)

heat_sink_registers == Read("FLOAT", {1068, 1070, 1072}) \cup Read("INT16", {1074})

groundwater_registers == Read("FLOAT", {1086, 1088})

additional_fault_registers == Read("UCHAR", 1680 .. 1683)

external_pump_demand_registers == Set2("UCHAR", "volatile", 0, 100, {1714, 1715})

power_limit_registers == Set("FLOAT", "volatile", {4108, 4112}) \cup Read("FLOAT", {4124})

booster_registers ==
    Read("UCHAR", {4001, 4002, 4022, 4052})
    \cup Read("FLOAT", Every(2, 4010, 4018) \cup Every(2, 4040, 4048))
    \cup Read("INT16", {4020, 4021, 4050, 4051})

navigator_10_only ==
    heat_sink_registers \cup groundwater_registers \cup additional_fault_registers
        \cup external_pump_demand_registers \cup power_limit_registers \cup booster_registers

-----------------------------------------------------------------------------
(* The Navigator 1.7: a map of its own, over three tables.                 *)

nav17_temperatures == Read("FLOAT", Every(2, 1000, 1066))

nav17_meters == Read("FLOAT", Every(2, 1068, 1088))

nav17_status == Read("UCHAR", {1501}) \cup Read("UINT16", {1500} \cup 1502 .. 1524)

Holding(type, limits, addresses) == In("holding", type, "eeprom", limits, addresses)

nav17_modes ==
    Holding("UINT16", <<0, 3>>, {2000})
    \cup Holding("UINT16", <<0, 4>>, Every(2, 2002, 2014) \cup {2150})

nav17_words ==
    Holding("UINT16", <<0, 50>>, Every(2, 2058, 2070))
    \cup Holding("UINT16", <<20, 90>>, Every(2, 2072, 2084))
    \cup Holding("UINT16", <<0, 36>>, Every(2, 2114, 2126))
    \cup Holding("UINT16", <<8, 30>>, Every(2, 2128, 2140))
    \cup Holding("UINT16", <<20, 65>>, {2142})
    \cup Holding("UINT16", <<10, 25>>, {2144})

nav17_floats ==
    Holding("FLOAT", NoLimits, {2152} \cup Every(2, 2016, 2056) \cup Every(2, 2086, 2112))

nav17_bivalence == Holding("INT16", <<-20, 20>>, {2146, 2148})

nav17_coils == In("coil", "BOOL", "writeonly", NoLimits, {3000, 3003})

nav17_pv == Set("FLOAT", "volatile", {74, 76, 78, 82}) \cup Read("FLOAT", {4122})

navigator_17_registers(pv) ==
    nav17_temperatures \cup nav17_meters \cup nav17_status
        \cup nav17_modes \cup nav17_words \cup nav17_floats \cup nav17_bivalence
        \cup nav17_coils
        \cup (IF pv THEN nav17_pv ELSE {})

-----------------------------------------------------------------------------
(* build_register_map() *)

Models == {"Navigator 1.7", "Navigator 2.0", "Navigator 10", "Navigator Pro", "Unknown"}

(* IdmModelInfo, less the features and the firmware; modelled information  *)
(* that was not detected is NoInfo, with circuits and zones given by hand. *)
Info == [model : Models, circuits : SUBSET (0 .. 6), zones : 0 .. 10,
         solar : BOOLEAN, isc : BOOLEAN, pv : BOOLEAN, cascade : BOOLEAN]

units(circuits, zones, rooms) ==
    (UNION {heating_circuit_registers(c) : c \in circuits})
    \cup (UNION {zone_module_registers(z, rooms) : z \in 1 .. zones})

always ==
    system_registers \cup hp_status_registers \cup energy_registers
        \cup glt_registers \cup error_acknowledge \cup humidity_sensor

DetectedMap(model_info, rooms) ==
    IF model_info.model = "Navigator 1.7" THEN navigator_17_registers(model_info.pv)
    ELSE always
         \cup (IF model_info.model = "Navigator 10" THEN navigator_10_only ELSE {})
         \cup (IF model_info.cascade THEN cascade_registers \cup more_cascade_registers ELSE {})
         \cup (IF model_info.solar THEN solar_registers ELSE {})
         \cup (IF model_info.isc THEN isc_registers ELSE {})
         \cup (IF model_info.pv THEN pv_registers ELSE {})
         \cup units(model_info.circuits, model_info.zones, rooms)

(* No circuit named is all of them.                                        *)
ManualMap(circuits, zones, rooms) ==
    always \cup navigator_10_only
        \cup cascade_registers \cup more_cascade_registers
        \cup solar_registers \cup isc_registers \cup pv_registers
        \cup units(IF circuits = {} THEN 0 .. 6 ELSE circuits, zones, rooms)

(* A map that build_register_map() may return, or a part of one:           *)
(* rooms_per_zone is at most MAX_ROOMS_PER_ZONE, and the circuits and      *)
(* modules named by hand are checked like those of Info.                   *)
OfThePackage(S) ==
    \/ \E i \in Info, rooms \in 1 .. 8 : S \subseteq DetectedMap(i, rooms)
    \/ \E circuits \in SUBSET (0 .. 6), zones \in 0 .. 10, rooms \in 1 .. 8 :
           S \subseteq ManualMap(circuits, zones, rooms)

(* CORE_REGISTERS, which get_register() falls back on.                     *)
CORE_REGISTERS ==
    {r \in always : r.at \in {1000, 1005, 1008, 1090, 1999}}

(* EEPROM_SENSITIVE_ADDRESSES (idm_heatpump/const.py).                     *)
EEPROM_SENSITIVE_ADDRESSES ==
    {1005, 1694, 1695, 1856} \cup 1032 .. 1034 \cup 1120 .. 1123
        \cup 1393 .. 1399 \cup Every(2, 1401, 1441) \cup 1442 .. 1455
        \cup Every(2, 1457, 1483) \cup 1484 .. 1497 \cup 1505 .. 1511

(* The registers that detect_model() probes (get_detection_registers).     *)
detection_registers ==
    Read("FLOAT", {74, 1000, 1850, 1870} \cup Every(2, 1350, 1362))
    \cup Read("UCHAR", {1147} \cup {2000 + 65 * z : z \in 0 .. 9})
=============================================================================
