---------------------------- MODULE RegisterAccess ----------------------------
(***************************************************************************)
(* Reading and writing one register: the map of the model that is set,     *)
(* kept between writes, the lookup of a register by its key, the check     *)
(* that a register belongs to the model and that a value fits it, the word *)
(* that is sent, and the keys the controller has rejected, which outlive a *)
(* change of the model.                                                    *)
(*                                                                         *)
(* An application may hold registers of any map: the complete one, which   *)
(* is built before a model is known, or that of a model it has set.        *)
(* Here every request is answered; ModbusConnection has the sending, and   *)
(* WriteSafety the throttle.                                               *)
(***************************************************************************)
EXTENDS RegisterCodec

CONSTANTS
    Infos,      \* what detect_model() may find and set_model_info() may set
    Device,     \* the controller that answers, as the model it is
    Rooms,      \* the rooms_per_zone of the maps the application builds
    Used,       \* the addresses an application uses
    Customs,    \* registers it makes itself
    Polled,     \* the addresses it passes to read_batch()
    Numbers,    \* the whole numbers it writes
    Stored,     \* the words the controller may hold
    NoInfo      \* no model is set, or no map is kept

(* A register that an application makes is not a set of flags, of which    *)
(* encode_value() would drop the upper byte.                               *)
ASSUME AccessAssumption ==
    /\ Infos \subseteq Info
    /\ Device \in Info
    /\ Rooms \in 1 .. 8
    /\ Polled \cup Used \subseteq Nat
    /\ Customs \subseteq {r \in Register : Writable(r) /\ r.type # "BITFLAG"}
    /\ Numbers \subseteq Int
    /\ Stored \subseteq Word
    /\ NoInfo \notin Infos

DefaultRooms == 6    \* rooms_per_zone, when it is not given
ClientZones == 0     \* zone_modules of the complete map the client builds

-----------------------------------------------------------------------------
(* Keys: a register of the Navigator 1.7 has the key of the shared family's *)
(* register that means the same, where there is one.  The key of a shared   *)
(* register is its address there.                                           *)
circuit_keys(c) ==
    {<<"input", 1016 + 2 * c, 1350 + 2 * c>>}
    \cup {<<"holding", 2000 + p[1] + 2 * c, p[2]>> : p \in
            {<<16, 1401 + 2 * c>>, <<30, 1415 + 2 * c>>, <<44, 1429 + 2 * c>>,
             <<58, 1442 + c>>, <<72, 1449 + c>>, <<86, 1457 + 2 * c>>,
             <<100, 1471 + 2 * c>>, <<114, 1484 + c>>, <<128, 1491 + c>>}}

meter_keys ==
    {<<"input", a, a>> : a \in {74, 76, 78, 82, 1000, 1008, 1010, 4122}}
    \cup {<<"input", p[1], p[2]>> : p \in
            {<<1002, 1050>>, <<1004, 1054>>, <<1006, 1058>>, <<1014, 1030>>, <<1046, 1392>>,
             <<1048, 1060>>, <<1050, 1062>>, <<1052, 1850>>, <<1054, 1854>>, <<1060, 1002>>,
             <<1062, 1056>>, <<1066, 1872>>, <<1076, 1750>>, <<1078, 1748>>, <<1082, 1752>>,
             <<1084, 1760>>}}

status_keys ==
    {<<"input", p[1], p[2]>> : p \in
        {<<1501, 1090>>, <<1509, 1100>>, <<1510, 1101>>, <<1511, 1102>>, <<1512, 1103>>,
         <<1513, 1104>>, <<1514, 1106>>, <<1516, 1108>>, <<1517, 1109>>, <<1522, 1856>>,
         <<1523, 90>>, <<1524, 1874>>}}

shared_keys ==
    meter_keys \cup status_keys \cup {<<"holding", 2152, 1032>>, <<"coil", 3000, 1999>>}
        \cup UNION {circuit_keys(c) : c \in 0 .. 6}

key17(r) ==
    IF \E k \in shared_keys : k[1] = r.table /\ k[2] = r.at
    THEN <<"shared", (CHOOSE k \in shared_keys : k[1] = r.table /\ k[2] = r.at)[3]>>
    ELSE <<r.table, r.at>>

Is17(i) == i # NoInfo /\ i.model = "Navigator 1.7"

(* build_register_map(), as a dictionary.                                  *)
build_register_map(i, rooms) ==
    {[key |-> IF Is17(i) THEN key17(r) ELSE <<"shared", r.at>>, reg |-> r] :
        r \in IF i = NoInfo THEN ManualMap({}, ClientZones, rooms) ELSE DetectedMap(i, rooms)}

Legacy == {[key |-> <<"shared", r.at>>, reg |-> r] : r \in CORE_REGISTERS}

(* The map of each model, as the client builds it.                         *)
MapOf == [i \in Infos \cup {NoInfo} |-> build_register_map(i, DefaultRooms)]

(* get_register(): the map of the model first, then CORE_REGISTERS.        *)
get_register(k, i) ==
    LET found == {e \in MapOf[i] : e.key = k}
    IN  IF found # {} THEN found ELSE {e \in Legacy : e.key = k}

(* What an application may hold, and the keys it may name.                 *)
HeldFor(i) == {e \in build_register_map(i, Rooms) : e.reg.at \in Used}
Held == UNION {HeldFor(i) : i \in Infos \cup {NoInfo}}
Keys == {e.key : e \in Held}
Entries == Held \cup Legacy \cup UNION {MapOf[i] : i \in Infos \cup {NoInfo}}

(* Registers that an application makes itself, under a name of its own or  *)
(* under that which a map of either family has for the address, whatever   *)
(* the map says of the register there.                                     *)
Names(r) == {<<"custom", r.at>>, <<"shared", r.at>>, key17(r)}
CustomEntries == UNION {{[key |-> k, reg |-> r] : k \in Names(r)} : r \in Customs}

(* The words the controller answers for.                                   *)
Answered == UNION {{<<r.table, w>> : w \in Words(r)} : r \in DetectedMap(Device, DefaultRooms)}
Answers(r) == \A w \in Words(r) : <<r.table, w>> \in Answered

(* Registers of two maps that agree on name and address are the same: for  *)
(* them, what the check compares is enough.                                *)
Agrees(e, i) ==
    (\E m \in MapOf[i] : m.key = e.key /\ m.reg.at = e.reg.at) => e \in MapOf[i]

NamesAgree == \A i \in Infos : \A e \in Entries : Agrees(e, i)

(* Within the maps of a family a key names one register.                   *)
KeysNameOne ==
    \A i \in Infos \cup {NoInfo}, j \in Infos \cup {NoInfo} :
        Is17(i) = Is17(j) =>
            \A e \in HeldFor(i), m \in MapOf[j] : e.key = m.key => e.reg = m.reg

(* No register is a set of flags.                                          *)
NoFlags ==
    \A e \in Entries \cup CustomEntries : e.reg \in Register /\ e.reg.type # "BITFLAG"

(* A number within the limits that a map declares has an encoding: no      *)
(* write that the map allows fails in the encoder.                         *)
LimitsFit ==
    \A e \in Entries :
        e.reg.type # "FLOAT" /\ e.reg.limits # NoLimits =>
            e.reg.limits[1] .. e.reg.limits[2] \subseteq RangeOf(e.reg.type)

-----------------------------------------------------------------------------
VARIABLES
    info,         \* _model_info
    cached,       \* the model whose map _cached_register_map is
    unsupported,  \* _unsupported_registers: keys
    strayed,      \* was one of them rejected under a map of another family?
    last          \* the call that has just ended, if its caller has not gone on

vars == <<info, cached, unsupported, strayed, last>>

Values == ValuesOf(Numbers)

(* What becomes of a call: refused for the model, invalid for the value,   *)
(* unencodable if the encoder raises.                                      *)
Fates == {"read", "planned", "written", "refused", "invalid", "unencodable"}
Call == [fate : Fates, entry : Entries \cup CustomEntries, custom : BOOLEAN,
         model : Infos \cup {NoInfo}, n : Int, words : SUBSET Word]
Nothing == [fate |-> "none"]

TypeOK ==
    /\ info \in Infos \cup {NoInfo}
    /\ cached \in {info, NoInfo}
    /\ unsupported \subseteq Keys
    /\ strayed \in BOOLEAN
    /\ last \in Call \cup {Nothing}
    /\ last.fate = "read" /\ last.words # {} => last.n \in RangeOf(last.entry.reg.type)

Init ==
    /\ info = NoInfo
    /\ cached = NoInfo
    /\ unsupported = {}
    /\ strayed = FALSE
    /\ last = Nothing

Ended(fate, e, custom, n, words) ==
    last' = [fate |-> fate, entry |-> e, custom |-> custom, model |-> info,
             n |-> n, words |-> words]

KeepsTheMap(i) ==    \* mutant: the map of the model before is kept
    /\ last = Nothing
    /\ info' = i
    /\ UNCHANGED <<cached, unsupported, strayed, last>>

(* set_model_info(), and the end of detect_model().                        *)
SetModelInfo(i) ==
    /\ last = Nothing
    /\ info' = i
    /\ cached' = NoInfo
    /\ UNCHANGED <<unsupported, strayed, last>>

(* read_value(): the model is not checked.  The register holds w.           *)
ReadValue(k) ==
    /\ last = Nothing
    /\ k \notin unsupported
    /\ \E e \in get_register(k, info), w \in Stored :
        /\ e.reg.access # "writeonly"
        /\ IF e.reg.type = "FLOAT" THEN Ended("read", e, FALSE, 0, {})
           ELSE Ended("read", e, FALSE, decode_value(e.reg.type, w), {w})
        /\ UNCHANGED <<info, cached, unsupported, strayed>>

ByNameAlone(e, i) ==    \* mutant: the address is not compared
    \E m \in MapOf[i] : m.key = e.key

(* _validate_model_availability(): name and address, not the table.        *)
Available(e, i) == \E m \in MapOf[i] : m.key = e.key /\ m.reg.at = e.reg.at

(* What becomes of the value v, once the register is available.            *)
Encode(e, v, custom, done) ==
    \/ ~Valid(e.reg, v) /\ Ended("invalid", e, custom, v.n, {})
    \/ /\ Valid(e.reg, v) /\ ~Encodable(e.reg.type, v.n)
       /\ Ended("unencodable", e, custom, v.n, {})
    \/ /\ Valid(e.reg, v) /\ Encodable(e.reg.type, v.n)
       /\ Ended(done, e, custom, v.n,
                IF e.reg.type = "FLOAT" THEN {} ELSE {encode_value(e.reg.type, v.n)})

(* simulate_write(), and what follows it if the value is to be sent.       *)
Write(e, custom, done) ==
    /\ last = Nothing
    /\ Writable(e.reg)
    /\ LET unchecked == custom \/ info = NoInfo
           map == IF unchecked \/ cached # NoInfo THEN cached ELSE info
           refused == ~unchecked /\ ~Available(e, map)
       IN  /\ cached' = map
           /\ \/ refused /\ Ended("refused", e, custom, 0, {})
              \/ ~refused /\ \E v \in Values : Encode(e, v, custom, done)
    /\ UNCHANGED <<info, unsupported, strayed>>

WriteRegister(e, allow_custom_register) == Write(e, allow_custom_register, "written")

SetValue(k, dry_run) ==
    /\ last = Nothing
    /\ \E e \in get_register(k, info) : Write(e, FALSE, IF dry_run THEN "planned" ELSE "written")

BlamesTheGroup(e) == {m.key : m \in {m \in HeldFor(info) : m.reg.at \in Polled}}   \* mutant

Blamed(e) == {e.key}

(* read_batch() reads a register by itself: an Illegal Data Address.  An   *)
(* application polls the map of the model it knows.                        *)
Rejected ==
    /\ last = Nothing
    /\ \E e \in HeldFor(info) :
        /\ e.reg.at \in Polled
        /\ e.key \notin unsupported
        /\ e.reg.access # "writeonly"
        /\ ~Answers(e.reg)
        /\ unsupported' = unsupported \cup Blamed(e)
    /\ strayed' = (strayed \/ Is17(info) # Is17(Device))
    /\ UNCHANGED <<info, cached, last>>

(* reset_failed_registers()                                                *)
Reset ==
    /\ last = Nothing
    /\ unsupported # {}
    /\ unsupported' = {}
    /\ strayed' = FALSE
    /\ UNCHANGED <<info, cached, last>>

(* The caller takes the result of its call and goes on.                    *)
Taken ==
    /\ last # Nothing
    /\ last' = Nothing
    /\ UNCHANGED <<info, cached, unsupported, strayed>>

Next ==
    \/ \E i \in Infos : SetModelInfo(i)
    \/ \E k \in Keys : ReadValue(k)
    \/ \E k \in Keys, dry_run \in BOOLEAN : SetValue(k, dry_run)
    \/ \E e \in Held : WriteRegister(e, FALSE)
    \/ \E e \in CustomEntries, custom \in BOOLEAN : WriteRegister(e, custom)
    \/ Rejected
    \/ Reset
    \/ Taken

Spec == Init /\ [][Next]_vars

-----------------------------------------------------------------------------
(* A write that leaves the client once a model is set goes to the name and *)
(* the address of a register of that model, whatever was set before; if    *)
(* the application took the register from a map, of any model, it is       *)
(* exactly the one that the model's map defines                            *)
(* (_validate_model_availability).  A register made by the application may *)
(* differ from it in type and limits, and with allow_custom_register it    *)
(* need not be in the map.                                                 *)
WritesFitTheModel ==
    last.fate \in {"planned", "written"} /\ ~last.custom /\ last.model # NoInfo =>
        \E m \in MapOf[last.model] :
            /\ m.key = last.entry.key
            /\ m.reg.at = last.entry.reg.at
            /\ last.entry \in Entries => m = last.entry

(* A register that the map of the model has is never refused for the       *)
(* model: the map kept for the check is that of the model                  *)
(* (set_model_info, _validate_model_availability).                         *)
NothingRefused ==
    last.fate = "refused" => last.entry \notin build_register_map(last.model, Rooms)

(* The word that is sent for a number is read back as that number: no      *)
(* sign, no bit and no edge of its type is lost (encode_value,             *)
(* decode_value).                                                          *)
RoundTrip ==
    last.fate \in {"planned", "written"} =>
        \A w \in last.words : decode_value(last.entry.reg.type, w) = last.n

(* While the map in use is of the device's family, and was whenever a      *)
(* register was rejected, a key is recorded as unsupported only if the     *)
(* controller does not have the register it names, also after the model    *)
(* was set anew (_read_individual_fallback, reset_failed_registers;        *)
(* the docstring of get_unsupported_registers).                            *)
UnsupportedIsMissing ==
    ~strayed /\ Is17(info) = Is17(Device) =>
        \A e \in MapOf[info] : e.key \in unsupported => ~Answers(e.reg)
=============================================================================
