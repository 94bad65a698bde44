--------------------------- MODULE Registers_proofs ---------------------------
(***************************************************************************)
(* Proofs about RegisterAccess, for any models, any controller, any        *)
(* registers in use and any values. The invariant says that the map kept   *)
(* for the check is that of the model that is set, or none; what the fate  *)
(* of the last call says of its register, its value and its word; and      *)
(* under which map the recorded keys were rejected. The proofs rest on     *)
(* facts about RegisterCodec's encoders and decoders, which come first,    *)
(* and about the tables of RegisterMap: in every map that the package can  *)
(* build, the table and the address determine the rest of a register.      *)
(* And about RegisterGroups, for any map whose registers begin at          *)
(* different addresses, as those of the package do, and any limit: that    *)
(* the recursion cuts a map into runs, and what is asked for and decoded.  *)
(***************************************************************************)
EXTENDS RegisterAccess, RegisterGroups, FiniteSetTheorems, TLAPS

-----------------------------------------------------------------------------
(* The codec: for every type, every number and every word, an encoded      *)
(* number is a word and decodes to itself, a decoded word is a number of   *)
(* its type.                                                               *)

Checked == WordTypes \ {"BITFLAG"}

-----------------------------------------------------------------------------
(* The definitions, type by type.                                          *)
LEMMA Encoders ==
  ASSUME NEW n \in Int
  PROVE  /\ encode_value("UCHAR", n) = n
         /\ n < 0 => encode_value("INT8", n) = n + 256
         /\ ~(n < 0) => encode_value("INT8", n) = n
         /\ n < 0 => encode_value("INT16", n) = n + 65536
         /\ ~(n < 0) => encode_value("INT16", n) = n
         /\ encode_value("UINT16", n) = n
         /\ encode_value("BOOL", n) = n
         /\ encode_value("BITFLAG", n) = n % 256
  BY DEF encode_value

LEMMA Decoders ==
  ASSUME NEW w
  PROVE  /\ decode_value("UCHAR", w) = w % 256
         /\ decode_value("INT8", w) = Signed(w % 256, 256)
         /\ decode_value("INT16", w) = Signed(w, 65536)
         /\ decode_value("UINT16", w) = w
         /\ decode_value("BOOL", w) = w % 2
         /\ decode_value("BITFLAG", w) = w % 256
  BY DEF decode_value

LEMMA Halves ==
  ASSUME NEW w \in Int
  PROVE  /\ w >= 128 => Signed(w, 256) = w - 256
         /\ ~(w >= 128) => Signed(w, 256) = w
         /\ w >= 32768 => Signed(w, 65536) = w - 65536
         /\ ~(w >= 32768) => Signed(w, 65536) = w
<1>1. 256 \div 2 = 128 /\ 65536 \div 2 = 32768
  OBVIOUS
<1> QED
  BY <1>1 DEF Signed

(* The two sets of 65536 numbers, by their bounds.                         *)
LEMMA Bounds == MaxWord \in Int /\ MaxInt16 \in Int
  BY DEF MaxWord, MaxInt16

LEMMA WordBounds ==
  ASSUME NEW w \in Int
  PROVE  w \in Word <=> 0 <= w /\ w <= 65535
<1>1. w \in Word <=> 0 <= w /\ w <= MaxWord
  BY Bounds DEF Word
<1> QED
  BY <1>1 DEF MaxWord

LEMMA Int16Bounds ==
  ASSUME NEW n \in Int, NEW type, type = "INT16"
  PROVE  n \in RangeOf(type) <=> -32768 <= n /\ n <= 32767
<1>1. RangeOf(type) = -MaxInt16 - 1 .. MaxInt16
  BY DEF RangeOf
<1>2. n \in -MaxInt16 - 1 .. MaxInt16 <=> -MaxInt16 - 1 <= n /\ n <= MaxInt16
  BY Bounds
<1>3. n \in RangeOf(type) <=> -MaxInt16 - 1 <= n /\ n <= MaxInt16
  BY <1>1, <1>2, Zenon
<1>4. -MaxInt16 - 1 = -32768 /\ MaxInt16 = 32767
  BY DEF MaxInt16
<1> QED
  BY <1>3, <1>4, SMT

(* An encoded number is a word, and decodes to itself.                     *)
LEMMA EncodedIsAWord ==
  ASSUME NEW type \in Checked, NEW n \in RangeOf(type), n \in Int
  PROVE  encode_value(type, n) \in Word
<1>1. CASE type = "UCHAR"
  <2>1. encode_value(type, n) = n /\ 0 <= n /\ n <= 255
    BY <1>1 DEF RangeOf, encode_value
  <2> QED
    BY <2>1, WordBounds
<1>2. CASE type = "INT8"
  <2>0. -128 <= n /\ n <= 127
    BY <1>2 DEF RangeOf
  <2>1. encode_value(type, n) = IF n < 0 THEN n + 256 ELSE n
    BY <1>2 DEF encode_value
  <2>2. encode_value(type, n) \in Int /\ 0 <= encode_value(type, n)
          /\ encode_value(type, n) <= 65535
    BY <2>0, <2>1
  <2> QED
    BY <2>2, WordBounds
<1>3. CASE type = "INT16"
  <2>1. encode_value(type, n) = IF n < 0 THEN n + 65536 ELSE n
    BY <1>3 DEF encode_value
  <2>2. -32768 <= n /\ n <= 32767
    BY <1>3, Int16Bounds
  <2>3. encode_value(type, n) \in Int /\ 0 <= encode_value(type, n)
          /\ encode_value(type, n) <= 65535
    BY <2>1, <2>2
  <2> QED
    BY <2>3, WordBounds
<1>4. CASE type = "UINT16"
  BY <1>4 DEF RangeOf, encode_value
<1>5. CASE type = "BOOL"
  <2>1. encode_value(type, n) = n /\ 0 <= n /\ n <= 1
    BY <1>5 DEF RangeOf, encode_value
  <2> QED
    BY <2>1, WordBounds
<1> QED
  BY <1>1, <1>2, <1>3, <1>4, <1>5 DEF Checked, WordTypes, Types

LEMMA DecodesToItself ==
  ASSUME NEW type \in Checked, NEW n \in RangeOf(type), n \in Int
  PROVE  decode_value(type, encode_value(type, n)) = n
<1>1. CASE type = "UCHAR"
  <2>1. n \in 0 .. 255 /\ encode_value("UCHAR", n) = n
    BY <1>1 DEF RangeOf, encode_value
  <2> QED
    BY <1>1, <2>1, Decoders
<1>2. CASE type = "INT8"
  <2>1. n \in -128 .. 127
    BY <1>2 DEF RangeOf
  <2>2. CASE n < 0
    <3>1. encode_value("INT8", n) = n + 256 /\ (n + 256) % 256 = n + 256 /\ n + 256 >= 128
      BY <2>1, <2>2, Encoders
    <3>2. Signed(n + 256, 256) = n
      BY <2>1, <3>1, Halves
    <3> QED
      BY <1>2, <3>1, <3>2, Decoders
  <2>3. CASE ~(n < 0)
    <3>1. encode_value("INT8", n) = n /\ n % 256 = n /\ ~(n >= 128)
      BY <2>1, <2>3, Encoders
    <3> QED
      BY <1>2, <3>1, Decoders, Halves
  <2> QED
    BY <2>2, <2>3
<1>3. CASE type = "INT16"
  <2>1. -32768 <= n /\ n <= 32767
    BY <1>3, Int16Bounds
  <2>2. CASE n < 0
    <3>1. encode_value("INT16", n) = n + 65536
      BY <2>2, Encoders
    <3>2. n + 65536 >= 32768 /\ n + 65536 \in Int
      BY <2>1
    <3>3. Signed(n + 65536, 65536) = n + 65536 - 65536
      BY <3>2, Halves
    <3>4. decode_value("INT16", n + 65536) = n
      BY <3>3, Decoders
    <3> QED
      BY <1>3, <3>1, <3>4
  <2>3. CASE ~(n < 0)
    <3>1. encode_value("INT16", n) = n /\ ~(n >= 32768)
      BY <2>1, <2>3, Encoders
    <3> QED
      BY <1>3, <3>1, Decoders, Halves
  <2> QED
    BY <2>2, <2>3
<1>4. CASE type = "UINT16"
  BY <1>4, Encoders, Decoders
<1>5. CASE type = "BOOL"
  <2>1. (n = 0 \/ n = 1) /\ encode_value("BOOL", n) = n
    BY <1>5 DEF RangeOf, encode_value
  <2> QED
    BY <1>5, <2>1, Decoders
<1> QED
  BY <1>1, <1>2, <1>3, <1>4, <1>5 DEF Checked, WordTypes, Types

(* Whatever the controller holds decodes to a number of the type.          *)
LEMMA DecodedIsInRange ==
  ASSUME NEW type \in WordTypes, NEW w \in Word
  PROVE  decode_value(type, w) \in RangeOf(type)
<1>0. w \in Int /\ 0 <= w /\ w <= 65535
  <2>1. w \in Int
    BY Bounds DEF Word
  <2> QED
    BY <2>1, WordBounds
<1>a. w % 256 \in 0 .. 255 /\ w % 2 \in 0 .. 1
  BY <1>0
<1>1. CASE type = "UCHAR"
  BY <1>a, <1>1 DEF RangeOf, decode_value
<1>2. CASE type = "INT8"
  <2>1. Signed(w % 256, 256) \in -128 .. 127
    BY <1>a, Halves
  <2> QED
    BY <1>2, <2>1 DEF RangeOf, decode_value
<1>3. CASE type = "INT16"
  <2>1. Signed(w, 65536) \in Int /\ -32768 <= Signed(w, 65536) /\ Signed(w, 65536) <= 32767
    BY <1>0, Halves
  <2>2. decode_value(type, w) = Signed(w, 65536)
    BY <1>3, Decoders
  <2> QED
    BY <1>3, <2>1, <2>2, Int16Bounds
<1>4. CASE type = "UINT16"
  BY <1>4 DEF RangeOf, decode_value
<1>5. CASE type = "BOOL"
  <2>1. w % 2 \in {0, 1}
    BY <1>a
  <2> QED
    BY <1>5, <2>1 DEF RangeOf, decode_value
<1>6. CASE type = "BITFLAG"
  BY <1>a, <1>6 DEF RangeOf, decode_value
<1> QED
  BY <1>1, <1>2, <1>3, <1>4, <1>5, <1>6 DEF WordTypes, Types

-----------------------------------------------------------------------------
(* The two facts a caller relies on.                                       *)
LEMMA RangesAreWhole ==
  ASSUME NEW type \in WordTypes, NEW n \in RangeOf(type)
  PROVE  n \in Int
<1>1. CASE type \in {"UCHAR", "INT8", "BOOL", "BITFLAG"}
  BY <1>1 DEF RangeOf
<1>2. CASE type = "INT16"
  <2>1. RangeOf(type) = -MaxInt16 - 1 .. MaxInt16
    BY <1>2 DEF RangeOf
  <2> QED
    BY <2>1, Bounds
<1>3. CASE type = "UINT16"
  <2>1. RangeOf(type) = 0 .. MaxWord
    BY <1>3 DEF RangeOf, Word
  <2> QED
    BY <2>1, Bounds
<1> QED
  BY <1>1, <1>2, <1>3 DEF WordTypes, Types

(* A number that its type can encode is sent as one word, and the word is  *)
(* read back as the number, at every edge of every type; bit flags alone   *)
(* lose bits (encode_value, decode_value).                                 *)
THEOREM WrittenIsReadBack ==
  ASSUME NEW type \in Checked, NEW n, Encodable(type, n)
  PROVE  /\ encode_value(type, n) \in Word
         /\ decode_value(type, encode_value(type, n)) = n
<1>1. n \in RangeOf(type)
  BY DEF Encodable, Checked, WordTypes
<1>2. n \in Int
  BY <1>1, RangesAreWhole DEF Checked
<1> QED
  BY <1>1, <1>2, EncodedIsAWord, DecodesToItself

-----------------------------------------------------------------------------
(* The register maps, whatever the model, its circuits, zones and rooms:   *)
(* the address of a register says the rest of its row, so that two maps of *)
(* a family never disagree about an address.                               *)

(* The words of room r of a zone module are counted from 0; a module has   *)
(* 65 addresses, of which the first two are of the module itself.          *)
ZoneWords == 2000 .. 2649
InZone(a) == (a - 2000) % 65
InRoom(a) == (InZone(a) - 2) % 7
RoomWords(places) == {a \in ZoneWords : InZone(a) >= 2 /\ InRoom(a) \in places}

FloatAt ==
    {74, 76, 78, 82, 84, 88, 1000, 1002, 1030, 1048, 1086, 1088, 1690, 1692, 1696, 1698}
    \cup {1790, 1792, 1850, 1852, 1854, 1857, 1870, 1872}
    \cup {4108, 4112, 4120, 4122, 4124, 4126, 4128}
    \cup Every(2, 1008, 1014) \cup Every(2, 1050, 1072) \cup Every(2, 1200, 1210)
    \cup Every(2, 1350, 1392) \cup Every(2, 1401, 1441) \cup Every(2, 1457, 1483)
    \cup Every(2, 1650, 1662) \cup Every(2, 1716, 1722) \cup Every(2, 1748, 1762)
    \cup Every(2, 4010, 4018) \cup Every(2, 4040, 4048) \cup RoomWords({0, 2})

Int16At ==
    {86, 1074, 4020, 4021, 4050, 4051} \cup 1104 .. 1106 \cup 1108 .. 1109
    \cup 1120 .. 1123 \cup 1226 .. 1231

Uint16At == {1004} \cup 1110 .. 1118

BoolAt == 1710 .. 1713

UcharAt ==
    {90, 1005, 1006, 1124, 1694, 1695, 1714, 1715, 1856, 1874, 1999, 4001, 4002, 4022, 4052}
    \cup 1032 .. 1034 \cup 1090 .. 1093 \cup 1098 .. 1103 \cup 1147 .. 1152 \cup 1220 .. 1225
    \cup 1393 .. 1399 \cup 1442 .. 1455 \cup 1484 .. 1504 \cup 1505 .. 1511 \cup 1680 .. 1683
    \cup {a \in ZoneWords : InZone(a) < 2} \cup RoomWords({4, 5, 6})

Places == FloatAt \cup Int16At \cup Uint16At \cup BoolAt \cup UcharAt

VolatileAt ==
    {74, 76, 78, 82, 84, 86, 88, 1690, 1692, 1714, 1715, 4108, 4112}
    \cup 1220 .. 1231 \cup Every(2, 1650, 1662) \cup 1710 .. 1713 \cup Every(2, 1716, 1722)
    \cup RoomWords({0, 2, 4, 5})

TypeOf(a) ==
    IF a \in FloatAt THEN "FLOAT" ELSE IF a \in Int16At THEN "INT16"
    ELSE IF a \in Uint16At THEN "UINT16" ELSE IF a \in BoolAt THEN "BOOL" ELSE "UCHAR"

AccessOf(a) ==
    IF a \in EEPROM_SENSITIVE_ADDRESSES THEN "eeprom" ELSE IF a \in VolatileAt THEN "volatile"
    ELSE IF a \in {1696, 1698} THEN "cyclic" ELSE IF a = 1999 THEN "writeonly" ELSE "read"

LimitsOf(a) ==
    IF a \in {86, 1714, 1715} \cup 1220 .. 1225 \cup RoomWords({4}) THEN <<0, 100>>
    ELSE IF a \in 1120 .. 1123 \cup 1226 .. 1231 THEN <<-40, 40>>
    ELSE IF a \in {1856} \cup RoomWords({5}) THEN <<0, 4>>
    ELSE IF a \in {1005} \cup 1393 .. 1399 THEN <<0, 5>>
    ELSE IF a = 1032 THEN <<35, 95>>
    ELSE IF a = 1033 THEN <<30, 50>>
    ELSE IF a = 1034 THEN <<46, 67>>
    ELSE IF a \in 1442 .. 1448 THEN <<0, 50>>
    ELSE IF a \in 1449 .. 1455 THEN <<20, 90>>
    ELSE IF a \in 1484 .. 1490 THEN <<0, 36>>
    ELSE IF a \in 1491 .. 1497 THEN <<8, 30>>
    ELSE IF a \in 1505 .. 1511 THEN <<0, 30>>
    ELSE IF a = 1694 THEN <<20, 65>>
    ELSE IF a = 1695 THEN <<10, 25>>
    ELSE NoLimits

Row(r) ==
    /\ r.at \in Places
    /\ r = [table |-> "input", at |-> r.at, type |-> TypeOf(r.at),
            access |-> AccessOf(r.at), limits |-> LimitsOf(r.at)]

(* The rows that one line of the map gives.                                *)
Gives(type, access, limits, addresses) ==
    \A a \in addresses :
        a \in Places /\ TypeOf(a) = type /\ AccessOf(a) = access /\ LimitsOf(a) = limits

LEMMA GivesRows ==
    ASSUME NEW type, NEW access, NEW limits, NEW addresses,
           Gives(type, access, limits, addresses)
    PROVE  \A r \in In("input", type, access, limits, addresses) : Row(r)
BY DEF Gives, In, Row

LEMMA ReadRows ==
    ASSUME NEW type, NEW addresses, Gives(type, "read", NoLimits, addresses)
    PROVE  \A r \in Read(type, addresses) : Row(r)
BY GivesRows DEF Read

LEMMA SetRows ==
    ASSUME NEW type, NEW access, NEW addresses, Gives(type, access, NoLimits, addresses)
    PROVE  \A r \in Set(type, access, addresses) : Row(r)
BY GivesRows DEF Set

LEMMA Set2Rows ==
    ASSUME NEW type, NEW access, NEW min, NEW max, NEW addresses,
           Gives(type, access, <<min, max>>, addresses)
    PROVE  \A r \in Set2(type, access, min, max, addresses) : Row(r)
BY GivesRows DEF Set2

(* What every map of the shared families has.                              *)
LEMMA SystemRows ==
    \A r \in system_registers \cup hp_operation \cup hp_pumps \cup hp_bivalence \cup
        hp_status_registers \cup energy_registers : Row(r)
<1> USE DEF Gives, Places, FloatAt, Int16At, Uint16At, BoolAt, UcharAt, Every, RoomWords,
            InZone, InRoom, ZoneWords, TypeOf, AccessOf, LimitsOf, VolatileAt,
            EEPROM_SENSITIVE_ADDRESSES
<1>1. Gives("UCHAR", "read", NoLimits, {90, 1006})
    OBVIOUS
<1>2. Gives("UINT16", "read", NoLimits, {1004})
    OBVIOUS
<1>3. Gives("FLOAT", "read", NoLimits, {1000, 1002, 1030, 1048} \cup Every(2, 1008, 1014) \cup
    Every(2, 1050, 1066))
    OBVIOUS
<1>4. Gives("UCHAR", "eeprom", <<0, 5>>, {1005})
    OBVIOUS
<1>5. Gives("UCHAR", "eeprom", <<35, 95>>, {1032})
    OBVIOUS
<1>6. Gives("UCHAR", "eeprom", <<30, 50>>, {1033})
    OBVIOUS
<1>7. Gives("UCHAR", "eeprom", <<46, 67>>, {1034})
    OBVIOUS
<1>8. Gives("UCHAR", "read", NoLimits, 1090 .. 1093 \cup 1098 .. 1103)
    OBVIOUS
<1>9. Gives("INT16", "read", NoLimits, 1104 .. 1106 \cup 1108 .. 1109)
    OBVIOUS
<1>10. Gives("UINT16", "read", NoLimits, 1110 .. 1118)
    OBVIOUS
<1>11. Gives("INT16", "eeprom", <<-40, 40>>, 1120 .. 1123)
    OBVIOUS
<1>12. Gives("UCHAR", "read", NoLimits, {1124} \cup 1147 .. 1152)
    OBVIOUS
<1>13. Gives("FLOAT", "read", NoLimits, Every(2, 1748, 1762) \cup {1790, 1792, 4120, 4122,
    4126, 4128})
    OBVIOUS
<1> HIDE DEF Gives, Places, FloatAt, Int16At, Uint16At, BoolAt, UcharAt, Every, RoomWords,
            InZone, InRoom, ZoneWords, TypeOf, AccessOf, LimitsOf, VolatileAt,
            EEPROM_SENSITIVE_ADDRESSES
<1>14. \A r \in system_registers : Row(r)
    BY <1>1, <1>2, <1>3, <1>4, <1>5, <1>6, <1>7, ReadRows, Set2Rows DEF system_registers
<1>15. \A r \in hp_operation : Row(r)
    BY <1>8, ReadRows DEF hp_operation
<1>16. \A r \in hp_pumps : Row(r)
    BY <1>9, <1>10, ReadRows DEF hp_pumps
<1>17. \A r \in hp_bivalence : Row(r)
    BY <1>11, Set2Rows DEF hp_bivalence
<1>18. \A r \in hp_status_registers : Row(r)
    BY <1>15, <1>16, <1>17, <1>12, ReadRows DEF hp_status_registers
<1>19. \A r \in energy_registers : Row(r)
    BY <1>13, ReadRows DEF energy_registers
<1> QED
    BY <1>14, <1>15, <1>16, <1>17, <1>18, <1>19

LEMMA DemandRows ==
    \A r \in glt_demands \cup glt_registers \cup error_acknowledge \cup humidity_sensor :
        Row(r)
<1> USE DEF Gives, Places, FloatAt, Int16At, Uint16At, BoolAt, UcharAt, Every, RoomWords,
            InZone, InRoom, ZoneWords, TypeOf, AccessOf, LimitsOf, VolatileAt,
            EEPROM_SENSITIVE_ADDRESSES
<1>1. Gives("FLOAT", "cyclic", NoLimits, {1696, 1698})
    OBVIOUS
<1>2. Gives("UCHAR", "eeprom", <<20, 65>>, {1694})
    OBVIOUS
<1>3. Gives("UCHAR", "eeprom", <<10, 25>>, {1695})
    OBVIOUS
<1>4. Gives("FLOAT", "volatile", NoLimits, {1690, 1692} \cup Every(2, 1716, 1722))
    OBVIOUS
<1>5. Gives("BOOL", "volatile", NoLimits, 1710 .. 1713)
    OBVIOUS
<1>6. Gives("UCHAR", "writeonly", NoLimits, {1999})
    OBVIOUS
<1>7. Gives("FLOAT", "read", NoLimits, {1392})
    OBVIOUS
<1> HIDE DEF Gives, Places, FloatAt, Int16At, Uint16At, BoolAt, UcharAt, Every, RoomWords,
            InZone, InRoom, ZoneWords, TypeOf, AccessOf, LimitsOf, VolatileAt,
            EEPROM_SENSITIVE_ADDRESSES
<1>8. \A r \in glt_demands : Row(r)
    BY <1>1, <1>2, <1>3, SetRows, Set2Rows DEF glt_demands
<1>9. \A r \in glt_registers : Row(r)
    BY <1>4, <1>8, <1>5, SetRows DEF glt_registers
<1>10. \A r \in error_acknowledge : Row(r)
    BY <1>6, SetRows DEF error_acknowledge
<1>11. \A r \in humidity_sensor : Row(r)
    BY <1>7, ReadRows DEF humidity_sensor
<1> QED
    BY <1>8, <1>9, <1>10, <1>11

(* What a map has if it was detected.                                      *)
LEMMA OptionRows ==
    \A r \in cascade_registers \cup more_cascade_registers \cup solar_registers \cup
        isc_registers \cup pv_registers : Row(r)
<1> USE DEF Gives, Places, FloatAt, Int16At, Uint16At, BoolAt, UcharAt, Every, RoomWords,
            InZone, InRoom, ZoneWords, TypeOf, AccessOf, LimitsOf, VolatileAt,
            EEPROM_SENSITIVE_ADDRESSES
<1>1. Gives("FLOAT", "read", NoLimits, Every(2, 1200, 1210))
    OBVIOUS
<1>2. Gives("UCHAR", "volatile", <<0, 100>>, 1220 .. 1225)
    OBVIOUS
<1>3. Gives("INT16", "volatile", <<-40, 40>>, 1226 .. 1231)
    OBVIOUS
<1>4. Gives("FLOAT", "read", NoLimits, {1850, 1852, 1854, 1857})
    OBVIOUS
<1>5. Gives("UCHAR", "eeprom", <<0, 4>>, {1856})
    OBVIOUS
<1>6. Gives("FLOAT", "read", NoLimits, {1870, 1872})
    OBVIOUS
<1>7. Gives("UCHAR", "read", NoLimits, {1874})
    OBVIOUS
<1>8. Gives("FLOAT", "volatile", NoLimits, {74, 76, 78, 82, 84, 88})
    OBVIOUS
<1>9. Gives("INT16", "volatile", <<0, 100>>, {86})
    OBVIOUS
<1> HIDE DEF Gives, Places, FloatAt, Int16At, Uint16At, BoolAt, UcharAt, Every, RoomWords,
            InZone, InRoom, ZoneWords, TypeOf, AccessOf, LimitsOf, VolatileAt,
            EEPROM_SENSITIVE_ADDRESSES
<1>10. \A r \in cascade_registers : Row(r)
    BY <1>1, <1>2, ReadRows, Set2Rows DEF cascade_registers
<1>11. \A r \in more_cascade_registers : Row(r)
    BY <1>3, Set2Rows DEF more_cascade_registers
<1>12. \A r \in solar_registers : Row(r)
    BY <1>4, <1>5, ReadRows, Set2Rows DEF solar_registers
<1>13. \A r \in isc_registers : Row(r)
    BY <1>6, <1>7, ReadRows DEF isc_registers
<1>14. \A r \in pv_registers : Row(r)
    BY <1>8, <1>9, SetRows, Set2Rows DEF pv_registers
<1> QED
    BY <1>10, <1>11, <1>12, <1>13, <1>14

(* What the map of a Navigator 10 has.                                     *)
LEMMA Navigator10Rows ==
    \A r \in heat_sink_registers \cup groundwater_registers \cup additional_fault_registers
        \cup external_pump_demand_registers \cup power_limit_registers \cup booster_registers :
        Row(r)
<1> USE DEF Gives, Places, FloatAt, Int16At, Uint16At, BoolAt, UcharAt, Every, RoomWords,
            InZone, InRoom, ZoneWords, TypeOf, AccessOf, LimitsOf, VolatileAt,
            EEPROM_SENSITIVE_ADDRESSES
<1>1. Gives("FLOAT", "read", NoLimits, {1068, 1070, 1072})
    OBVIOUS
<1>2. Gives("INT16", "read", NoLimits, {1074})
    OBVIOUS
<1>3. Gives("FLOAT", "read", NoLimits, {1086, 1088})
    OBVIOUS
<1>4. Gives("UCHAR", "read", NoLimits, 1680 .. 1683)
    OBVIOUS
<1>5. Gives("UCHAR", "volatile", <<0, 100>>, {1714, 1715})
    OBVIOUS
<1>6. Gives("FLOAT", "volatile", NoLimits, {4108, 4112})
    OBVIOUS
<1>7. Gives("FLOAT", "read", NoLimits, {4124})
    OBVIOUS
<1>8. Gives("UCHAR", "read", NoLimits, {4001, 4002, 4022, 4052})
    OBVIOUS
<1>9. Gives("FLOAT", "read", NoLimits, Every(2, 4010, 4018) \cup Every(2, 4040, 4048))
    OBVIOUS
<1>10. Gives("INT16", "read", NoLimits, {4020, 4021, 4050, 4051})
    OBVIOUS
<1> HIDE DEF Gives, Places, FloatAt, Int16At, Uint16At, BoolAt, UcharAt, Every, RoomWords,
            InZone, InRoom, ZoneWords, TypeOf, AccessOf, LimitsOf, VolatileAt,
            EEPROM_SENSITIVE_ADDRESSES
<1>11. \A r \in heat_sink_registers : Row(r)
    BY <1>1, <1>2, ReadRows DEF heat_sink_registers
<1>12. \A r \in groundwater_registers : Row(r)
    BY <1>3, ReadRows DEF groundwater_registers
<1>13. \A r \in additional_fault_registers : Row(r)
    BY <1>4, ReadRows DEF additional_fault_registers
<1>14. \A r \in external_pump_demand_registers : Row(r)
    BY <1>5, Set2Rows DEF external_pump_demand_registers
<1>15. \A r \in power_limit_registers : Row(r)
    BY <1>6, <1>7, ReadRows, SetRows DEF power_limit_registers
<1>16. \A r \in booster_registers : Row(r)
    BY <1>8, <1>9, <1>10, ReadRows DEF booster_registers
<1> QED
    BY <1>11, <1>12, <1>13, <1>14, <1>15, <1>16

(* The heating circuits.                                                   *)
LEMMA CircuitRows ==
    ASSUME NEW c \in 0 .. 6
    PROVE  \A r \in circuit_floats(c) \cup circuit_setpoints(c) \cup
        heating_circuit_registers(c) : Row(r)
<1> USE DEF Gives, Places, FloatAt, Int16At, Uint16At, BoolAt, UcharAt, Every, RoomWords,
            InZone, InRoom, ZoneWords, TypeOf, AccessOf, LimitsOf, VolatileAt,
            EEPROM_SENSITIVE_ADDRESSES
<1>1. Gives("FLOAT", "eeprom", NoLimits, {1401 + 2 * c, 1415 + 2 * c, 1429 + 2 * c, 1457 + 2 *
    c, 1471 + 2 * c})
    OBVIOUS
<1>2. Gives("FLOAT", "read", NoLimits, {1350 + 2 * c, 1364 + 2 * c, 1378 + 2 * c})
    OBVIOUS
<1>3. Gives("UCHAR", "eeprom", <<0, 5>>, {1393 + c})
    OBVIOUS
<1>4. Gives("UCHAR", "eeprom", <<0, 50>>, {1442 + c})
    OBVIOUS
<1>5. Gives("UCHAR", "eeprom", <<20, 90>>, {1449 + c})
    OBVIOUS
<1>6. Gives("UCHAR", "eeprom", <<0, 36>>, {1484 + c})
    OBVIOUS
<1>7. Gives("UCHAR", "eeprom", <<8, 30>>, {1491 + c})
    OBVIOUS
<1>8. Gives("UCHAR", "read", NoLimits, {1498 + c})
    OBVIOUS
<1>9. Gives("UCHAR", "eeprom", <<0, 30>>, {1505 + c})
    OBVIOUS
<1>10. Gives("FLOAT", "volatile", NoLimits, {1650 + 2 * c})
    OBVIOUS
<1> HIDE DEF Gives, Places, FloatAt, Int16At, Uint16At, BoolAt, UcharAt, Every, RoomWords,
            InZone, InRoom, ZoneWords, TypeOf, AccessOf, LimitsOf, VolatileAt,
            EEPROM_SENSITIVE_ADDRESSES
<1>11. \A r \in circuit_floats(c) : Row(r)
    BY <1>1, SetRows DEF circuit_floats
<1>12. \A r \in circuit_setpoints(c) : Row(r)
    BY <1>2, <1>3, <1>11, <1>4, <1>5, ReadRows, Set2Rows DEF circuit_setpoints
<1>13. \A r \in heating_circuit_registers(c) : Row(r)
    BY <1>12, <1>6, <1>7, <1>8, <1>9, <1>10, ReadRows, SetRows, Set2Rows DEF
        heating_circuit_registers
<1> QED
    BY <1>11, <1>12, <1>13

(* The zone modules, of at most eight rooms of seven words.                *)
LEMMA PlaceInRoom ==
    ASSUME NEW z \in 1 .. 10, NEW q \in 1 .. 8, NEW place \in 0 .. 6, NEW a,
           a = 2000 + (z - 1) * 65 + 2 + (q - 1) * 7 + place
    PROVE  a \in ZoneWords /\ InZone(a) >= 2 /\ InRoom(a) = place
<1> DEFINE o == 2 + (q - 1) * 7 + place
<1>1. o \in 2 .. 57 /\ a = 2000 + (z - 1) * 65 + o
    OBVIOUS
<1> HIDE DEF o
<1>2. a \in ZoneWords
    BY <1>1 DEF ZoneWords
<1>3. (a - 2000) % 65 = o
    BY <1>1
<1>4. (o - 2) % 7 = place
    BY DEF o
<1> QED
    BY <1>1, <1>2, <1>3, <1>4 DEF InZone, InRoom

(* The five words of a room that are registers.                            *)
LEMMA RoomPlaces ==
    ASSUME NEW a \in ZoneWords, InZone(a) >= 2, InRoom(a) \in {0, 2, 4, 5, 6}
    PROVE  /\ a \in Places
           /\ TypeOf(a) = IF InRoom(a) \in {0, 2} THEN "FLOAT" ELSE "UCHAR"
           /\ AccessOf(a) = IF InRoom(a) = 6 THEN "read" ELSE "volatile"
           /\ LimitsOf(a) = CASE InRoom(a) = 4 -> <<0, 100>>
                              [] InRoom(a) = 5 -> <<0, 4>>
                              [] OTHER -> NoLimits
<1>1. a \in Int /\ 2000 <= a /\ a <= 2649 /\ ~(InZone(a) < 2)
    BY DEF ZoneWords, InZone
<1>2. \A places : a \in RoomWords(places) <=> InRoom(a) \in places
    BY DEF RoomWords
<1>3. a \in FloatAt <=> InRoom(a) \in {0, 2}
    BY <1>1, <1>2 DEF FloatAt, Every
<1>4. a \notin Int16At /\ a \notin Uint16At /\ a \notin BoolAt
    BY <1>1 DEF Int16At, Uint16At, BoolAt
<1>5. a \in UcharAt <=> a \in RoomWords({4, 5, 6})
    BY <1>1 DEF UcharAt
<1>6. a \notin EEPROM_SENSITIVE_ADDRESSES
    BY <1>1 DEF EEPROM_SENSITIVE_ADDRESSES, Every
<1>7. a \in VolatileAt <=> InRoom(a) \in {0, 2, 4, 5}
    BY <1>1, <1>2 DEF VolatileAt, Every
<1>8. AccessOf(a) = IF InRoom(a) = 6 THEN "read" ELSE "volatile"
    BY <1>1, <1>6, <1>7 DEF AccessOf
<1>9. /\ a \in {86, 1714, 1715} \cup 1220 .. 1225 \cup RoomWords({4}) <=> InRoom(a) = 4
      /\ a \in {1856} \cup RoomWords({5}) <=> InRoom(a) = 5
    BY <1>1, <1>2
<1>10. LimitsOf(a) = CASE InRoom(a) = 4 -> <<0, 100>>
                       [] InRoom(a) = 5 -> <<0, 4>>
                       [] OTHER -> NoLimits
    BY <1>1, <1>9 DEF LimitsOf
<1>11. a \in Places
    BY <1>2, <1>3, <1>5 DEF Places
<1>12. TypeOf(a) = IF InRoom(a) \in {0, 2} THEN "FLOAT" ELSE "UCHAR"
    BY <1>3, <1>4 DEF TypeOf
<1> QED
    BY <1>8, <1>10, <1>11, <1>12

LEMMA ZoneRows ==
    ASSUME NEW z \in 1 .. 10, NEW rooms \in 1 .. 8
    PROVE  \A r \in zone_module_registers(z, rooms) : Row(r)
<1> DEFINE base == 2000 + (z - 1) * 65
           room == {base + 2 + (q - 1) * 7 : q \in 1 .. rooms}
<1>1. \A b \in room, place \in 0 .. 6 :
          b + place \in ZoneWords /\ InZone(b + place) >= 2 /\ InRoom(b + place) = place
  <2>1. SUFFICES ASSUME NEW q \in 1 .. rooms, NEW place \in 0 .. 6
                 PROVE  LET a == base + 2 + (q - 1) * 7 + place
                        IN  a \in ZoneWords /\ InZone(a) >= 2 /\ InRoom(a) = place
      OBVIOUS
  <2>2. q \in 1 .. 8
      OBVIOUS
  <2> QED
      BY <2>2, PlaceInRoom
<1>2. ASSUME NEW b \in room, NEW place \in {0, 2, 4, 5, 6}
      PROVE  /\ b + place \in Places
             /\ TypeOf(b + place) = IF place \in {0, 2} THEN "FLOAT" ELSE "UCHAR"
             /\ AccessOf(b + place) = IF place = 6 THEN "read" ELSE "volatile"
             /\ LimitsOf(b + place) = CASE place = 4 -> <<0, 100>>
                                       [] place = 5 -> <<0, 4>>
                                       [] OTHER -> NoLimits
  <2> DEFINE a == b + place
  <2>1. a \in ZoneWords /\ InZone(a) >= 2 /\ InRoom(a) = place
      BY <1>1
  <2> HIDE DEF a
  <2>2. /\ a \in Places
        /\ TypeOf(a) = IF place \in {0, 2} THEN "FLOAT" ELSE "UCHAR"
        /\ AccessOf(a) = IF place = 6 THEN "read" ELSE "volatile"
        /\ LimitsOf(a) = CASE place = 4 -> <<0, 100>>
                           [] place = 5 -> <<0, 4>>
                           [] OTHER -> NoLimits
      BY <2>1, RoomPlaces
  <2> QED
      BY <2>2 DEF a
<1>3. \A b \in room : b + 0 = b
    OBVIOUS
<1>4. /\ base \in ZoneWords /\ InZone(base) = 0
      /\ base + 1 \in ZoneWords /\ InZone(base + 1) = 1
    BY DEF ZoneWords, InZone
<1> HIDE DEF base, room
<1>5. Gives("UCHAR", "read", NoLimits, {base, base + 1})
    BY <1>4 DEF Gives, Places, FloatAt, Int16At, Uint16At, BoolAt, UcharAt, Every, RoomWords,
                ZoneWords, TypeOf, AccessOf, LimitsOf, VolatileAt, EEPROM_SENSITIVE_ADDRESSES
<1>6. Gives("UCHAR", "read", NoLimits, {b + 6 : b \in room})
    BY <1>2 DEF Gives
<1>7. Gives("FLOAT", "volatile", NoLimits, room)
    BY <1>2, <1>3 DEF Gives
<1>8. Gives("FLOAT", "volatile", NoLimits, {b + 2 : b \in room})
    BY <1>2 DEF Gives
<1>9. Gives("UCHAR", "volatile", <<0, 100>>, {b + 4 : b \in room})
    BY <1>2 DEF Gives
<1>10. Gives("UCHAR", "volatile", <<0, 4>>, {b + 5 : b \in room})
    BY <1>2 DEF Gives
<1>11. \A r \in Read("UCHAR", {base, base + 1} \cup {b + 6 : b \in room}) : Row(r)
    BY <1>5, <1>6, ReadRows DEF Gives
<1>12. \A r \in Set("FLOAT", "volatile", room \cup {b + 2 : b \in room}) : Row(r)
    BY <1>7, <1>8, SetRows DEF Gives
<1>13. \A r \in Set2("UCHAR", "volatile", 0, 100, {b + 4 : b \in room}) : Row(r)
    BY <1>9, Set2Rows
<1>14. \A r \in Set2("UCHAR", "volatile", 0, 4, {b + 5 : b \in room}) : Row(r)
    BY <1>10, Set2Rows
<1> QED
    BY <1>11, <1>12, <1>13, <1>14 DEF zone_module_registers, base, room

(* The maps of the shared families.                                        *)
LEMMA UnitRows ==
    ASSUME NEW circuits \in SUBSET (0 .. 6), NEW zones \in 0 .. 10, NEW rooms \in 1 .. 8
    PROVE  \A r \in units(circuits, zones, rooms) : Row(r)
<1>1. \A c \in circuits : \A r \in heating_circuit_registers(c) : Row(r)
    BY CircuitRows
<1>2. \A z \in 1 .. zones : \A r \in zone_module_registers(z, rooms) : Row(r)
  <2>1. \A z \in 1 .. zones : z \in 1 .. 10
      OBVIOUS
  <2> QED
      BY <2>1, ZoneRows
<1> QED
    BY <1>1, <1>2 DEF units

LEMMA SharedRows ==
    \A r \in always \cup navigator_10_only \cup cascade_registers \cup more_cascade_registers
                 \cup solar_registers \cup isc_registers \cup pv_registers : Row(r)
BY SystemRows, DemandRows, OptionRows, Navigator10Rows DEF always, navigator_10_only

LEMMA DetectedRows ==
    ASSUME NEW i \in Info, i.model # "Navigator 1.7", NEW rooms \in 1 .. 8
    PROVE  \A r \in DetectedMap(i, rooms) : Row(r)
<1>1. i.circuits \in SUBSET (0 .. 6) /\ i.zones \in 0 .. 10
    BY DEF Info
<1>2. \A r \in units(i.circuits, i.zones, rooms) : Row(r)
    BY <1>1, UnitRows
<1> QED
    BY <1>2, SharedRows DEF DetectedMap

LEMMA ManualRows ==
    ASSUME NEW circuits \in SUBSET (0 .. 6), NEW zones \in 0 .. 10, NEW rooms \in 1 .. 8
    PROVE  \A r \in ManualMap(circuits, zones, rooms) : Row(r)
<1> DEFINE all == IF circuits = {} THEN 0 .. 6 ELSE circuits
<1>1. all \in SUBSET (0 .. 6)
    OBVIOUS
<1> HIDE DEF all
<1>2. \A r \in units(all, zones, rooms) : Row(r)
    BY <1>1, UnitRows
<1> QED
    BY <1>2, SharedRows DEF ManualMap, all

(* The Navigator 1.7: the address says the table as well.                  *)
Input17 == {74, 76, 78, 82, 4122} \cup Every(2, 1000, 1088) \cup 1500 .. 1524
Holding17 == Every(2, 2000, 2152)
Places17 == Input17 \cup Holding17 \cup {3000, 3003}

Table17(a) ==
    IF a \in Input17 THEN "input" ELSE IF a \in Holding17 THEN "holding" ELSE "coil"

Type17(a) ==
    IF a \in 1500 .. 1524 THEN IF a = 1501 THEN "UCHAR" ELSE "UINT16"
    ELSE IF a \in {3000, 3003} THEN "BOOL"
    ELSE IF a \in {2146, 2148} THEN "INT16"
    ELSE IF a \in Every(2, 2000, 2014) \cup Every(2, 2058, 2084) \cup Every(2, 2114, 2144)
                      \cup {2150} THEN "UINT16"
    ELSE "FLOAT"

Access17(a) ==
    IF a \in {74, 76, 78, 82} THEN "volatile" ELSE IF a \in Holding17 THEN "eeprom"
    ELSE IF a \in {3000, 3003} THEN "writeonly" ELSE "read"

Limits17(a) ==
    IF a = 2000 THEN <<0, 3>>
    ELSE IF a \in Every(2, 2002, 2014) \cup {2150} THEN <<0, 4>>
    ELSE IF a \in Every(2, 2058, 2070) THEN <<0, 50>>
    ELSE IF a \in Every(2, 2072, 2084) THEN <<20, 90>>
    ELSE IF a \in Every(2, 2114, 2126) THEN <<0, 36>>
    ELSE IF a \in Every(2, 2128, 2140) THEN <<8, 30>>
    ELSE IF a = 2142 THEN <<20, 65>>
    ELSE IF a = 2144 THEN <<10, 25>>
    ELSE IF a \in {2146, 2148} THEN <<-20, 20>>
    ELSE NoLimits

Row17(r) ==
    /\ r.at \in Places17
    /\ r = [table |-> Table17(r.at), at |-> r.at, type |-> Type17(r.at),
            access |-> Access17(r.at), limits |-> Limits17(r.at)]

Gives17(table, type, access, limits, addresses) ==
    \A a \in addresses :
        /\ a \in Places17 /\ Table17(a) = table /\ Type17(a) = type
        /\ Access17(a) = access /\ Limits17(a) = limits

LEMMA GivesRows17 ==
    ASSUME NEW table, NEW type, NEW access, NEW limits, NEW addresses,
           Gives17(table, type, access, limits, addresses)
    PROVE  \A r \in In(table, type, access, limits, addresses) : Row17(r)
BY DEF Gives17, In, Row17

LEMMA InputRows17 ==
    \A r \in nav17_temperatures \cup nav17_meters \cup nav17_status \cup nav17_pv \cup
        nav17_coils : Row17(r)
<1> USE DEF Gives17, Places17, Input17, Holding17, Every, Table17, Type17, Access17, Limits17
<1>1. Gives17("input", "FLOAT", "read", NoLimits, Every(2, 1000, 1066))
    OBVIOUS
<1>2. Gives17("input", "FLOAT", "read", NoLimits, Every(2, 1068, 1088))
    OBVIOUS
<1>3. Gives17("input", "UCHAR", "read", NoLimits, {1501})
    OBVIOUS
<1>4. Gives17("input", "UINT16", "read", NoLimits, {1500} \cup 1502 .. 1524)
    OBVIOUS
<1>5. Gives17("input", "FLOAT", "volatile", NoLimits, {74, 76, 78, 82})
    OBVIOUS
<1>6. Gives17("input", "FLOAT", "read", NoLimits, {4122})
    OBVIOUS
<1>7. Gives17("coil", "BOOL", "writeonly", NoLimits, {3000, 3003})
    OBVIOUS
<1> HIDE DEF Gives17, Places17, Input17, Holding17, Every, Table17, Type17, Access17, Limits17
<1>8. \A r \in nav17_temperatures : Row17(r)
    BY <1>1, GivesRows17 DEF nav17_temperatures, Read
<1>9. \A r \in nav17_meters : Row17(r)
    BY <1>2, GivesRows17 DEF nav17_meters, Read
<1>10. \A r \in nav17_status : Row17(r)
    BY <1>3, <1>4, GivesRows17 DEF nav17_status, Read
<1>11. \A r \in nav17_pv : Row17(r)
    BY <1>5, <1>6, GivesRows17 DEF nav17_pv, Read, Set
<1>12. \A r \in nav17_coils : Row17(r)
    BY <1>7, GivesRows17 DEF nav17_coils
<1> QED
    BY <1>8, <1>9, <1>10, <1>11, <1>12

LEMMA HoldingRows17 ==
    \A r \in nav17_modes \cup nav17_words \cup nav17_floats \cup nav17_bivalence : Row17(r)
<1> USE DEF Gives17, Places17, Input17, Holding17, Every, Table17, Type17, Access17, Limits17
<1>1. Gives17("holding", "UINT16", "eeprom", <<0, 3>>, {2000})
    OBVIOUS
<1>2. Gives17("holding", "UINT16", "eeprom", <<0, 4>>, Every(2, 2002, 2014) \cup {2150})
    OBVIOUS
<1>3. Gives17("holding", "UINT16", "eeprom", <<0, 50>>, Every(2, 2058, 2070))
    OBVIOUS
<1>4. Gives17("holding", "UINT16", "eeprom", <<20, 90>>, Every(2, 2072, 2084))
    OBVIOUS
<1>5. Gives17("holding", "UINT16", "eeprom", <<0, 36>>, Every(2, 2114, 2126))
    OBVIOUS
<1>6. Gives17("holding", "UINT16", "eeprom", <<8, 30>>, Every(2, 2128, 2140))
    OBVIOUS
<1>7. Gives17("holding", "UINT16", "eeprom", <<20, 65>>, {2142})
    OBVIOUS
<1>8. Gives17("holding", "UINT16", "eeprom", <<10, 25>>, {2144})
    OBVIOUS
<1>9. Gives17("holding", "FLOAT", "eeprom", NoLimits, {2152} \cup Every(2, 2016, 2056) \cup
    Every(2, 2086, 2112))
    OBVIOUS
<1>10. Gives17("holding", "INT16", "eeprom", <<-20, 20>>, {2146, 2148})
    OBVIOUS
<1> HIDE DEF Gives17, Places17, Input17, Holding17, Every, Table17, Type17, Access17, Limits17
<1>11. \A r \in nav17_modes : Row17(r)
    BY <1>1, <1>2, GivesRows17 DEF nav17_modes, Holding
<1>12. \A r \in nav17_words : Row17(r)
    BY <1>3, <1>4, <1>5, <1>6, <1>7, <1>8, GivesRows17 DEF nav17_words, Holding
<1>13. \A r \in nav17_floats : Row17(r)
    BY <1>9, GivesRows17 DEF nav17_floats, Holding
<1>14. \A r \in nav17_bivalence : Row17(r)
    BY <1>10, GivesRows17 DEF nav17_bivalence, Holding
<1> QED
    BY <1>11, <1>12, <1>13, <1>14

LEMMA Rows17 == \A pv \in BOOLEAN : \A r \in navigator_17_registers(pv) : Row17(r)
BY InputRows17, HoldingRows17 DEF navigator_17_registers

-----------------------------------------------------------------------------
(* What the rows of a map say, whatever the map.                           *)
AllRows(S) == (\A r \in S : Row(r)) \/ (\A r \in S : Row17(r))

LEMMA PackageRows == ASSUME NEW S, OfThePackage(S) PROVE AllRows(S)
<1>1. ASSUME NEW i \in Info, NEW rooms \in 1 .. 8 PROVE AllRows(DetectedMap(i, rooms))
  <2>1. CASE i.model = "Navigator 1.7"
    <3>1. i.pv \in BOOLEAN
        BY DEF Info
    <3>2. DetectedMap(i, rooms) = navigator_17_registers(i.pv)
        BY <2>1 DEF DetectedMap
    <3> QED
        BY <3>1, <3>2, Rows17 DEF AllRows
  <2>2. CASE i.model # "Navigator 1.7"
      BY <2>2, DetectedRows DEF AllRows
  <2> QED
      BY <2>1, <2>2
<1>2. ASSUME NEW circuits \in SUBSET (0 .. 6), NEW zones \in 0 .. 10, NEW rooms \in 1 .. 8
      PROVE  AllRows(ManualMap(circuits, zones, rooms))
    BY ManualRows DEF AllRows
<1>3. ASSUME NEW M, AllRows(M), S \subseteq M PROVE AllRows(S)
    BY <1>3 DEF AllRows
<1> QED
    BY <1>1, <1>2, <1>3 DEF OfThePackage

LEMMA PlacesAreSmall == \A a \in Places \cup Places17 : a \in Nat /\ a <= 5000
BY DEF Places, FloatAt, Int16At, Uint16At, BoolAt, UcharAt, Every, RoomWords, ZoneWords,
       Places17, Input17, Holding17

(* The type of a row and the numbers its limits allow.                     *)
LEMMA RowTypes ==
    ASSUME NEW a
    PROVE  /\ TypeOf(a) \in {"FLOAT", "INT16", "UINT16", "BOOL", "UCHAR"}
           /\ AccessOf(a) \in Accesses
           /\ LimitsOf(a) \in {NoLimits} \cup (Int \X Int)
<1>1. TypeOf(a) \in {"FLOAT", "INT16", "UINT16", "BOOL", "UCHAR"}
    BY DEF TypeOf
<1>2. AccessOf(a) \in Accesses
    BY DEF AccessOf, Accesses
<1>3. LimitsOf(a) \in {NoLimits} \cup (Int \X Int)
    BY DEF LimitsOf
<1> QED
    BY <1>1, <1>2, <1>3

LEMMA RowTypes17 ==
    ASSUME NEW a
    PROVE  /\ Table17(a) \in Tables
           /\ Type17(a) \in {"FLOAT", "INT16", "UINT16", "BOOL", "UCHAR"}
           /\ Access17(a) \in Accesses
           /\ Limits17(a) \in {NoLimits} \cup (Int \X Int)
<1>1. Table17(a) \in Tables
    BY DEF Table17, Tables
<1>2. Type17(a) \in {"FLOAT", "INT16", "UINT16", "BOOL", "UCHAR"}
    BY DEF Type17
<1>3. Access17(a) \in Accesses
    BY DEF Access17, Accesses
<1>4. Limits17(a) \in {NoLimits} \cup (Int \X Int)
    BY DEF Limits17
<1> QED
    BY <1>1, <1>2, <1>3, <1>4

LEMMA RowFields ==
    ASSUME NEW r, Row(r)
    PROVE  /\ r \in Register /\ r.table = "input" /\ r.at \in Places
           /\ r.type = TypeOf(r.at) /\ r.access = AccessOf(r.at) /\ r.limits = LimitsOf(r.at)
<1>1. r.at \in Places
    BY DEF Row
<1>2. r.at \in Nat
    BY <1>1, PlacesAreSmall
<1> QED
    BY <1>1, <1>2, RowTypes DEF Row, Register, Tables, Types

LEMMA RowFields17 ==
    ASSUME NEW r, Row17(r)
    PROVE  /\ r \in Register /\ r.table = Table17(r.at) /\ r.at \in Places17
           /\ r.type = Type17(r.at) /\ r.access = Access17(r.at) /\ r.limits = Limits17(r.at)
<1>1. r.at \in Places17
    BY DEF Row17
<1>2. r.at \in Nat
    BY <1>1, PlacesAreSmall
<1> QED
    BY <1>1, <1>2, RowTypes17 DEF Row17, Register, Types

LEMMA RowsAreOne ==
    /\ \A p, q : Row(p) /\ Row(q) /\ p.at = q.at => p = q
    /\ \A p, q : Row17(p) /\ Row17(q) /\ p.at = q.at => p = q
BY DEF Row, Row17

(* Two registers of a row table share a word at the documented places      *)
(* only.                                                                   *)
LEMMA FloatsOverlap ==
    ASSUME NEW a \in FloatAt, a + 1 \in Places
    PROVE  a \in DocumentedOverlaps
<1>1. CASE a \in RoomWords({0, 2})
  <2>1. a \in 2000 .. 2649 /\ InZone(a) \in 2 .. 64 /\ InRoom(a) \in {0, 2}
      BY <1>1 DEF RoomWords, ZoneWords, InZone
  <2>2. InZone(a) <= 61
      BY <2>1 DEF InRoom
  <2>3. InZone(a + 1) = InZone(a) + 1
    <3>1. \A n \in 0 .. 649 : n % 65 <= 61 => (n + 1) % 65 = (n % 65) + 1
        OBVIOUS
    <3>2. a - 2000 \in 0 .. 649 /\ (a + 1) - 2000 = (a - 2000) + 1
        BY <2>1
    <3> QED
        BY <2>2, <3>1, <3>2 DEF InZone
  <2>4. InRoom(a + 1) \in {1, 3}
      BY <2>1, <2>2, <2>3 DEF InRoom
  <2> QED
      BY <2>1, <2>3, <2>4 DEF Places, FloatAt, Int16At, Uint16At, BoolAt, UcharAt, Every, RoomWords, ZoneWords
<1>2. CASE a \notin RoomWords({0, 2})
    BY <1>2 DEF Places, FloatAt, Int16At, Uint16At, BoolAt, UcharAt, Every, RoomWords,
                ZoneWords, DocumentedOverlaps
<1> QED
    BY <1>1, <1>2

-----------------------------------------------------------------------------
(* The keys of the Navigator 1.7.  No two of its registers have the key of *)
(* the same shared register: of those of the circuits the shared address   *)
(* says which register of the Navigator 1.7 has its key.                   *)
CircuitAt(n) ==
    IF n \in Every(2, 1350, 1362) THEN n - 334
    ELSE IF n \in 1401 .. 1441 THEN n + 615
    ELSE IF n \in 1442 .. 1455 THEN 2058 + 2 * (n - 1442)
    ELSE IF n \in 1457 .. 1483 THEN n + 629
    ELSE 2114 + 2 * (n - 1484)

CircuitKey(n) == <<IF n \in Every(2, 1350, 1362) THEN "input" ELSE "holding", CircuitAt(n), n>>

LEMMA CircuitKeys ==
    ASSUME NEW c \in 0 .. 6, NEW k \in circuit_keys(c)
    PROVE  k = CircuitKey(k[3]) /\ k[3] \in Every(2, 1350, 1362) \cup 1401 .. 1497
<1>1. CASE k = <<"input", 1016 + 2 * c, 1350 + 2 * c>>
    BY <1>1 DEF CircuitKey, CircuitAt, Every
<1>2. CASE k # <<"input", 1016 + 2 * c, 1350 + 2 * c>>
  <2>1. \/ k = <<"holding", 2000 + 16 + 2 * c, 1401 + 2 * c>>
        \/ k = <<"holding", 2000 + 30 + 2 * c, 1415 + 2 * c>>
        \/ k = <<"holding", 2000 + 44 + 2 * c, 1429 + 2 * c>>
        \/ k = <<"holding", 2000 + 58 + 2 * c, 1442 + c>>
        \/ k = <<"holding", 2000 + 72 + 2 * c, 1449 + c>>
        \/ k = <<"holding", 2000 + 86 + 2 * c, 1457 + 2 * c>>
        \/ k = <<"holding", 2000 + 100 + 2 * c, 1471 + 2 * c>>
        \/ k = <<"holding", 2000 + 114 + 2 * c, 1484 + c>>
        \/ k = <<"holding", 2000 + 128 + 2 * c, 1491 + c>>
      BY <1>2 DEF circuit_keys
  <2> QED
      BY <2>1 DEF CircuitKey, CircuitAt, Every
<1> QED
    BY <1>1, <1>2

OtherKeys == meter_keys \cup status_keys \cup {<<"holding", 2152, 1032>>, <<"coil", 3000, 1999>>}

LEMMA OtherKeysAreOne ==
    /\ \A k, l \in OtherKeys : k[3] = l[3] => k = l
    /\ \A k \in OtherKeys : k[3] \notin Every(2, 1350, 1362) \cup 1401 .. 1497
<1>1. \A k, l \in OtherKeys : k[3] = l[3] => k = l
    BY SMTT(60) DEF OtherKeys, meter_keys, status_keys
<1>2. \A k \in OtherKeys : k[3] \notin Every(2, 1350, 1362) \cup 1401 .. 1497
    BY DEF OtherKeys, meter_keys, status_keys, Every
<1> QED
    BY <1>1, <1>2

LEMMA KeysAreOne == \A k, l \in shared_keys : k[3] = l[3] => k = l
<1>1. \A k \in shared_keys : k \in OtherKeys \/ \E c \in 0 .. 6 : k \in circuit_keys(c)
    BY DEF shared_keys, OtherKeys
<1> QED
    BY <1>1, CircuitKeys, OtherKeysAreOne

(* The addresses that mean the same in both families.                      *)
SameAt == {74, 76, 78, 82, 1000, 1008, 1010, 4122}

LEMMA FixedKeys == \A k \in shared_keys : k[2] = k[3] => k[3] \in SameAt
<1>1. \A k \in OtherKeys : k[2] = k[3] => k[3] \in SameAt
    BY DEF OtherKeys, meter_keys, status_keys, SameAt
<1>2. ASSUME NEW c \in 0 .. 6, NEW k \in circuit_keys(c) PROVE k[2] # k[3]
  <2>1. k = CircuitKey(k[3]) /\ k[3] \in Every(2, 1350, 1362) \cup 1401 .. 1497
      BY CircuitKeys
  <2>2. k[2] = CircuitAt(k[3])
      BY <2>1 DEF CircuitKey
  <2> QED
      BY <2>1, <2>2 DEF CircuitAt, Every
<1> QED
    BY <1>1, <1>2 DEF shared_keys, OtherKeys

LEMMA SameRows == ASSUME NEW p, NEW q, Row(p), Row17(q), p.at = q.at, p.at \in SameAt PROVE p = q
<1>1. \A a \in SameAt :
          /\ Table17(a) = "input" /\ Type17(a) = TypeOf(a)
          /\ Access17(a) = AccessOf(a) /\ Limits17(a) = LimitsOf(a)
    BY DEF SameAt, Table17, Type17, TypeOf, Access17, AccessOf, Limits17, LimitsOf, Input17,
           Holding17, FloatAt, VolatileAt, EEPROM_SENSITIVE_ADDRESSES, Every, RoomWords, ZoneWords
<1> QED
    BY <1>1 DEF Row, Row17

(* The key of a register of the Navigator 1.7.                             *)
LEMMA Key17Is ==
    ASSUME NEW r
    PROVE  \/ key17(r) = <<r.table, r.at>>
           \/ \E k \in shared_keys :
                  k[1] = r.table /\ k[2] = r.at /\ key17(r) = <<"shared", k[3]>>
<1> DEFINE IsFor(k) == k[1] = r.table /\ k[2] = r.at
<1>1. CASE \E k \in shared_keys : IsFor(k)
  <2>1. PICK k \in shared_keys : k = (CHOOSE l \in shared_keys : IsFor(l)) /\ IsFor(k)
      BY <1>1
  <2> QED
      BY <1>1, <2>1 DEF key17
<1>2. CASE ~\E k \in shared_keys : IsFor(k)
    BY <1>2 DEF key17
<1> QED
    BY <1>1, <1>2

LEMMA Keys17AreOne ==
    ASSUME NEW p, NEW q, Row17(p), Row17(q), key17(p) = key17(q)
    PROVE  p = q
<1>1. p.table \in Tables /\ q.table \in Tables
    BY RowFields17, RowTypes17
<1>2. p.at = q.at
    BY <1>1, Key17Is, KeysAreOne DEF Tables
<1> QED
    BY <1>2, RowsAreOne

-----------------------------------------------------------------------------
(* The entries of the maps that the client and the application build.      *)
SharedEntry(e) == Row(e.reg) /\ e = [key |-> <<"shared", e.reg.at>>, reg |-> e.reg]
Entry17(e) == Row17(e.reg) /\ e = [key |-> key17(e.reg), reg |-> e.reg]
EntryFor(i, e) == IF Is17(i) THEN Entry17(e) ELSE SharedEntry(e)

LEMMA MapEntries ==
    ASSUME NEW i \in Infos \cup {NoInfo}, NEW rooms \in 1 .. 8
    PROVE  \A e \in build_register_map(i, rooms) : EntryFor(i, e)
<1>1. CASE i = NoInfo
  <2>1. \A r \in ManualMap({}, ClientZones, rooms) : Row(r)
      BY ManualRows DEF ClientZones
  <2>2. ~Is17(i)
      BY <1>1 DEF Is17
  <2>3. build_register_map(i, rooms) =
            {[key |-> <<"shared", r.at>>, reg |-> r] : r \in ManualMap({}, ClientZones, rooms)}
      BY <1>1, <2>2 DEF build_register_map
  <2>4. \A e \in build_register_map(i, rooms) : SharedEntry(e)
      BY <2>1, <2>3 DEF SharedEntry
  <2> QED
      BY <2>2, <2>4 DEF EntryFor
<1>2. CASE i # NoInfo /\ i.model = "Navigator 1.7"
  <2>1. i \in Info
      BY <1>2, AccessAssumption
  <2>2. DetectedMap(i, rooms) = navigator_17_registers(i.pv) /\ i.pv \in BOOLEAN
      BY <1>2, <2>1 DEF DetectedMap, Info
  <2>3. \A r \in DetectedMap(i, rooms) : Row17(r)
      BY <2>2, Rows17
  <2>4. Is17(i)
      BY <1>2 DEF Is17
  <2>5. build_register_map(i, rooms) =
            {[key |-> key17(r), reg |-> r] : r \in DetectedMap(i, rooms)}
      BY <1>2, <2>4 DEF build_register_map
  <2>6. \A e \in build_register_map(i, rooms) : Entry17(e)
      BY <2>3, <2>5 DEF Entry17
  <2> QED
      BY <2>4, <2>6 DEF EntryFor
<1>3. CASE i # NoInfo /\ i.model # "Navigator 1.7"
  <2>1. i \in Info
      BY <1>3, AccessAssumption
  <2>2. \A r \in DetectedMap(i, rooms) : Row(r)
      BY <1>3, <2>1, DetectedRows
  <2>3. ~Is17(i)
      BY <1>3 DEF Is17
  <2>4. build_register_map(i, rooms) =
            {[key |-> <<"shared", r.at>>, reg |-> r] : r \in DetectedMap(i, rooms)}
      BY <1>3, <2>3 DEF build_register_map
  <2>5. \A e \in build_register_map(i, rooms) : SharedEntry(e)
      BY <2>2, <2>4 DEF SharedEntry
  <2> QED
      BY <2>3, <2>5 DEF EntryFor
<1> QED
    BY <1>1, <1>2, <1>3

LEMMA BuiltEntries ==
    ASSUME NEW i \in Infos \cup {NoInfo}
    PROVE  /\ \A e \in MapOf[i] : EntryFor(i, e)
           /\ \A e \in HeldFor(i) : EntryFor(i, e)
<1>1. DefaultRooms \in 1 .. 8 /\ Rooms \in 1 .. 8
    BY AccessAssumption DEF DefaultRooms
<1>2. MapOf[i] = build_register_map(i, DefaultRooms)
    BY DEF MapOf
<1>3. \A e \in HeldFor(i) : e \in build_register_map(i, Rooms)
    BY DEF HeldFor
<1> QED
    BY <1>1, <1>2, <1>3, MapEntries

LEMMA LegacyEntries == \A e \in Legacy : SharedEntry(e)
<1>1. \A r \in CORE_REGISTERS : Row(r)
    BY SharedRows DEF CORE_REGISTERS
<1> QED
    BY <1>1 DEF Legacy, SharedEntry

LEMMA EntriesAreRows == \A e \in Entries : SharedEntry(e) \/ Entry17(e)
BY BuiltEntries, LegacyEntries DEF Entries, Held, EntryFor

LEMMA CustomEntriesAre ==
    \A e \in CustomEntries : e.reg \in Register /\ e.reg.type # "BITFLAG"
BY AccessAssumption DEF CustomEntries

(* Registers of the two families with one key and one address.             *)
LEMMA FamiliesAgree ==
    ASSUME NEW d, NEW e, SharedEntry(d), Entry17(e), d.key = e.key, d.reg.at = e.reg.at
    PROVE  d = e
<1>1. d.key = <<"shared", d.reg.at>> /\ e.key = key17(e.reg) /\ e.reg.table \in Tables
    BY RowFields17, RowTypes17 DEF SharedEntry, Entry17
<1>2. key17(e.reg) # <<e.reg.table, e.reg.at>>
  <2>1. SUFFICES ASSUME key17(e.reg) = <<e.reg.table, e.reg.at>> PROVE FALSE
      OBVIOUS
  <2>2. e.key = <<e.reg.table, e.reg.at>>
      BY <1>1, <2>1, Zenon
  <2>3. e.key[1] = "shared"
      BY <1>1
  <2>4. e.key[1] = e.reg.table
      BY <2>2
  <2> QED
      BY <1>1, <2>3, <2>4 DEF Tables
<1>3. PICK k \in shared_keys :
          k[1] = e.reg.table /\ k[2] = e.reg.at /\ key17(e.reg) = <<"shared", k[3]>>
    BY <1>2, Key17Is
<1>4. k[3] = d.reg.at
  <2>1. d.key[2] = d.reg.at
      BY <1>1
  <2>2. e.key = <<"shared", k[3]>>
      BY <1>1, <1>3, Zenon
  <2>3. e.key[2] = k[3]
      BY <2>2
  <2> QED
      BY <2>1, <2>3
<1>5. d.reg.at \in SameAt
    BY <1>3, <1>4, FixedKeys
<1>6. d.reg = e.reg
    BY <1>5, SameRows DEF SharedEntry, Entry17
<1> QED
    BY <1>6 DEF SharedEntry, Entry17

LEMMA SameEntries ==
    ASSUME NEW d, NEW e, SharedEntry(d) \/ Entry17(d), SharedEntry(e) \/ Entry17(e),
           d.key = e.key, d.reg.at = e.reg.at
    PROVE  d = e
<1>1. CASE SharedEntry(d) /\ SharedEntry(e)
    BY <1>1, RowsAreOne DEF SharedEntry
<1>2. CASE Entry17(d) /\ Entry17(e)
    BY <1>2, RowsAreOne DEF Entry17
<1> QED
    BY <1>1, <1>2, FamiliesAgree

(* Whatever models are detected, registers of two maps that have the same  *)
(* name and address are the same register, so that the name and the        *)
(* address are enough for the check before a write                         *)
(* (_validate_model_availability).                                         *)
THEOREM NamesAndAddressesAgree == NamesAgree
<1>1. SUFFICES ASSUME NEW i \in Infos, NEW e \in Entries,
                      NEW m \in MapOf[i], m.key = e.key, m.reg.at = e.reg.at
               PROVE  e \in MapOf[i]
    BY DEF NamesAgree, Agrees
<1>2. SharedEntry(m) \/ Entry17(m)
    BY BuiltEntries DEF EntryFor
<1>3. SharedEntry(e) \/ Entry17(e)
    BY <1>1, EntriesAreRows
<1>4. m = e
    BY <1>1, <1>2, <1>3, SameEntries
<1> QED
    BY <1>1, <1>4

(* Within a family a key names one register, in the map of any model with  *)
(* any number of rooms and in the map the client builds for any other: a   *)
(* key that is recorded as unsupported (_unsupported_registers) means the  *)
(* same register after another model of the family is set.                 *)
THEOREM AKeyNamesOneRegister == KeysNameOne
<1>1. SUFFICES ASSUME NEW i \in Infos \cup {NoInfo}, NEW j \in Infos \cup {NoInfo},
                      Is17(i) = Is17(j), NEW e \in HeldFor(i), NEW m \in MapOf[j], e.key = m.key
               PROVE  e.reg = m.reg
    BY DEF KeysNameOne
<1>2. EntryFor(i, e) /\ EntryFor(j, m)
    BY BuiltEntries
<1>3. CASE Is17(i)
  <2>1. Entry17(e) /\ Entry17(m)
      BY <1>1, <1>2, <1>3 DEF EntryFor
  <2>2. e.key = key17(e.reg) /\ m.key = key17(m.reg) /\ Row17(e.reg) /\ Row17(m.reg)
      BY <2>1 DEF Entry17
  <2> QED
      BY <1>1, <2>2, Keys17AreOne
<1>4. CASE ~Is17(i)
  <2>1. SharedEntry(e) /\ SharedEntry(m)
      BY <1>1, <1>2, <1>4 DEF EntryFor
  <2>2. e.key = <<"shared", e.reg.at>> /\ m.key = <<"shared", m.reg.at>>
      BY <2>1 DEF SharedEntry
  <2>3. e.key[2] = e.reg.at /\ m.key[2] = m.reg.at
      BY <2>2
  <2> QED
      BY <1>1, <2>1, <2>3, RowsAreOne DEF SharedEntry
<1> QED
    BY <1>3, <1>4

LEMMA EntriesHaveNoFlags == NoFlags
<1>1. ASSUME NEW r, Row(r) \/ Row17(r) PROVE r \in Register /\ r.type # "BITFLAG"
    BY <1>1, RowFields, RowFields17, RowTypes, RowTypes17
<1>2. ASSUME NEW e \in Entries PROVE Row(e.reg) \/ Row17(e.reg)
    BY EntriesAreRows DEF SharedEntry, Entry17
<1> QED
    BY <1>1, <1>2, CustomEntriesAre DEF NoFlags

(* The limits that maps declare, but for those of temperatures below zero, *)
(* and the ranges of the types that have them.                             *)
Positive ==
    {<<0, 3>>, <<0, 4>>, <<0, 5>>, <<0, 30>>, <<0, 36>>, <<0, 50>>, <<0, 100>>, <<8, 30>>,
     <<10, 25>>, <<20, 65>>, <<20, 90>>, <<30, 50>>, <<35, 95>>, <<46, 67>>}

LEMMA RangesHold ==
    /\ \A l \in Positive : \A type \in {"INT16", "UINT16", "UCHAR"} :
           l[1] .. l[2] \subseteq RangeOf(type)
    /\ \A l \in {<<-40, 40>>, <<-20, 20>>} : l[1] .. l[2] \subseteq RangeOf("INT16")
<1>1. \A l \in Positive : l[1] .. l[2] \subseteq 0 .. 100
    BY DEF Positive
<1>2. \A l \in {<<-40, 40>>, <<-20, 20>>} : l[1] .. l[2] \subseteq -40 .. 40
    OBVIOUS
<1>3. \A n \in Int : 0 <= n /\ n <= 100 => n \in RangeOf("UCHAR") /\ n \in RangeOf("UINT16")
  <2>1. RangeOf("UCHAR") = 0 .. 255 /\ RangeOf("UINT16") = Word
      BY DEF RangeOf
  <2> QED
      BY <2>1, WordBounds
<1>4. \A n \in Int : -40 <= n /\ n <= 100 => n \in RangeOf("INT16")
  <2>1. \A n \in Int : n \in RangeOf("INT16") <=> -32768 <= n /\ n <= 32767
      BY Int16Bounds
  <2> QED
      BY <2>1
<1>5. ASSUME NEW type \in {"INT16", "UINT16", "UCHAR"} PROVE 0 .. 100 \subseteq RangeOf(type)
    BY <1>3, <1>4
<1>6. -40 .. 40 \subseteq RangeOf("INT16")
    BY <1>4
<1> QED
    BY <1>1, <1>2, <1>5, <1>6

LEMMA RowLimits ==
    ASSUME NEW a \in Places, TypeOf(a) # "FLOAT", LimitsOf(a) # NoLimits
    PROVE  LimitsOf(a)[1] .. LimitsOf(a)[2] \subseteq RangeOf(TypeOf(a))
<1>1. CASE a \in 1120 .. 1123 \cup 1226 .. 1231
  <2>1. TypeOf(a) = "INT16"
      BY <1>1 DEF TypeOf, Int16At, FloatAt, Every, RoomWords, ZoneWords
  <2>2. LimitsOf(a) = <<-40, 40>>
      BY <1>1 DEF LimitsOf, RoomWords, ZoneWords
  <2> QED
      BY <2>1, <2>2, RangesHold
<1>2. CASE a \notin 1120 .. 1123 \cup 1226 .. 1231
  <2>1. LimitsOf(a) \in Positive
      BY <1>2 DEF LimitsOf, Positive
  <2>2. TypeOf(a) \in {"INT16", "UINT16", "UCHAR"}
      BY <1>2 DEF TypeOf, LimitsOf, BoolAt, RoomWords, ZoneWords
  <2> QED
      BY <2>1, <2>2, RangesHold
<1> QED
    BY <1>1, <1>2

LEMMA RowLimits17 ==
    ASSUME NEW a \in Places17, Type17(a) # "FLOAT", Limits17(a) # NoLimits
    PROVE  Limits17(a)[1] .. Limits17(a)[2] \subseteq RangeOf(Type17(a))
<1>1. CASE a \in {2146, 2148}
  <2>1. Type17(a) = "INT16" /\ Limits17(a) = <<-20, 20>>
      BY <1>1 DEF Type17, Limits17, Every
  <2> QED
      BY <2>1, RangesHold
<1>2. CASE a \notin {2146, 2148}
  <2>1. Limits17(a) \in Positive
      BY <1>2 DEF Limits17, Positive
  <2>2. Type17(a) \in {"INT16", "UINT16", "UCHAR"}
      BY <1>2 DEF Type17, Limits17, Every
  <2> QED
      BY <2>1, <2>2, RangesHold
<1> QED
    BY <1>1, <1>2

(* Every whole number within the limits of a register of any map has an    *)
(* encoding: no write that the limits allow fails in encode_value(), and   *)
(* none is sent as another number.                                         *)
THEOREM LimitsAreEncodable == LimitsFit
<1>1. SUFFICES ASSUME NEW e \in Entries, e.reg.type # "FLOAT", e.reg.limits # NoLimits
               PROVE  e.reg.limits[1] .. e.reg.limits[2] \subseteq RangeOf(e.reg.type)
    BY DEF LimitsFit
<1>2. CASE Row(e.reg)
    BY <1>1, <1>2, RowFields, RowLimits
<1>3. CASE Row17(e.reg)
    BY <1>1, <1>3, RowFields17, RowLimits17
<1> QED
    BY <1>2, <1>3, EntriesAreRows DEF SharedEntry, Entry17

(* A map of fewer rooms is a part of one of more.                          *)
LEMMA MoreAddresses ==
    ASSUME NEW type, NEW access, NEW limits, NEW A, NEW B, A \subseteq B
    PROVE  In("input", type, access, limits, A) \subseteq In("input", type, access, limits, B)
BY DEF In

LEMMA MoreRoomsInZone ==
    ASSUME NEW z, NEW few \in Nat, NEW many \in Nat, few <= many
    PROVE  zone_module_registers(z, few) \subseteq zone_module_registers(z, many)
<1> DEFINE base == 2000 + (z - 1) * 65
           room(rooms) == {base + 2 + (q - 1) * 7 : q \in 1 .. rooms}
           plus(rooms, n) == {b + n : b \in room(rooms)}
<1>1. room(few) \subseteq room(many)
  <2>1. 1 .. few \subseteq 1 .. many
      OBVIOUS
  <2> QED
      BY <2>1
<1> HIDE DEF room
<1>2. \A n : plus(few, n) \subseteq plus(many, n)
    BY <1>1
<1>3. /\ {base, base + 1} \cup plus(few, 6) \subseteq {base, base + 1} \cup plus(many, 6)
      /\ room(few) \cup plus(few, 2) \subseteq room(many) \cup plus(many, 2)
      /\ plus(few, 4) \subseteq plus(many, 4) /\ plus(few, 5) \subseteq plus(many, 5)
    BY <1>1, <1>2
<1> DEFINE zone(rooms) ==
        Read("UCHAR", {base, base + 1} \cup plus(rooms, 6))
        \cup Set("FLOAT", "volatile", room(rooms) \cup plus(rooms, 2))
        \cup Set2("UCHAR", "volatile", 0, 100, plus(rooms, 4))
        \cup Set2("UCHAR", "volatile", 0, 4, plus(rooms, 5))
<1>4. zone(few) \subseteq zone(many)
  <2> HIDE DEF base, plus
  <2> QED
      BY <1>3, MoreAddresses DEF Read, Set, Set2
<1>5. zone_module_registers(z, few) = zone(few) /\ zone_module_registers(z, many) = zone(many)
    BY DEF zone_module_registers, room
<1> HIDE DEF zone
<1> QED
    BY <1>4, <1>5

LEMMA MoreRooms ==
    ASSUME NEW i \in Info, NEW few \in Nat, NEW many \in Nat, few <= many
    PROVE  DetectedMap(i, few) \subseteq DetectedMap(i, many)
<1>1. units(i.circuits, i.zones, few) \subseteq units(i.circuits, i.zones, many)
    BY MoreRoomsInZone DEF units
<1> QED
    BY <1>1 DEF DetectedMap

LEMMA FewerRooms ==
    ASSUME NEW i \in Infos, Rooms <= DefaultRooms
    PROVE  build_register_map(i, Rooms) \subseteq MapOf[i]
<1>1. DetectedMap(i, Rooms) \subseteq DetectedMap(i, DefaultRooms)
    BY AccessAssumption, MoreRooms DEF DefaultRooms
<1>2. i # NoInfo
    BY AccessAssumption
<1>3. MapOf[i] = build_register_map(i, DefaultRooms)
    BY DEF MapOf
<1> QED
    BY <1>1, <1>2, <1>3 DEF build_register_map

-----------------------------------------------------------------------------
(* The state.                                                              *)

AnyEntry == Entries \cup CustomEntries
Models0 == Infos \cup {NoInfo}
Sent == {"planned", "written"}

TypeInv ==
    /\ info \in Models0
    /\ cached \in {info, NoInfo}
    /\ unsupported \subseteq Keys
    /\ strayed \in BOOLEAN
    /\ last \in Call \cup {Nothing}

(* What the call l may have come to.                                       *)
Fits(l) ==
    l.fate \in Sent /\ ~l.custom /\ l.model # NoInfo => Available(l.entry, l.model)
Refuses(l) ==
    l.fate = "refused" => l.model # NoInfo /\ ~Available(l.entry, l.model)
Encodes(l) ==
    l.fate \in Sent => \A w \in l.words : decode_value(l.entry.reg.type, w) = l.n
Decodes(l) ==
    l.fate = "read" /\ l.words # {} => l.n \in RangeOf(l.entry.reg.type)

Overflows(l) ==
    l.fate = "unencodable" => l.entry \in CustomEntries \/ l.entry.reg.limits = NoLimits

FateInv == Fits(last) /\ Refuses(last) /\ Encodes(last) /\ Decodes(last) /\ Overflows(last)

(* Where a recorded key comes from.                                        *)
RejectedKey(k) ==
    \E i \in Models0 : /\ Is17(i) = Is17(Device)
                       /\ \E e \in HeldFor(i) : e.key = k /\ ~Answers(e.reg)

KeysInv == ~strayed => \A k \in unsupported : RejectedKey(k)

IInv == TypeInv /\ FateInv /\ KeysInv

-----------------------------------------------------------------------------
LEMMA NothingIsNoFate ==
  /\ Nothing.fate \notin Fates
  /\ Fits(Nothing) /\ Refuses(Nothing) /\ Encodes(Nothing) /\ Decodes(Nothing)
  /\ Overflows(Nothing)
  BY DEF Nothing, Fates, Fits, Refuses, Encodes, Decodes, Overflows, Sent

LEMMA EntryTypes ==
  ASSUME NEW e \in AnyEntry
  PROVE  e.reg.type \in Types \ {"BITFLAG"}
  BY EntriesHaveNoFlags DEF NoFlags, AnyEntry, Register

LEMMA InitIInv == Init => IInv
  BY NothingIsNoFate DEF Init, IInv, TypeInv, FateInv, KeysInv, Models0

(* A lookup returns an entry of the model's map or of CORE_REGISTERS.      *)
LEMMA LookupIsAnEntry ==
  ASSUME NEW k, NEW i \in Models0, NEW e \in get_register(k, i)
  PROVE  e \in AnyEntry
  BY DEF get_register, Entries, AnyEntry, Models0

(* The record that a call leaves behind.                                   *)
LEMMA EndedFields ==
  ASSUME NEW fate \in Fates, NEW e \in AnyEntry, NEW custom \in BOOLEAN, NEW n \in Int,
         NEW words \in SUBSET Word, TypeInv, Ended(fate, e, custom, n, words)
  PROVE  /\ last' \in Call
         /\ last'.fate = fate /\ last'.entry = e /\ last'.custom = custom
         /\ last'.model = info /\ last'.n = n /\ last'.words = words
  BY DEF Ended, Call, TypeInv, AnyEntry, Models0

-----------------------------------------------------------------------------
LEMMA SetModelInfoIInv ==
  ASSUME IInv, NEW i \in Infos, SetModelInfo(i)
  PROVE  IInv'
<1>1. TypeInv'
  BY DEF IInv, TypeInv, SetModelInfo, Models0
<1>2. FateInv'
  BY NothingIsNoFate DEF SetModelInfo, FateInv
<1>3. KeysInv'
  BY DEF IInv, KeysInv, SetModelInfo, RejectedKey
<1> QED
  BY <1>1, <1>2, <1>3 DEF IInv

LEMMA ReadValueIInv ==
  ASSUME IInv, NEW k, ReadValue(k)
  PROVE  IInv'
<1>0. TypeInv
  BY DEF IInv
<1>1. PICK e \in get_register(k, info), w \in Stored :
          /\ IF e.reg.type = "FLOAT" THEN Ended("read", e, FALSE, 0, {})
             ELSE Ended("read", e, FALSE, decode_value(e.reg.type, w), {w})
          /\ UNCHANGED <<info, cached, unsupported, strayed>>
  BY DEF ReadValue
<1>2. e \in AnyEntry
  BY <1>0, <1>1, LookupIsAnEntry DEF TypeInv
<1>3. last' \in Call /\ last'.fate = "read" /\ Decodes(last')
  <2>1. CASE e.reg.type = "FLOAT"
    <3>1. PICK custom \in BOOLEAN : Ended("read", e, custom, 0, {})
      BY <1>1, <2>1
    <3>2. last' \in Call /\ last'.fate = "read" /\ last'.words = {}
      BY <3>1, <1>0, <1>2, EndedFields DEF Fates
    <3> QED
      BY <3>2 DEF Decodes
  <2>2. CASE e.reg.type # "FLOAT"
    <3> DEFINE n == decode_value(e.reg.type, w)
    <3>1. e.reg.type \in WordTypes
      BY <1>2, <2>2, EntryTypes DEF WordTypes
    <3>2. w \in Word
      BY <1>1, AccessAssumption
    <3>3. n \in RangeOf(e.reg.type)
      BY <3>1, <3>2, DecodedIsInRange
    <3>4. n \in Int
      BY <3>1, <3>3, RangesAreWhole
    <3>5. PICK custom \in BOOLEAN : Ended("read", e, custom, n, {w})
      BY <1>1, <2>2
    <3> HIDE DEF n
    <3>6. last' \in Call /\ last'.fate = "read" /\ last'.n = n /\ last'.entry = e
      BY <3>2, <3>4, <3>5, <1>0, <1>2, EndedFields DEF Fates
    <3> QED
      BY <3>3, <3>6 DEF Decodes
  <2> QED
    BY <2>1, <2>2
<1>4. TypeInv'
  BY <1>0, <1>1, <1>3 DEF TypeInv
<1>5. FateInv'
  BY <1>3 DEF FateInv, Fits, Refuses, Encodes, Overflows, Sent
<1>6. KeysInv'
  BY <1>1 DEF IInv, KeysInv, RejectedKey
<1> QED
  BY <1>4, <1>5, <1>6 DEF IInv

LEMMA ValueNumbers ==
  ASSUME NEW v \in Values
  PROVE  v.n \in Int
<1>1. CASE v \in [is : {"int", "float"}, n : Numbers]
  BY <1>1, AccessAssumption
<1>2. CASE v \in [is : {"bool"}, n : {0, 1}]
  BY <1>2
<1>3. CASE v \in [is : {"fraction", "text"}, n : {0}]
  BY <1>3
<1> QED
  BY <1>1, <1>2, <1>3 DEF Values, ValuesOf

(* Limits keep a number within the range of its type.                      *)
LEMMA UnlimitedOverflow ==
  ASSUME NEW e \in AnyEntry, NEW v, Valid(e.reg, v), ~Encodable(e.reg.type, v.n)
  PROVE  e \in CustomEntries \/ e.reg.limits = NoLimits
<1>1. SUFFICES ASSUME e \in Entries, e.reg.limits # NoLimits PROVE FALSE
  BY DEF AnyEntry
<1>2. e.reg.type # "FLOAT" /\ v.n \notin RangeOf(e.reg.type)
  BY DEF Encodable
<1>3. v.n \in e.reg.limits[1] .. e.reg.limits[2]
  BY <1>1 DEF Valid
<1> QED
  BY <1>1, <1>2, <1>3, LimitsAreEncodable DEF LimitsFit

(* What becomes of a value that is checked and encoded.                    *)
LEMMA EncodeFates ==
  ASSUME TypeInv, NEW e \in AnyEntry, NEW custom \in BOOLEAN, NEW done \in Sent,
         NEW v \in Values, Encode(e, v, custom, done)
  PROVE  /\ last' \in Call
         /\ last'.fate \in Sent \cup {"invalid", "unencodable"}
         /\ last'.entry = e /\ last'.custom = custom /\ last'.model = info
         /\ Encodes(last') /\ Overflows(last')
<1>0. v.n \in Int
  BY ValueNumbers
<1> DEFINE n == v.n
<1>1. CASE \/ Ended("invalid", e, custom, n, {})
           \/ Valid(e.reg, v) /\ ~Encodable(e.reg.type, n)
                  /\ Ended("unencodable", e, custom, n, {})
  <2>1. PICK fate \in {"invalid", "unencodable"} :
            /\ Ended(fate, e, custom, n, {})
            /\ fate = "unencodable" => Valid(e.reg, v) /\ ~Encodable(e.reg.type, n)
    BY <1>1
  <2>2. fate \in Fates /\ fate \notin Sent
    BY <2>1 DEF Fates, Sent
  <2>3. /\ last' \in Call
        /\ last'.fate = fate /\ last'.entry = e /\ last'.custom = custom /\ last'.model = info
    BY <1>0, <2>1, <2>2, EndedFields
  <2>4. fate = "unencodable" => e \in CustomEntries \/ e.reg.limits = NoLimits
    BY <2>1, UnlimitedOverflow
  <2>5. Overflows(last')
    BY <2>3, <2>4 DEF Overflows
  <2> QED
    BY <2>2, <2>3, <2>5 DEF Encodes
<1>2. CASE /\ Encodable(e.reg.type, n)
           /\ Ended(done, e, custom, n,
                    IF e.reg.type = "FLOAT" THEN {} ELSE {encode_value(e.reg.type, n)})
  <2>0. done \in Fates /\ done # "unencodable"
    BY DEF Fates, Sent
  <2>1. CASE e.reg.type = "FLOAT"
    <3>1. Ended(done, e, custom, n, {})
      BY <1>2, <2>1
    <3>2. /\ last' \in Call /\ last'.words = {}
          /\ last'.fate = done /\ last'.entry = e /\ last'.custom = custom /\ last'.model = info
      BY <1>0, <2>0, <3>1, EndedFields
    <3> QED
      BY <2>0, <3>2 DEF Encodes, Overflows
  <2>2. CASE e.reg.type # "FLOAT"
    <3> DEFINE w == encode_value(e.reg.type, n)
    <3>1. e.reg.type \in Checked
      BY <2>2, EntryTypes DEF WordTypes, Checked
    <3>2. w \in Word /\ decode_value(e.reg.type, w) = n
      BY <1>2, <3>1, WrittenIsReadBack
    <3>3. Ended(done, e, custom, n, {w})
      BY <1>2, <2>2
    <3> HIDE DEF w
    <3>4. /\ last' \in Call /\ last'.words = {w} /\ last'.n = n
          /\ last'.fate = done /\ last'.entry = e /\ last'.custom = custom /\ last'.model = info
      BY <1>0, <2>0, <3>2, <3>3, EndedFields
    <3> QED
      BY <2>0, <3>2, <3>4 DEF Encodes, Overflows
  <2> QED
    BY <2>1, <2>2
<1> QED
  BY <1>1, <1>2 DEF Encode

(* The map consulted is that of the model that is set.                     *)
LEMMA WriteIInv ==
  ASSUME IInv, NEW e \in AnyEntry, NEW custom \in BOOLEAN, NEW done \in Sent,
         Write(e, custom, done)
  PROVE  IInv'
<1> DEFINE unchecked == custom \/ info = NoInfo
           map == IF unchecked \/ cached # NoInfo THEN cached ELSE info
           refused == ~unchecked /\ ~Available(e, map)
<1>0. TypeInv
  BY DEF IInv
<1>1. /\ cached' = map
      /\ UNCHANGED <<info, unsupported, strayed>>
      /\ \/ refused /\ Ended("refused", e, custom, 0, {})
         \/ ~refused /\ \E v \in Values : Encode(e, v, custom, done)
  BY DEF Write
<1>2. map \in {info, NoInfo} /\ (~unchecked => map = info)
  BY <1>0 DEF TypeInv
<1>3. last' \in Call /\ FateInv'
  <2>1. CASE refused /\ Ended("refused", e, custom, 0, {})
    <3>1. /\ last' \in Call /\ last'.fate = "refused" /\ last'.entry = e
          /\ last'.model = info
      BY <1>0, <2>1, EndedFields DEF Fates
    <3>2. info # NoInfo /\ ~Available(e, info)
      BY <1>2, <2>1
    <3> QED
      BY <3>1, <3>2 DEF FateInv, Fits, Refuses, Encodes, Decodes, Overflows, Sent
  <2>2. CASE ~refused /\ \E v \in Values : Encode(e, v, custom, done)
    <3>1. /\ last' \in Call /\ last'.fate \in Sent \cup {"invalid", "unencodable"}
          /\ last'.entry = e /\ last'.custom = custom /\ last'.model = info
          /\ Encodes(last') /\ Overflows(last')
      BY <1>0, <2>2, EncodeFates
    <3>2. ~custom /\ info # NoInfo => Available(e, info)
      BY <1>2, <2>2
    <3>3. Fits(last')
      BY <3>1, <3>2 DEF Fits
    <3>4. Refuses(last') /\ Decodes(last')
      BY <3>1 DEF Refuses, Decodes, Sent
    <3> QED
      BY <3>1, <3>3, <3>4 DEF FateInv
  <2> QED
    BY <1>1, <2>1, <2>2
<1>4. TypeInv'
  BY <1>0, <1>1, <1>2, <1>3 DEF TypeInv
<1>5. KeysInv'
  BY <1>1 DEF IInv, KeysInv, RejectedKey
<1> QED
  BY <1>3, <1>4, <1>5 DEF IInv

LEMMA SetValueIInv ==
  ASSUME IInv, NEW k \in Keys, NEW dry_run \in BOOLEAN, SetValue(k, dry_run)
  PROVE  IInv'
<1> DEFINE done == IF dry_run THEN "planned" ELSE "written"
<1>1. PICK e \in get_register(k, info) : Write(e, FALSE, done)
  BY DEF SetValue
<1>2. e \in AnyEntry
  BY <1>1, LookupIsAnEntry DEF IInv, TypeInv
<1>3. done \in Sent
  BY DEF Sent
<1> QED
  BY <1>1, <1>2, <1>3, WriteIInv

LEMMA WriteRegisterIInv ==
  ASSUME IInv, NEW e \in AnyEntry, NEW custom \in BOOLEAN, WriteRegister(e, custom)
  PROVE  IInv'
<1>1. "written" \in Sent /\ Write(e, custom, "written")
  BY DEF Sent, WriteRegister
<1> QED
  BY <1>1, WriteIInv

(* A register is rejected under the map of the model that is set.          *)
LEMMA RejectedIInv ==
  ASSUME IInv, Rejected
  PROVE  IInv'
<1>0. TypeInv
  BY DEF IInv
<1>1. PICK e \in HeldFor(info) :
          ~Answers(e.reg) /\ unsupported' = unsupported \cup {e.key}
  BY DEF Rejected, Blamed
<1>2. /\ strayed' = (strayed \/ Is17(info) # Is17(Device))
      /\ last = Nothing /\ UNCHANGED <<info, cached, last>>
  BY DEF Rejected
<1>3. e.key \in Keys
  BY <1>0, <1>1 DEF TypeInv, Keys, Held, Models0
<1>4. TypeInv'
  BY <1>0, <1>1, <1>2, <1>3 DEF TypeInv
<1>5. FateInv'
  BY <1>2, NothingIsNoFate DEF FateInv
<1>6. KeysInv'
  <2> SUFFICES ASSUME ~strayed', NEW k \in unsupported'
               PROVE  RejectedKey(k)
    BY DEF KeysInv, RejectedKey
  <2>1. CASE k \in unsupported
    BY <1>2, <2>1 DEF IInv, KeysInv
  <2>2. CASE k = e.key
    <3>1. info \in Models0 /\ Is17(info) = Is17(Device)
      BY <1>0, <1>2 DEF TypeInv, Is17
    <3> QED
      BY <1>1, <2>2, <3>1 DEF RejectedKey
  <2> QED
    BY <1>1, <2>1, <2>2
<1> QED
  BY <1>4, <1>5, <1>6 DEF IInv

LEMMA ResetIInv ==
  ASSUME IInv, Reset
  PROVE  IInv'
<1>1. TypeInv' /\ KeysInv'
  BY DEF IInv, TypeInv, KeysInv, Reset
<1>2. FateInv'
  BY NothingIsNoFate DEF Reset, FateInv
<1> QED
  BY <1>1, <1>2 DEF IInv

LEMMA TakenIInv ==
  ASSUME IInv, Taken
  PROVE  IInv'
<1>1. TypeInv' /\ KeysInv'
  BY DEF IInv, TypeInv, KeysInv, RejectedKey, Taken
<1>2. FateInv'
  BY NothingIsNoFate DEF Taken, FateInv
<1> QED
  BY <1>1, <1>2 DEF IInv

LEMMA StutterIInv ==
  ASSUME IInv, UNCHANGED vars
  PROVE  IInv'
  BY DEF IInv, TypeInv, FateInv, KeysInv, RejectedKey, vars

LEMMA NextIInv ==
  ASSUME IInv, [Next]_vars
  PROVE  IInv'
<1>0. Held \subseteq AnyEntry /\ CustomEntries \subseteq AnyEntry
  BY DEF AnyEntry, Entries
<1>1. CASE \E i \in Infos : SetModelInfo(i)
  BY <1>1, SetModelInfoIInv
<1>2. CASE \E k \in Keys : ReadValue(k)
  BY <1>2, ReadValueIInv
<1>3. CASE \E k \in Keys, dry_run \in BOOLEAN : SetValue(k, dry_run)
  BY <1>3, SetValueIInv
<1>4. CASE \E e \in Held : WriteRegister(e, FALSE)
  BY <1>0, <1>4, WriteRegisterIInv
<1>5. CASE \E e \in CustomEntries, custom \in BOOLEAN : WriteRegister(e, custom)
  BY <1>0, <1>5, WriteRegisterIInv
<1>6. CASE Rejected
  BY <1>6, RejectedIInv
<1>7. CASE Reset
  BY <1>7, ResetIInv
<1>8. CASE Taken
  BY <1>8, TakenIInv
<1>9. CASE UNCHANGED vars
  BY <1>9, StutterIInv
<1> QED
  BY <1>1, <1>2, <1>3, <1>4, <1>5, <1>6, <1>7, <1>8, <1>9 DEF Next

LEMMA Invariance == Spec => []IInv
  BY InitIInv, NextIInv, PTL DEF Spec

-----------------------------------------------------------------------------
(* The map kept for the check of a write is that of the model that is set, *)
(* or none is kept: set_model_info() and detect_model() drop it; what a    *)
(* read returns is a number of the register's type.                        *)
THEOREM TypeCorrect == Spec => []TypeOK
<1>1. IInv => TypeOK
  BY DEF IInv, TypeInv, FateInv, Decodes, TypeOK, Models0
<1> QED
  BY <1>1, Invariance, PTL

(* Once a model is set, a write leaves the client only for the name and    *)
(* the address of a register of that model's map, and for one taken from   *)
(* any map only if it is that register, after any sequence of changes of   *)
(* the model, lookups, reads and writes; unless the caller asked for a     *)
(* register that need not be in the map.                                   *)
THEOREM WritesStayInTheModel == Spec => []WritesFitTheModel
<1>1. IInv => WritesFitTheModel
  <2> SUFFICES ASSUME IInv, last.fate \in Sent, ~last.custom, last.model # NoInfo
               PROVE  \E m \in MapOf[last.model] :
                          /\ m.key = last.entry.key
                          /\ m.reg.at = last.entry.reg.at
                          /\ last.entry \in Entries => m = last.entry
    BY DEF WritesFitTheModel, Sent
  <2>1. last \in Call
    BY NothingIsNoFate DEF IInv, TypeInv, Fates, Sent
  <2>2. last.model \in Infos
    BY <2>1 DEF Call
  <2>3. PICK m \in MapOf[last.model] : m.key = last.entry.key /\ m.reg.at = last.entry.reg.at
    BY DEF IInv, FateInv, Fits, Available
  <2>4. CASE last.entry \in Entries
    <3>1. last.entry \in MapOf[last.model]
      BY <2>2, <2>3, <2>4, NamesAndAddressesAgree DEF NamesAgree, Agrees
    <3> QED
      BY <3>1
  <2>5. CASE last.entry \notin Entries
    BY <2>3, <2>5
  <2> QED
    BY <2>4, <2>5
<1> QED
  BY <1>1, Invariance, PTL

(* With maps of no more than the default number of rooms, no register of   *)
(* the model's own map is refused.                                         *)
THEOREM NoneOfTheModelRefused == ASSUME Rooms <= DefaultRooms PROVE Spec => []NothingRefused
<1>1. IInv => NothingRefused
  <2> SUFFICES ASSUME IInv, last.fate = "refused",
                      last.entry \in build_register_map(last.model, Rooms)
               PROVE  FALSE
    BY DEF NothingRefused
  <2>1. last \in Call
    BY NothingIsNoFate DEF IInv, TypeInv, Fates
  <2>2. last.model \in Infos /\ ~Available(last.entry, last.model)
    BY <2>1 DEF IInv, FateInv, Refuses, Call
  <2>3. last.entry \in MapOf[last.model]
    BY <2>2, FewerRooms
  <2> QED
    BY <2>2, <2>3 DEF Available
<1> QED
  BY <1>1, Invariance, PTL

(* The word that is sent for a value is read back as that value, for any   *)
(* register, any limits and any number.                                    *)
THEOREM SentIsReadBack == Spec => []RoundTrip
<1>1. IInv => RoundTrip
  BY DEF IInv, FateInv, Encodes, RoundTrip, Sent
<1> QED
  BY <1>1, Invariance, PTL

(* Of the registers of the maps only those without limits have values that *)
(* the check lets through and encode_value() then cannot encode: a write   *)
(* within the limits a map declares never fails in the encoder.            *)
NoneWithinLimitsFails ==
    last.fate = "unencodable" =>
        last.entry \in CustomEntries \/ last.entry.reg.limits = NoLimits

THEOREM LimitedWritesAreEncoded == Spec => []NoneWithinLimitsFails
<1>1. IInv => NoneWithinLimitsFails
  BY DEF IInv, FateInv, Overflows, NoneWithinLimitsFails
<1> QED
  BY <1>1, Invariance, PTL

(* A key is recorded as unsupported only while the controller does not     *)
(* have the register, whatever models of its family are set meanwhile.     *)
THEOREM RecordedIsMissing == Spec => []UnsupportedIsMissing
<1>1. IInv => UnsupportedIsMissing
  <2> SUFFICES ASSUME IInv, ~strayed, Is17(info) = Is17(Device),
                      NEW m \in MapOf[info], m.key \in unsupported
               PROVE  ~Answers(m.reg)
    BY DEF UnsupportedIsMissing
  <2>1. PICK i \in Models0 : /\ Is17(i) = Is17(Device)
                             /\ \E e \in HeldFor(i) : e.key = m.key /\ ~Answers(e.reg)
    BY DEF IInv, KeysInv, RejectedKey
  <2>2. PICK e \in HeldFor(i) : e.key = m.key /\ ~Answers(e.reg)
    BY <2>1
  <2>3. info \in Models0 /\ Is17(i) = Is17(info)
    BY <2>1 DEF IInv, TypeInv
  <2>4. e.reg = m.reg
    BY <2>2, <2>3, AKeyNamesOneRegister DEF KeysNameOne, Models0
  <2> QED
    BY <2>2, <2>4
<1> QED
  BY <1>1, Invariance, PTL

-----------------------------------------------------------------------------
(* The groups of a poll (RegisterGroups): _group_registers() and what      *)
(* read_batch() makes of its groups.                                       *)

(* The recursion, over addresses A, of which those in L are of two words.  *)
(* Prior(A, a) is the address whose group a would have to join.            *)
Wide(L, a) == IF a \in L THEN 2 ELSE 1
Prior(A, a) == IF a - 1 \in A THEN a - 1 ELSE a - 2
Touches(A, L, a) == Prior(A, a) \in A /\ a = Prior(A, a) + Wide(L, Prior(A, a))
Start(A, L, most, f, a) ==
    IF Touches(A, L, a) /\ a + Wide(L, a) - f[Prior(A, a)] <= most THEN f[Prior(A, a)] ELSE a

Solution(A, L, most, f) == f = [a \in A |-> Start(A, L, most, f, a)]

LEMMA HasLeast ==
  ASSUME NEW S \in SUBSET Nat, S # {}
  PROVE  \E x \in S : \A y \in S : x <= y
<1>1. \E x \in S : \A y \in S : <<y, x>> \notin OpToRel(<, Nat)
    BY WFMin, NatLessThanWellFounded
<1>2. PICK x \in S : \A y \in S : <<y, x>> \notin OpToRel(<, Nat)
    BY <1>1
<1>3. ASSUME NEW y \in S
      PROVE  x <= y
  <2>1. x \in Nat /\ y \in Nat
      OBVIOUS
  <2>2. ~(y < x)
      BY <1>2, <2>1 DEF OpToRel
  <2> QED BY <2>1, <2>2
<1> QED BY <1>3

LEMMA HasGreatest ==
  ASSUME NEW S \in SUBSET Nat, S # {}, NEW b \in Nat, \A x \in S : x <= b
  PROVE  \E x \in S : \A y \in S : y <= x
<1> DEFINE D == {b - x : x \in S}
<1>1. \A x \in S : x \in Nat /\ x <= b
    OBVIOUS
<1>2. D \in SUBSET Nat /\ D # {}
  <2>1. \A x \in S : b - x \in Nat
      BY <1>1
  <2> QED BY <2>1
<1>3. PICK d \in D : \A e \in D : d <= e
  <2> HIDE DEF D
  <2> QED BY <1>2, HasLeast
<1>4. PICK x \in S : d = b - x
    OBVIOUS
<1>5. ASSUME NEW y \in S
      PROVE  y <= x
  <2>1. b - y \in D
      OBVIOUS
  <2>2. b - x <= b - y /\ x \in Nat /\ y \in Nat
      BY <1>3, <1>4, <2>1
  <2> HIDE DEF D
  <2> QED BY <2>2
<1> QED BY <1>5

LEMMA PriorIsBelow ==
  ASSUME NEW A \in SUBSET Nat, NEW L, NEW a \in A, Touches(A, L, a)
  PROVE  Prior(A, a) \in A /\ Prior(A, a) < a /\ Prior(A, a) \in {a - 1, a - 2}
BY DEF Touches, Prior

(* The recursion over addresses has a solution.                            *)
LEMMA StartsExist ==
  ASSUME NEW A \in SUBSET Nat, NEW L, NEW most
  PROVE  \E f : Solution(A, L, most, f)
<1> DEFINE Below(n) == {a \in A : a < n}
           Solves(n, f) == f = [a \in Below(n) |-> Start(A, L, most, f, a)]
<1>1. ASSUME NEW f, NEW g, NEW a \in A, Touches(A, L, a) => f[Prior(A, a)] = g[Prior(A, a)]
      PROVE  Start(A, L, most, f, a) = Start(A, L, most, g, a)
    BY <1>1 DEF Start
<1>2. ASSUME NEW n \in Nat
      PROVE  \E f : Solves(n, f)
  <2> DEFINE Bad == {m \in Nat : ~ \E f : Solves(m, f)}
  <2>1. ASSUME NEW m \in Bad, \A b \in Bad : m <= b
        PROVE  FALSE
    <3>1. CASE m = 0
      <4>1. Below(m) = {}
        <5>1. \A a \in A : a \in Nat /\ ~(a < m)
            BY <3>1
        <5> QED BY <5>1
      <4>2. Solves(m, [a \in {} |-> 0])
        <5> DEFINE f == [a \in {} |-> 0]
        <5>1. f = [a \in Below(m) |-> Start(A, L, most, f, a)]
            BY <4>1
        <5> QED BY <5>1
      <4> QED BY <4>2
    <3>2. CASE m # 0
      <4>1. m - 1 \in Nat /\ m - 1 < m
          BY <3>2
      <4>2. m - 1 \notin Bad
        <5>1. m \in Nat /\ (m - 1 \in Bad => m <= m - 1)
            BY <2>1
        <5> HIDE DEF Bad
        <5> QED BY <4>1, <5>1
      <4>3. PICK f : Solves(m - 1, f)
          BY <4>1, <4>2
      <4> DEFINE g == [a \in Below(m) |-> Start(A, L, most, f, a)]
      <4>4. ASSUME NEW a \in Below(m)
            PROVE  g[a] = Start(A, L, most, g, a)
        <5>1. g[a] = Start(A, L, most, f, a)
            OBVIOUS
        <5>2. ASSUME Touches(A, L, a)
              PROVE  f[Prior(A, a)] = g[Prior(A, a)]
          <6>1. Prior(A, a) \in Below(m - 1) /\ Prior(A, a) \in Below(m)
              BY <4>1, <5>2, PriorIsBelow
          <6>2. f[Prior(A, a)] = Start(A, L, most, f, Prior(A, a))
              BY <4>3, <6>1
          <6> QED BY <6>1, <6>2
        <5> HIDE DEF g
        <5>3. Start(A, L, most, f, a) = Start(A, L, most, g, a)
            BY <1>1, <5>2
        <5> QED BY <5>1, <5>3
      <4>5. g = [a \in Below(m) |-> Start(A, L, most, g, a)]
        <5>1. g = [a \in Below(m) |-> g[a]]
            OBVIOUS
        <5> HIDE DEF g
        <5> QED BY <4>4, <5>1
      <4> QED BY <4>5
    <3> QED BY <3>1, <3>2
  <2> HIDE DEF Solves
  <2>2. Bad = {}
      BY <2>1, HasLeast
  <2> QED BY <2>2
<1>3. ASSUME NEW m \in Nat, NEW n \in Nat, NEW f, NEW g, Solves(m, f), Solves(n, g),
             NEW a \in Below(m) \cap Below(n)
      PROVE  f[a] = g[a]
  <2> DEFINE D == {b \in Below(m) \cap Below(n) : f[b] # g[b]}
  <2>1. ASSUME NEW b \in D, \A c \in D : b <= c
        PROVE  FALSE
    <3>1. b \in A /\ b \in Below(m) /\ b \in Below(n)
        OBVIOUS
    <3>2. ASSUME Touches(A, L, b)
          PROVE  f[Prior(A, b)] = g[Prior(A, b)]
      <4>1. Prior(A, b) \in Below(m) \cap Below(n) /\ Prior(A, b) \in Nat /\ Prior(A, b) < b
          BY <3>1, <3>2, PriorIsBelow
      <4>2. Prior(A, b) \notin D
          BY <2>1, <4>1
      <4> QED BY <4>1, <4>2
    <3>3. Start(A, L, most, f, b) = Start(A, L, most, g, b)
        BY <1>1, <3>1, <3>2
    <3>4. f[b] = Start(A, L, most, f, b) /\ g[b] = Start(A, L, most, g, b)
        BY <1>3, <3>1
    <3> QED BY <3>3, <3>4
  <2> HIDE DEF Solves
  <2>2. D \in SUBSET Nat
      OBVIOUS
  <2>3. D = {}
      BY <2>1, <2>2, HasLeast
  <2> QED BY <2>3
<1> DEFINE Sol(n) == CHOOSE f : Solves(n, f)
           F == [a \in A |-> Sol(a + 1)[a]]
<1>4. ASSUME NEW a \in A
      PROVE  F[a] = Start(A, L, most, F, a)
  <2>1. Solves(a + 1, Sol(a + 1)) /\ a \in Below(a + 1) /\ a + 1 \in Nat
    <3>1. a + 1 \in Nat /\ a \in Below(a + 1)
        OBVIOUS
    <3>2. \E f : Solves(a + 1, f)
        BY <1>2, <3>1
    <3> HIDE DEF Solves
    <3> QED BY <3>1, <3>2
  <2>2. F[a] = Start(A, L, most, Sol(a + 1), a)
      BY <2>1
  <2>3. ASSUME Touches(A, L, a)
        PROVE  Sol(a + 1)[Prior(A, a)] = F[Prior(A, a)]
    <3> DEFINE p == Prior(A, a)
    <3>1. p \in A /\ p < a
        BY <2>3, PriorIsBelow
    <3>2. p \in Below(a + 1) \cap Below(p + 1) /\ p + 1 \in Nat
      <4>1. a \in Nat /\ p \in Nat
          BY <3>1
      <4> HIDE DEF p
      <4> QED BY <3>1, <4>1
    <3>3. Solves(p + 1, Sol(p + 1))
      <4>1. \E f : Solves(p + 1, f)
          BY <1>2, <3>2
      <4> HIDE DEF Solves, p
      <4> QED BY <4>1
    <3>4. F[p] = Sol(p + 1)[p]
        BY <3>1
    <3> HIDE DEF Solves, Sol, F, p
    <3>5. Sol(a + 1)[p] = Sol(p + 1)[p]
      <4> DEFINE f == Sol(a + 1)
                 g == Sol(p + 1)
                 m == a + 1
                 n == p + 1
      <4>1. /\ Solves(m, f) /\ Solves(n, g) /\ m \in Nat /\ n \in Nat
            /\ p \in Below(m) \cap Below(n)
          BY <2>1, <3>2, <3>3
      <4> HIDE DEF f, g, m, n, Below
      <4>2. f[p] = g[p]
          BY <1>3, <4>1
      <4> QED BY <4>2 DEF f, g
    <3> QED BY <3>4, <3>5 DEF p
  <2> HIDE DEF F, Sol
  <2>4. Start(A, L, most, Sol(a + 1), a) = Start(A, L, most, F, a)
      BY <1>1, <2>3
  <2> QED BY <2>2, <2>4
<1>5. F = [a \in A |-> Start(A, L, most, F, a)]
  <2>1. F = [a \in A |-> F[a]]
      OBVIOUS
  <2> HIDE DEF F
  <2> QED BY <1>4, <2>1
<1> QED BY <1>5 DEF Solution

(* What a solution says: each address is in the group of the one it        *)
(* touches, as long as the group has room for it, or begins one.           *)
Chained(A, L, most, f) ==
    \A a \in A :
        /\ f[a] \in A /\ f[a] <= a /\ f[f[a]] = f[a]
        /\ f[a] # a => /\ Touches(A, L, a) /\ f[Prior(A, a)] = f[a]
                       /\ a + Wide(L, a) - f[a] <= most
        /\ f[a] = a /\ Touches(A, L, a) => a + Wide(L, a) - f[Prior(A, a)] > most

LEMMA SolutionIsChained ==
  ASSUME NEW A \in SUBSET Nat, NEW L, NEW most \in Nat, NEW f, Solution(A, L, most, f)
  PROVE  Chained(A, L, most, f)
<1>1. ASSUME NEW a \in A
      PROVE  \/ /\ Touches(A, L, a) /\ f[a] = f[Prior(A, a)]
                /\ a + Wide(L, a) - f[Prior(A, a)] <= most
             \/ /\ f[a] = a
                /\ ~(Touches(A, L, a) /\ a + Wide(L, a) - f[Prior(A, a)] <= most)
  <2>1. f[a] = Start(A, L, most, f, a)
      BY DEF Solution
  <2> QED BY <2>1 DEF Start
<1> DEFINE Right(a) == f[a] \in A /\ f[a] <= a /\ f[f[a]] = f[a]
           Wrong == {a \in A : ~Right(a)}
<1>2. ASSUME NEW a \in Wrong, \A b \in Wrong : a <= b
      PROVE  FALSE
  <2>1. a \in A /\ a \in Nat /\ ~Right(a)
      OBVIOUS
  <2>2. CASE Touches(A, L, a) /\ f[a] = f[Prior(A, a)]
    <3> DEFINE p == Prior(A, a)
    <3>1. p \in A /\ p < a /\ p \in Nat
        BY <2>1, <2>2, PriorIsBelow
    <3>2. p \notin Wrong
      <4>1. p \in Wrong => a <= p
          BY <1>2
      <4> HIDE DEF p, Wrong
      <4> QED BY <2>1, <3>1, <4>1
    <3>3. Right(p)
        BY <3>1, <3>2
    <3>4. f[a] = f[p]
        BY <2>2
    <3> HIDE DEF p
    <3>5. f[a] \in A /\ f[a] <= p /\ f[f[a]] = f[a] /\ f[a] \in Nat
        BY <3>3, <3>4
    <3> QED BY <2>1, <3>1, <3>5
  <2>3. CASE f[a] = a
      BY <2>1, <2>3
  <2> QED BY <1>1, <2>1, <2>2, <2>3
<1>3. Wrong = {}
  <2>1. Wrong \in SUBSET Nat
      OBVIOUS
  <2> HIDE DEF Wrong
  <2> QED BY <1>2, <2>1, HasLeast
<1>4. ASSUME NEW a \in A
      PROVE  Right(a)
    BY <1>3, <1>4
<1>5. ASSUME NEW a \in A, f[a] # a
      PROVE  /\ Touches(A, L, a) /\ f[Prior(A, a)] = f[a]
             /\ a + Wide(L, a) - f[a] <= most
    BY <1>1, <1>5
<1>6. ASSUME NEW a \in A, f[a] = a, Touches(A, L, a)
      PROVE  a + Wide(L, a) - f[Prior(A, a)] > most
  <2> DEFINE p == Prior(A, a)
  <2>1. p \in A /\ p < a /\ p \in Nat /\ a \in Nat
      BY <1>6, PriorIsBelow
  <2>2. Right(p)
      BY <1>4, <2>1
  <2>3. f[p] \in Nat /\ f[p] <= p
      BY <2>2
  <2>4. f[a] # f[p]
      BY <1>6, <2>1, <2>3
  <2>5. ~(a + Wide(L, a) - f[p] <= most)
      BY <1>1, <1>6, <2>4
  <2>6. Wide(L, a) \in Nat
      BY DEF Wide
  <2> HIDE DEF p
  <2> QED BY <2>1, <2>3, <2>5, <2>6 DEF p
<1> HIDE DEF Right, Wrong
<1>7. \A a \in A : f[a] \in A /\ f[a] <= a /\ f[f[a]] = f[a]
    BY <1>4 DEF Right
<1> QED BY <1>5, <1>6, <1>7 DEF Chained

(* No two addresses of K, which begins at s, overlap, and between its      *)
(* first and its last word there is no gap.                                *)
Unbroken(K, L, most, s) ==
    /\ \A a, b \in K : a < b => a + Wide(L, a) <= b
    /\ \A a, b \in K : b + Wide(L, b) - a <= most \/ (a = s /\ b = s)
    /\ \A a, b \in K, w \in Nat : a <= w /\ w < b + Wide(L, b) =>
          \E c \in K : c <= w /\ w < c + Wide(L, c)

LEMMA GroupsAreRuns ==
  ASSUME NEW A \in SUBSET Nat, NEW L, NEW most \in Nat, NEW f, Chained(A, L, most, f), NEW s
  PROVE  Unbroken({a \in A : f[a] = s}, L, most, s)
<1> DEFINE K == {a \in A : f[a] = s}
<1>0. \A a \in A : a \in Nat /\ Wide(L, a) \in {1, 2}
    BY DEF Wide
<1>1. ASSUME NEW a \in K
      PROVE  s \in K /\ s <= a /\ s \in Nat
    BY <1>0 DEF Chained
<1>2. ASSUME NEW b \in K, b # s
      PROVE  /\ Touches(A, L, b) /\ Prior(A, b) \in K /\ Prior(A, b) < b
             /\ Prior(A, b) + Wide(L, Prior(A, b)) = b
             /\ b + Wide(L, b) - s <= most
  <2>1. f[b] = s /\ b \in A
      OBVIOUS
  <2>2. Touches(A, L, b) /\ f[Prior(A, b)] = s /\ b + Wide(L, b) - s <= most
      BY <1>2, <2>1 DEF Chained
  <2>3. Prior(A, b) \in A /\ Prior(A, b) < b
      BY <2>1, <2>2, PriorIsBelow
  <2> QED BY <2>2, <2>3 DEF Touches
<1>3. ASSUME NEW a \in K, NEW b \in K, a < b
      PROVE  a + Wide(L, a) <= b
  <2> SUFFICES ASSUME a + Wide(L, a) > b PROVE FALSE
      BY <1>0
  <2>1. b = a + 1 /\ Wide(L, a) = 2 /\ a \in A /\ a \in Nat
      BY <1>0, <1>3
  <2>2. Prior(A, b) = a
      BY <2>1 DEF Prior
  <2>3. b # s
      BY <1>0, <1>1, <1>3
  <2>4. a + Wide(L, a) = b
      BY <1>2, <2>2, <2>3
  <2> QED BY <2>1, <2>4
<1>4. ASSUME NEW a \in K, NEW b \in K
      PROVE  b + Wide(L, b) - a <= most \/ (a = s /\ b = s)
  <2>1. s <= a /\ s <= b /\ s \in Nat /\ a \in Nat /\ b \in Nat /\ Wide(L, b) \in {1, 2}
        /\ s \in K
      BY <1>0, <1>1
  <2>2. CASE b # s
    <3>1. b + Wide(L, b) - s <= most
        BY <1>2, <2>2
    <3> HIDE DEF K
    <3> QED BY <2>1, <3>1
  <2>3. CASE b = s /\ a # s
    <3>1. a + Wide(L, a) - s <= most
        BY <1>2, <2>3
    <3>2. s + Wide(L, s) <= a
        BY <1>3, <2>1, <2>3
    <3>3. Wide(L, a) \in {1, 2} /\ Wide(L, s) \in {1, 2}
        BY <1>0, <2>1
    <3> HIDE DEF K
    <3> QED BY <2>1, <2>3, <3>1, <3>2, <3>3
  <2> QED BY <2>2, <2>3
<1>5. ASSUME NEW a \in K, NEW b \in K, NEW w \in Nat, a <= w, w < b + Wide(L, b)
      PROVE  \E c \in K : c <= w /\ w < c + Wide(L, c)
  <2> DEFINE M == {c \in K : w < c + Wide(L, c)}
  <2>1. M \in SUBSET Nat /\ M # {}
      BY <1>0, <1>5
  <2>2. PICK c \in M : \A d \in M : c <= d
    <3> HIDE DEF M
    <3> QED BY <2>1, HasLeast
  <2>3. c \in K /\ w < c + Wide(L, c) /\ c \in Nat
      BY <1>0
  <2>4. c <= w
    <3> SUFFICES ASSUME w < c PROVE FALSE
        BY <2>3
    <3>1. c # s
      <4>1. s <= a /\ s \in Nat /\ a \in Nat
          BY <1>0, <1>1
      <4> HIDE DEF K, M
      <4> QED BY <1>5, <2>3, <4>1
    <3>2. Prior(A, c) \in K /\ Prior(A, c) < c /\ Prior(A, c) + Wide(L, Prior(A, c)) = c
        BY <1>2, <2>3, <3>1
    <3>3. Prior(A, c) \in M /\ Prior(A, c) \in Nat
        BY <1>0, <3>2
    <3>4. c <= Prior(A, c)
        BY <2>2, <3>3
    <3> HIDE DEF K, M
    <3> QED BY <2>3, <3>2, <3>3, <3>4
  <2> QED BY <2>3, <2>4
<1> HIDE DEF K
<1>6. Unbroken(K, L, most, s)
    BY <1>3, <1>4, <1>5 DEF Unbroken
<1> QED BY <1>6 DEF K

-----------------------------------------------------------------------------
(* The recursion as RegisterGroups writes it, over the registers of a map. *)
(* No two registers of a table have the same first address:                *)
(* docs/Register-Map-Invariants.md.                                        *)
Distinct(S) == \A p, q \in S : p.table = q.table /\ p.at = q.at => p = q

At(T) == {r.at : r \in T}
Long(T) == {r.at : r \in {q \in T : size(q) = 2}}

LEMMA RegisterIs ==
  ASSUME NEW r \in Register
  PROVE  r.at \in Nat /\ r.table \in Tables /\ size(r) \in {1, 2}
BY DEF Register, size

LEMMA FirstIsChained ==
  ASSUME NEW T \in SUBSET Register, NEW most \in Nat
  PROVE  Chained(At(T), Long(T), most, first_of_group(T, most))
<1> DEFINE ats == {r.at : r \in T}
           doubles == {r.at : r \in {q \in T : size(q) = 2}}
           width(a) == IF a \in doubles THEN 2 ELSE 1
           before(a) == IF a - 1 \in ats THEN a - 1 ELSE a - 2
           f == first_of_group(T, most)
           Body(g, a) == IF before(a) \in ats /\ Adjacent(a, before(a) + width(before(a)))
                         THEN LET start == g[before(a)] IN
                                  IF HasRoom(start, a, width(a), most) THEN start ELSE a
                         ELSE a
<1>1. f = CHOOSE g : g = [a \in ats |-> Body(g, a)]
    BY DEF first_of_group
<1>2. \A g, a : Body(g, a) = Start(At(T), Long(T), most, g, a)
    BY DEF Adjacent, HasRoom, Start, Touches, Prior, Wide, At, Long
<1> HIDE DEF Body, f
<1>3. At(T) = ats /\ ats \in SUBSET Nat
    BY RegisterIs DEF At
<1> HIDE DEF ats
<1>4. f = CHOOSE g : g = [a \in At(T) |-> Start(At(T), Long(T), most, g, a)]
    BY <1>1, <1>2, <1>3
<1>5. \E g : Solution(At(T), Long(T), most, g)
    BY <1>3, StartsExist
<1>6. Solution(At(T), Long(T), most, f)
    BY <1>4, <1>5 DEF Solution
<1>7. Chained(At(T), Long(T), most, f)
    BY <1>3, <1>6, SolutionIsChained
<1> QED BY <1>7 DEF f

(* The group of table that begins at s.                                    *)
Cut(S, most, table, s) ==
    {r \in InTable(S, table) : first_of_group(InTable(S, table), most)[r.at] = s}
Begins(S, most, table, s) ==
    /\ table \in Tables
    /\ s \in At(InTable(S, table))
    /\ first_of_group(InTable(S, table), most)[s] = s

LEMMA GroupsAreCuts ==
  ASSUME NEW S \in SUBSET Register, NEW most \in Nat, NEW K
  PROVE  K \in group_registers(S, most) <=>
            \E table \in Tables : \E s \in At(InTable(S, table)) :
                Begins(S, most, table, s) /\ K = Cut(S, most, table, s)
<1> DEFINE T(table) == InTable(S, table)
           f(table) == first_of_group(T(table), most)
           starts(table) == {r.at : r \in {q \in T(table) : f(table)[q.at] = q.at}}
           piece(table, a) == {r \in T(table) : r.at \in a .. a + most /\ f(table)[r.at] = a}
<1>1. K \in group_registers(S, most) <=>
         \E table \in Tables : \E a \in starts(table) : K = piece(table, a)
    BY DEF group_registers
<1>2. ASSUME NEW table \in Tables
      PROVE  \A a : a \in starts(table) <=> a \in At(T(table)) /\ Begins(S, most, table, a)
    BY DEF At, Begins
<1>3. ASSUME NEW table \in Tables, NEW a \in At(T(table))
      PROVE  piece(table, a) = Cut(S, most, table, a)
  <2>1. Chained(At(T(table)), Long(T(table)), most, f(table)) /\ T(table) \in SUBSET Register
    <3>1. T(table) \in SUBSET Register
        BY DEF InTable
    <3> QED BY <3>1, FirstIsChained
  <2>2. ASSUME NEW r \in T(table), f(table)[r.at] = a
        PROVE  r.at \in a .. a + most
    <3>1. r.at \in At(T(table)) /\ r.at \in Nat /\ a \in Nat
        BY <2>1, RegisterIs DEF At
    <3>2. a <= r.at /\ (a # r.at => r.at + Wide(Long(T(table)), r.at) - a <= most)
        BY <2>1, <2>2, <3>1 DEF Chained
    <3>3. Wide(Long(T(table)), r.at) \in {1, 2}
        BY DEF Wide
    <3> HIDE DEF T, f
    <3> QED BY <3>1, <3>2, <3>3
  <2> QED BY <2>2 DEF Cut
<1> HIDE DEF starts, piece
<1>4. ASSUME NEW table \in Tables
      PROVE  (\E a \in starts(table) : K = piece(table, a)) <=>
             \E s \in At(T(table)) : Begins(S, most, table, s) /\ K = Cut(S, most, table, s)
    BY <1>2, <1>3
<1> QED BY <1>1, <1>4

LEMMA EachIsCut ==
  ASSUME NEW S \in SUBSET Register, NEW most \in Nat, NEW K \in group_registers(S, most)
  PROVE  \E table, s : Begins(S, most, table, s) /\ K = Cut(S, most, table, s)
<1>1. PICK table \in Tables : \E s \in At(InTable(S, table)) :
           Begins(S, most, table, s) /\ K = Cut(S, most, table, s)
    BY GroupsAreCuts
<1> QED BY <1>1

(* What a request is sent for.                                             *)
Run(K, most) ==
    /\ K # {} /\ K \subseteq Register
    /\ \A p, q \in K : p.table = q.table /\ (p.at = q.at => p = q)
    /\ \A p, q \in K : p.at < q.at => p.at + size(p) <= q.at
    /\ \A p, q \in K : q.at + size(q) - p.at <= most \/ p = q
    /\ \A p, q \in K, w \in Nat : p.at <= w /\ w < q.at + size(q) =>
          \E r \in K : r.at <= w /\ w < r.at + size(r)

LEMMA WideIsSize ==
  ASSUME NEW S \in SUBSET Register, Distinct(S), NEW table, NEW r \in InTable(S, table)
  PROVE  Wide(Long(InTable(S, table)), r.at) = size(r)
<1>1. \A q \in InTable(S, table) : q.at = r.at => q = r
    BY DEF Distinct, InTable
<1>2. r.at \in Long(InTable(S, table)) <=> size(r) = 2
    BY <1>1 DEF Long
<1> QED BY <1>2, RegisterIs DEF Wide, InTable

LEMMA CutIsRun ==
  ASSUME NEW S \in SUBSET Register, Distinct(S), NEW most \in Nat, NEW table, NEW s,
         Begins(S, most, table, s)
  PROVE  Run(Cut(S, most, table, s), most)
<1> DEFINE T == InTable(S, table)
           f == first_of_group(T, most)
           A == At(T)
           K == {a \in A : f[a] = s}
           C == Cut(S, most, table, s)
<1>1. T \in SUBSET Register /\ T \subseteq S /\ \A r \in T : r.table = table
    BY DEF InTable
<1>2. A \in SUBSET Nat /\ Chained(A, Long(T), most, f)
    BY <1>1, RegisterIs, FirstIsChained DEF At
<1> HIDE DEF f
<1>3. /\ \A a, b \in K : a < b => a + Wide(Long(T), a) <= b
      /\ \A a, b \in K : b + Wide(Long(T), b) - a <= most \/ (a = s /\ b = s)
      /\ \A a, b \in K, w \in Nat : a <= w /\ w < b + Wide(Long(T), b) =>
               \E c \in K : c <= w /\ w < c + Wide(Long(T), c)
  <2>1. Unbroken(K, Long(T), most, s)
      BY <1>2, GroupsAreRuns
  <2> QED BY <2>1 DEF Unbroken
<1>4. ASSUME NEW r \in C
      PROVE  r \in T /\ r.at \in K /\ Wide(Long(T), r.at) = size(r)
    BY WideIsSize DEF Cut, At, f
<1>5. ASSUME NEW a \in K
      PROVE  \E r \in C : r.at = a
    BY DEF Cut, At, f
<1>6. s \in K
    BY DEF Begins, f
<1>7. ASSUME NEW p \in C, NEW q \in C
      PROVE  /\ p.table = q.table /\ (p.at = q.at => p = q)
             /\ p.at < q.at => p.at + size(p) <= q.at
             /\ q.at + size(q) - p.at <= most \/ p = q
  <2>1. p.table = q.table /\ (p.at = q.at => p = q)
      BY <1>1, <1>4 DEF Distinct
  <2> HIDE DEF K, C, T
  <2>2. p.at < q.at => p.at + size(p) <= q.at
      BY <1>3, <1>4
  <2>3. q.at + size(q) - p.at <= most \/ (p.at = s /\ q.at = s)
      BY <1>3, <1>4
  <2> QED BY <2>1, <2>2, <2>3
<1>8. ASSUME NEW p \in C, NEW q \in C, NEW w \in Nat, p.at <= w, w < q.at + size(q)
      PROVE  \E r \in C : r.at <= w /\ w < r.at + size(r)
  <2> HIDE DEF K, C, T
  <2>1. PICK c \in K : c <= w /\ w < c + Wide(Long(T), c)
      BY <1>3, <1>4, <1>8
  <2>2. PICK r \in C : r.at = c
      BY <1>5
  <2> QED BY <1>4, <2>1, <2>2
<1>9. C # {} /\ C \subseteq Register
    BY <1>1, <1>4, <1>5, <1>6
<1> HIDE DEF C
<1> QED BY <1>7, <1>8, <1>9 DEF Run, C

LEMMA GroupsAreOfRegisters ==
  ASSUME NEW S \in SUBSET Register, Distinct(S), NEW most \in Nat,
         NEW K \in group_registers(S, most)
  PROVE  Run(K, most) /\ K \subseteq S
<1>1. PICK table, s : Begins(S, most, table, s) /\ K = Cut(S, most, table, s)
    BY EachIsCut
<1>2. Run(Cut(S, most, table, s), most)
    BY <1>1, CutIsRun
<1>3. Cut(S, most, table, s) \subseteq S
    BY DEF Cut, InTable
<1> QED BY <1>1, <1>2, <1>3

(* Every register is in a group, that of the address it is chained to.     *)
Home(S, most, r) ==
    Cut(S, most, r.table, first_of_group(InTable(S, r.table), most)[r.at])

LEMMA GroupsCover ==
  ASSUME NEW S \in SUBSET Register, NEW most \in Nat, NEW r \in S
  PROVE  Home(S, most, r) \in group_registers(S, most) /\ r \in Home(S, most, r)
<1> DEFINE T == InTable(S, r.table)
           f == first_of_group(T, most)
<1>1. r \in T /\ T \in SUBSET Register /\ r.table \in Tables /\ r.at \in At(T)
    BY RegisterIs DEF InTable, At
<1>2. Chained(At(T), Long(T), most, f)
    BY <1>1, FirstIsChained
<1>3. f[r.at] \in At(T) /\ f[f[r.at]] = f[r.at]
    BY <1>1, <1>2 DEF Chained
<1>4. Begins(S, most, r.table, f[r.at]) /\ r \in Cut(S, most, r.table, f[r.at])
    BY <1>1, <1>3 DEF Begins, Cut
<1>5. Cut(S, most, r.table, f[r.at]) \in group_registers(S, most)
    BY <1>1, <1>3, <1>4, GroupsAreCuts
<1> QED BY <1>4, <1>5 DEF Home

-----------------------------------------------------------------------------
(* The order in which the groups are read.                                 *)
LEMMA RankIsNat ==
  ASSUME NEW r \in Register
  PROVE  /\ Rank(r) \in Nat /\ r.at \in Nat
         /\ \A q \in Register :
               /\ q.table = r.table => (Rank(q) <= Rank(r) <=> q.at <= r.at)
               /\ Rank(q) \in Nat /\ q.at \in Nat
<1> DEFINE Of(table) == CASE table = "coil" -> 0
                         [] table = "holding" -> 1
                         [] table = "input" -> 2
<1>1. ASSUME NEW q \in Register
      PROVE  /\ q.at \in Nat /\ Of(q.table) \in 0 .. 2
             /\ Rank(q) = Of(q.table) * 65536 + q.at
  <2>1. q.table \in {"coil", "holding", "input"} /\ q.at \in Nat
      BY RegisterIs DEF Tables
  <2>2. Of(q.table) \in 0 .. 2
      BY <2>1
  <2> QED BY <2>1, <2>2 DEF Rank
<1> HIDE DEF Of
<1>2. ASSUME NEW q \in Register
      PROVE  /\ q.table = r.table => (Rank(q) <= Rank(r) <=> q.at <= r.at)
             /\ Rank(q) \in Nat /\ q.at \in Nat
  <2>1. /\ q.at \in Nat /\ Of(q.table) \in 0 .. 2 /\ Rank(q) = Of(q.table) * 65536 + q.at
        /\ r.at \in Nat /\ Of(r.table) \in 0 .. 2 /\ Rank(r) = Of(r.table) * 65536 + r.at
      BY <1>1
  <2> QED BY <2>1
<1> QED BY <1>2

LEMMA FirstIsFirst ==
  ASSUME NEW K \in SUBSET Register, K # {}
  PROVE  First(K) \in K /\ \A q \in K : Rank(First(K)) <= Rank(q)
<1> DEFINE Ranks == {Rank(q) : q \in K}
<1>1. Ranks \in SUBSET Nat /\ Ranks # {}
    BY RankIsNat
<1>2. Min(Ranks) \in Ranks /\ \A x \in Ranks : Min(Ranks) <= x
  <2>1. \E x \in Ranks : \A y \in Ranks : x <= y
    <3> HIDE DEF Ranks
    <3> QED BY <1>1, HasLeast
  <2> HIDE DEF Ranks
  <2> QED BY <2>1 DEF Min
<1>3. \E r \in K : Rank(r) = Min(Ranks)
    BY <1>2
<1>4. First(K) \in K /\ Rank(First(K)) = Min(Ranks)
    BY <1>3 DEF First
<1> QED BY <1>2, <1>4

LEMMA LastIsLast ==
  ASSUME NEW most \in Nat, NEW K, Run(K, most)
  PROVE  Last(K) \in K /\ \A q \in K : q.at <= Last(K).at
<1> DEFINE Ranks == {Rank(q) : q \in K}
<1>0. K \in SUBSET Register /\ K # {} /\ \A p, q \in K : p.table = q.table
    BY DEF Run
<1>1. Ranks \in SUBSET Nat /\ Ranks # {}
    BY <1>0, RankIsNat
<1>2. PICK p \in K : TRUE
    BY <1>0
<1>3. ASSUME NEW q \in K
      PROVE  Rank(q) <= Rank(p) + most
  <2>1. q.at + size(q) - p.at <= most \/ p = q
      BY DEF Run
  <2>2. q.at <= p.at + most
      BY <1>0, <2>1, RegisterIs
  <2>3. /\ p \in Register /\ q \in Register /\ p.table = q.table
      BY <1>0
  <2> DEFINE far == [p EXCEPT !.at = p.at + most]
  <2>4. far \in Register /\ far.table = p.table /\ far.at = p.at + most
      BY <2>3 DEF Register
  <2>5. Rank(far) = Rank(p) + most
    <3> DEFINE Of(table) == CASE table = "coil" -> 0
                         [] table = "holding" -> 1
                         [] table = "input" -> 2
    <3>1. p.table \in {"coil", "holding", "input"} /\ p.at \in Nat
        BY <2>3, RegisterIs DEF Tables
    <3>2. Of(p.table) \in 0 .. 2 
        BY <3>1
    <3>3. /\ Rank(p) = Of(p.table) * 65536 + p.at
          /\ Rank(far) = Of(p.table) * 65536 + (p.at + most)
      <4> HIDE DEF far
      <4> QED BY <2>4, <3>1 DEF Rank
    <3> HIDE DEF far, Of
    <3> QED BY <3>1, <3>2, <3>3
  <2> HIDE DEF far
  <2>6. Rank(q) <= Rank(far)
      BY <2>2, <2>3, <2>4, RankIsNat
  <2> QED BY <2>5, <2>6
<1>4. \A x \in Ranks : x <= Rank(p) + most
    BY <1>3
<1>5. Max(Ranks) \in Ranks /\ \A x \in Ranks : x <= Max(Ranks)
  <2>1. Rank(p) + most \in Nat
      BY <1>0, RankIsNat
  <2>2. \E x \in Ranks : \A y \in Ranks : y <= x
    <3> DEFINE b == Rank(p) + most
    <3>1. b \in Nat /\ \A x \in Ranks : x <= b
        BY <1>4, <2>1
    <3> HIDE DEF Ranks, b
    <3> QED BY <1>1, <3>1, HasGreatest
  <2>3. \E x \in Ranks : \A y \in Ranks : x >= y
    <3> HIDE DEF Ranks
    <3> QED BY <1>1, <2>2
  <2> HIDE DEF Ranks
  <2>4. Max(Ranks) \in Ranks /\ \A y \in Ranks : Max(Ranks) >= y
      BY <2>3 DEF Max
  <2> QED BY <1>1, <2>4
<1>6. \E r \in K : Rank(r) = Max(Ranks)
    BY <1>5
<1>7. Last(K) \in K /\ Rank(Last(K)) = Max(Ranks)
    BY <1>6 DEF Last
<1>8. \A q \in K : Rank(q) <= Rank(Last(K))
    BY <1>5, <1>7
<1> QED BY <1>0, <1>7, <1>8, RankIsNat

LEMMA FirstOfRun ==
  ASSUME NEW most \in Nat, NEW K, Run(K, most)
  PROVE  /\ First(K) \in K /\ First(K) \in Register
         /\ \A q \in K : First(K).at <= q.at
         /\ Last(K) \in K /\ Last(K) \in Register
         /\ \A q \in K : q.at <= Last(K).at
<1>1. K \in SUBSET Register /\ K # {} /\ \A p, q \in K : p.table = q.table
    BY DEF Run
<1>2. First(K) \in K /\ \A q \in K : Rank(First(K)) <= Rank(q)
    BY <1>1, FirstIsFirst
<1>3. \A q \in K : First(K).at <= q.at
    BY <1>1, <1>2, RankIsNat
<1> QED BY <1>1, <1>2, <1>3, LastIsLast

LEMMA NextIsNext ==
  ASSUME groups # {}, \A K \in groups : K # {} /\ K \in SUBSET Register
  PROVE  /\ NextGroup \in groups
         /\ \A K \in groups : \A r \in K : Rank(First(NextGroup)) <= Rank(r)
<1> DEFINE Ranks == {Rank(r) : r \in UNION groups}
<1>1. \A r \in UNION groups : r \in Register /\ Rank(r) \in Nat
    BY RankIsNat
<1>2. Ranks \in SUBSET Nat /\ Ranks # {}
  <2>1. PICK r : r \in UNION groups
      OBVIOUS
  <2> QED BY <1>1, <2>1
<1>3. Min(Ranks) \in Ranks /\ \A x \in Ranks : Min(Ranks) <= x
  <2>1. \E x \in Ranks : \A y \in Ranks : x <= y
    <3> HIDE DEF Ranks
    <3> QED BY <1>2, HasLeast
  <2> HIDE DEF Ranks
  <2> QED BY <2>1 DEF Min
<1>4. \E K \in groups : \E r \in K : Rank(r) = Min(Ranks)
    BY <1>3
<1>5. NextGroup \in groups /\ \E r \in NextGroup : Rank(r) = Min(Ranks)
    BY <1>4 DEF NextGroup
<1>6. PICK r \in NextGroup : Rank(r) = Min(Ranks)
    BY <1>5
<1>7. Rank(First(NextGroup)) <= Min(Ranks)
    BY <1>5, <1>6, FirstIsFirst
<1>8. First(NextGroup) \in UNION groups
    BY <1>5, FirstIsFirst
<1>9. ASSUME NEW K \in groups, NEW q \in K
      PROVE  Rank(First(NextGroup)) <= Rank(q)
  <2>1. q \in UNION groups /\ Rank(q) \in Ranks
      OBVIOUS
  <2>2. Min(Ranks) <= Rank(q) /\ Min(Ranks) \in Nat
      BY <1>2, <1>3, <2>1
  <2>3. Rank(q) \in Nat /\ Rank(First(NextGroup)) \in Nat
      BY <1>1, <1>8, <2>1
  <2> HIDE DEF Ranks
  <2> QED BY <1>7, <2>2, <2>3
<1> QED BY <1>5, <1>9

(* The request for the registers of K.                                     *)
Asked(K) ==
    [table |-> First(K).table, start |-> First(K).at,
     count |-> Last(K).at + size(Last(K)) - First(K).at]

LEMMA AskedIsProper ==
  ASSUME NEW most \in Nat, NEW K, Run(K, most)
  PROVE  /\ Asked(K).table \in Tables /\ Asked(K).start \in Nat
         /\ Asked(K).count \in Nat \ {0}
         /\ Asked(K).count <= most \/ Asked(K).count <= 2
<1> DEFINE p == First(K)
           q == Last(K)
<1>1. /\ p \in K /\ p \in Register /\ q \in K /\ q \in Register /\ p.at <= q.at
    BY FirstOfRun
<1>2. /\ p.at \in Nat /\ q.at \in Nat /\ size(p) \in {1, 2} /\ size(q) \in {1, 2}
      /\ p.table \in Tables
    BY <1>1, RegisterIs
<1>3. q.at + size(q) - p.at <= most \/ p = q
    BY <1>1 DEF Run
<1>4. Asked(K).table = p.table /\ Asked(K).start = p.at
      /\ Asked(K).count = q.at + size(q) - p.at
    BY DEF Asked
<1> HIDE DEF p, q
<1> QED BY <1>1, <1>2, <1>3, <1>4

(* A register's slice of the answer to its group is the words it owns.     *)
LEMMA SlicesAreWords ==
  ASSUME NEW most \in Nat, NEW K, Run(K, most), NEW r \in K
  PROVE  SliceOf(Asked(K), r.at - Asked(K).start, size(r)) = Words(r)
<1> DEFINE p == First(K)
           q == Last(K)
           first == p.at
           n == q.at + size(q) - p.at
           answer == Asked(K)
<1>1. /\ p \in K /\ p \in Register /\ q \in K /\ q \in Register /\ r \in Register
      /\ p.at <= r.at /\ r.at <= q.at
    BY FirstOfRun DEF Run
<1>2. /\ p.at \in Nat /\ q.at \in Nat /\ size(q) \in {1, 2}
      /\ r.at \in Nat /\ size(r) \in {1, 2}
    BY <1>1, RegisterIs
<1>3. r.at + size(r) <= q.at + size(q)
  <2>1. CASE r.at = q.at
    <3>1. r = q
        BY <1>1, <2>1 DEF Run
    <3> QED BY <1>2, <3>1
  <2>2. CASE r.at < q.at
    <3>1. r.at + size(r) <= q.at
        BY <1>1, <2>2 DEF Run
    <3> HIDE DEF q
    <3> QED BY <1>2, <3>1
  <2> QED BY <1>1, <1>2, <2>1, <2>2
<1>4. answer.start = first /\ answer.count = n
    BY DEF Asked
<1> HIDE DEF answer, p, q
<1>5. ASSUME NEW w
      PROVE  w \in SliceOf(answer, r.at - answer.start, size(r)) <=> w \in Words(r)
  <2>1. first \in Nat /\ n \in Int /\ first + n = q.at + size(q) /\ first <= r.at
      BY <1>1, <1>2
  <2> DEFINE m == size(r)
             e == q.at + size(q)
             a == r.at
  <2>2. w \in SliceOf(answer, r.at - answer.start, size(r)) <=>
          /\ \E i \in a - first .. a - first + m - 1 : w = first + i
          /\ w \in first .. first + n - 1
      BY <1>4 DEF SliceOf
  <2>3. a \in Nat /\ m \in {1, 2} /\ e \in Nat /\ first \in Nat /\ n \in Int /\ first + n = e
        /\ first <= a /\ a + m <= e
      BY <1>2, <1>3, <2>1
  <2>5. w \in Words(r) <=> w \in a .. a + m - 1
      BY DEF Words
  <2> HIDE DEF first, n, m, e, a
  <2>4. (/\ \E i \in a - first .. a - first + m - 1 : w = first + i
         /\ w \in first .. first + n - 1) <=> w \in a .. a + m - 1
    <3>1. CASE w \in a .. a + m - 1
      <4>1. /\ w \in Int /\ w - first \in a - first .. a - first + m - 1
            /\ w = first + (w - first)
          BY <2>3, <3>1
      <4>2. w \in first .. first + n - 1
          BY <2>3, <3>1
      <4> QED BY <3>1, <4>1, <4>2
    <3>2. CASE w \notin a .. a + m - 1
        BY <2>3, <3>2
    <3> QED BY <3>1, <3>2
  <2> QED BY <2>2, <2>4, <2>5
<1> QED BY <1>5 DEF answer

(* Each word of the request is of one register of the group.               *)
LEMMA EachWordHasOneOwner ==
  ASSUME NEW most \in Nat, NEW K, Run(K, most),
         NEW w \in Asked(K).start .. Asked(K).start + Asked(K).count - 1
  PROVE  Cardinality({r \in K : w \in Words(r)}) = 1
<1> DEFINE p == First(K)
           q == Last(K)
<1>1. p \in K /\ q \in K /\ K \subseteq Register
    BY FirstOfRun DEF Run
<1>2. \A r \in K : r.at \in Nat /\ size(r) \in {1, 2}
    BY <1>1, RegisterIs
<1>3. Asked(K).start = p.at /\ Asked(K).count = q.at + size(q) - p.at
    BY DEF Asked
<1> HIDE DEF p, q
<1>4. w \in Nat /\ p.at <= w /\ w < q.at + size(q)
  <2>1. p.at \in Nat /\ q.at \in Nat /\ size(q) \in {1, 2}
      BY <1>1, <1>2
  <2> QED BY <1>3, <2>1
<1>5. PICK r \in K : r.at <= w /\ w < r.at + size(r)
    BY <1>1, <1>4 DEF Run
<1>6. ASSUME NEW o \in K
      PROVE  w \in Words(o) <=> o.at <= w /\ w < o.at + size(o)
  <2>1. o.at \in Nat /\ size(o) \in {1, 2}
      BY <1>2
  <2> QED BY <1>4, <2>1 DEF Words
<1>7. ASSUME NEW o \in K, w \in Words(o)
      PROVE  o = r
  <2>1. o.at \in Nat /\ size(o) \in {1, 2} /\ r.at \in Nat /\ size(r) \in {1, 2}
      BY <1>2
  <2>2. o.at <= w /\ w < o.at + size(o)
      BY <1>6, <1>7
  <2>3. ~(o.at < r.at) /\ ~(r.at < o.at)
    <3>1. o.at < r.at => o.at + size(o) <= r.at
        BY DEF Run
    <3>2. r.at < o.at => r.at + size(r) <= o.at
        BY DEF Run
    <3> QED BY <1>4, <1>5, <2>1, <2>2, <3>1, <3>2
  <2>4. o.at = r.at
      BY <2>1, <2>3
  <2> QED BY <2>4 DEF Run
<1>8. {o \in K : w \in Words(o)} = {r}
    BY <1>5, <1>6, <1>7
<1> QED BY <1>8, FS_Singleton

-----------------------------------------------------------------------------
(* The poll of a map.                                                      *)
Wanted == valid_regs(polled, failed)
Together == {r \in Wanted : r.at \notin unsafe}
Plan == group_registers(Together, limit)

GroupsInOrder ==
    /\ polled \in Maps /\ failed \in GivenUp /\ unsafe \in Suspect /\ limit \in Limits
    /\ groups \subseteq Plan
    /\ read \cup (UNION groups) \cup single = Wanted
GroupAnswered ==
    /\ DOMAIN sliced \subseteq read
    /\ DecodedFromItsWords
    /\ NoStrayWords
    /\ \/ request = NoRequest
       \/ /\ request \in [table : Tables, start : Nat, count : Nat \ {0}]
          /\ request.count <= limit \/ request.count <= 2

MapsAreDistinct == \A S \in Maps : Distinct(S)

LEMMA PolledIsOfRegisters ==
  ASSUME MapsAreDistinct, GroupsInOrder
  PROVE  /\ Wanted \in SUBSET Register /\ Wanted \subseteq polled
         /\ Together \in SUBSET Register /\ Together \subseteq Wanted
         /\ Distinct(Together) /\ limit \in Nat
         /\ \A K \in Plan : Run(K, limit) /\ K \subseteq Together /\ K # {}
<1>1. polled \in SUBSET Register /\ Distinct(polled) /\ limit \in Nat
    BY GroupsAssumption DEF MapsAreDistinct, GroupsInOrder
<1>2. Wanted \subseteq polled /\ Together \subseteq Wanted
    BY DEF Wanted, Together, valid_regs
<1>3. Distinct(Together)
    BY <1>1, <1>2 DEF Distinct
<1>4. Together \in SUBSET Register
    BY <1>1, <1>2
<1>5. \A K \in Plan : Run(K, limit) /\ K \subseteq Together
    BY <1>1, <1>3, <1>4, GroupsAreOfRegisters DEF Plan
<1> QED BY <1>1, <1>2, <1>3, <1>4, <1>5 DEF Run

LEMMA PollBegins ==
  ASSUME MapsAreDistinct, PollInit
  PROVE  GroupsInOrder /\ GroupAnswered
<1>1. /\ polled \in Maps /\ failed \in GivenUp /\ unsafe \in Suspect /\ limit \in Limits
      /\ groups = Plan /\ single = {r \in Wanted : r.at \in unsafe}
      /\ request = NoRequest /\ sliced = <<>> /\ read = {}
    BY DEF PollInit, Planned, Plan, Together, Wanted
<1>2. polled \in SUBSET Register /\ Distinct(polled) /\ limit \in Nat
    BY <1>1, GroupsAssumption DEF MapsAreDistinct
<1>3. Together \in SUBSET Register /\ Together \subseteq polled /\ Distinct(Together)
    BY <1>2 DEF Wanted, Together, valid_regs, Distinct
<1>4. UNION Plan = Together
  <2>1. \A K \in Plan : K \subseteq Together
      BY <1>2, <1>3, GroupsAreOfRegisters DEF Plan
  <2>2. \A r \in Together : \E K \in Plan : r \in K
      BY <1>2, <1>3, GroupsCover DEF Plan
  <2> QED BY <2>1, <2>2
<1>5. read \cup (UNION groups) \cup single = Wanted
    BY <1>1, <1>4 DEF Together
<1>6. DOMAIN sliced = {}
    BY <1>1
<1>7. NoStrayWords
  <2>1. request.start = 0 /\ request.count = 0
      BY <1>1 DEF NoRequest
  <2> QED BY <2>1 DEF NoStrayWords
<1> QED BY <1>1, <1>5, <1>6, <1>7 DEF GroupsInOrder, GroupAnswered, DecodedFromItsWords

(* Reading a run leaves the poll in order.                                 *)
LEMMA TakingARun ==
  ASSUME limit \in Nat, limit' = limit,
         NEW most \in Nat, most = limit, NEW K, Run(K, most), Ask(K), Take(K)
  PROVE  GroupAnswered'
<1>1. request' = Asked(K) /\ sliced' = Slices(K, request') /\ read' = read \cup K
    BY DEF Ask, Take, Asked
<1>2. DOMAIN sliced' = K /\ \A r \in K : sliced'[r] = Words(r)
  <2>1. sliced' = [r \in K |-> SliceOf(Asked(K), r.at - Asked(K).start, size(r))]
      BY <1>1 DEF Slices
  <2> QED BY <2>1, SlicesAreWords
<1>3. DecodedFromItsWords'
    BY <1>2 DEF DecodedFromItsWords
<1>4. NoStrayWords'
  <2>1. ASSUME NEW w \in request'.start .. request'.start + request'.count - 1
        PROVE  Cardinality({r \in DOMAIN sliced' : w \in Words(r)}) = 1
      BY <1>1, <1>2, EachWordHasOneOwner
  <2> QED BY <2>1 DEF NoStrayWords
<1>5. /\ request' \in [table : Tables, start : Nat, count : Nat \ {0}]
      /\ request'.count <= limit' \/ request'.count <= 2
    BY <1>1, AskedIsProper DEF Asked
<1> QED BY <1>1, <1>2, <1>3, <1>4, <1>5 DEF GroupAnswered

LEMMA OneIsARun ==
  ASSUME NEW most \in Nat, NEW r \in Register
  PROVE  Run({r}, most)
BY RegisterIs DEF Run

LEMMA ReadGroupKeeps ==
  ASSUME MapsAreDistinct, GroupsInOrder, ReadGroup
  PROVE  GroupsInOrder' /\ GroupAnswered'
<1>1. /\ groups # {} /\ Ask(NextGroup) /\ Take(NextGroup)
      /\ groups' = groups \ {NextGroup}
      /\ polled' = polled /\ failed' = failed /\ unsafe' = unsafe /\ limit' = limit
      /\ single' = single
    BY DEF ReadGroup, poll
<1>2. limit \in Nat /\ groups \subseteq Plan
      /\ \A K \in Plan : Run(K, limit) /\ K \subseteq Together /\ K # {}
      /\ Together \in SUBSET Register
    BY PolledIsOfRegisters DEF GroupsInOrder
<1>3. NextGroup \in groups
  <2>1. \A K \in groups : K # {} /\ K \in SUBSET Register
      BY <1>2
  <2> QED BY <1>1, <2>1, NextIsNext
<1>4. GroupAnswered'
    BY <1>1, <1>2, <1>3, TakingARun
<1>5. read' = read \cup NextGroup
    BY <1>1 DEF Take
<1>6. Wanted' = Wanted /\ Plan' = Plan
    BY <1>1 DEF Wanted, Plan, Together, valid_regs, group_registers, first_of_group
<1>7. read' \cup (UNION groups') \cup single' = read \cup (UNION groups) \cup single
  <2> DEFINE K == NextGroup
  <2>1. K \in groups /\ groups' = groups \ {K} /\ read' = read \cup K /\ single' = single
      BY <1>1, <1>3, <1>5
  <2> HIDE DEF K
  <2> QED BY <2>1
<1> QED BY <1>1, <1>4, <1>6, <1>7 DEF GroupsInOrder

LEMMA ReadSingleKeeps ==
  ASSUME MapsAreDistinct, GroupsInOrder, ReadSingle
  PROVE  GroupsInOrder' /\ GroupAnswered'
<1> DEFINE r == First(single)
<1>1. /\ groups = {} /\ single # {} /\ Ask({r}) /\ Take({r})
      /\ single' = single \ {r}
      /\ polled' = polled /\ failed' = failed /\ unsafe' = unsafe /\ limit' = limit
      /\ groups' = groups
    BY DEF ReadSingle, poll
<1>2. limit \in Nat /\ single \subseteq Wanted /\ Wanted \in SUBSET Register
    BY PolledIsOfRegisters DEF GroupsInOrder
<1>3. r \in single /\ r \in Register
    BY <1>1, <1>2, FirstIsFirst
<1> HIDE DEF r
<1>4. GroupAnswered'
    BY <1>1, <1>2, <1>3, OneIsARun, TakingARun
<1>5. read' = read \cup {r}
    BY <1>1 DEF Take
<1>6. Wanted' = Wanted
    BY <1>1 DEF Wanted, valid_regs
<1>7. read' \cup (UNION groups') \cup single' = read \cup (UNION groups) \cup single
    BY <1>1, <1>3, <1>5
<1>8. groups' \subseteq Plan'
    BY <1>1
<1> QED BY <1>1, <1>4, <1>6, <1>7, <1>8 DEF GroupsInOrder

LEMMA PollContinues ==
  ASSUME MapsAreDistinct, GroupsInOrder, GroupAnswered, [PollNext]_pollVars
  PROVE  GroupsInOrder' /\ GroupAnswered'
<1>1. CASE ReadGroup
    BY <1>1, ReadGroupKeeps
<1>2. CASE ReadSingle
    BY <1>2, ReadSingleKeeps
<1>3. CASE UNCHANGED pollVars
  <2>1. /\ polled' = polled /\ failed' = failed /\ unsafe' = unsafe /\ limit' = limit
        /\ groups' = groups /\ single' = single /\ request' = request /\ sliced' = sliced
        /\ read' = read
      BY <1>3 DEF pollVars, poll
  <2>2. Wanted' = Wanted /\ Plan' = Plan
      BY <2>1 DEF Wanted, Plan, Together, valid_regs, group_registers, first_of_group
  <2>3. GroupsInOrder'
      BY <2>1, <2>2 DEF GroupsInOrder
  <2>4. GroupAnswered'
      BY <2>1 DEF GroupAnswered, DecodedFromItsWords, NoStrayWords
  <2> QED BY <2>3, <2>4
<1> QED BY <1>1, <1>2, <1>3 DEF PollNext

(* Whatever map is polled, with any limit, quarantine and set given up:    *)
(* each register is decoded from the words it owns, and when the poll ends *)
(* every one that can be read was read (_group_registers, _read_group,     *)
(* read_batch). That no two registers of a table begin at one address is   *)
(* true of every map the package builds (BuiltMapsAreDistinct).            *)
THEOREM EachIsDecoded ==
  ASSUME MapsAreDistinct
  PROVE  PollSpec => []EveryRegisterDecoded
<1>1. PollInit => GroupsInOrder /\ GroupAnswered
    BY PollBegins
<1>2. GroupsInOrder /\ GroupAnswered /\ [PollNext]_pollVars => (GroupsInOrder /\ GroupAnswered)'
    BY PollContinues
<1>3. GroupsInOrder /\ GroupAnswered => EveryRegisterDecoded
  <2> SUFFICES ASSUME GroupsInOrder, GroupAnswered PROVE EveryRegisterDecoded
      OBVIOUS
  <2>1. ASSUME groups = {}, single = {}
        PROVE  read = valid_regs(polled, failed)
      BY <2>1 DEF GroupsInOrder, Wanted
  <2> QED BY <2>1 DEF GroupAnswered, EveryRegisterDecoded, NothingLeftOut
<1> QED BY <1>1, <1>2, <1>3, PTL DEF PollSpec

(* And no request is wider than the limit, nor asks for a word that no     *)
(* register of its group owns or that two of them share.  A limit below    *)
(* the two words of a FLOAT is not kept, and one above the 125 words of    *)
(* Modbus is passed on as it is.                                           *)
THEOREM RequestsFit ==
  ASSUME MapsAreDistinct, Limits \subseteq 2 .. 125
  PROVE  PollSpec => []RequestsAreProper
<1>1. PollInit => GroupsInOrder /\ GroupAnswered
    BY PollBegins
<1>2. GroupsInOrder /\ GroupAnswered /\ [PollNext]_pollVars => (GroupsInOrder /\ GroupAnswered)'
    BY PollContinues
<1>3. GroupsInOrder /\ GroupAnswered => RequestsAreProper
  <2> SUFFICES ASSUME GroupsInOrder, GroupAnswered PROVE RequestsAreProper
      OBVIOUS
  <2>1. limit \in 2 .. 125
      BY DEF GroupsInOrder
  <2>2. request = NoRequest \/ (request \in Request /\ request.count <= limit)
    <3>1. CASE request \in [table : Tables, start : Nat, count : Nat \ {0}]
               /\ (request.count <= limit \/ request.count <= 2)
      <4>1. request.count \in 1 .. 125 /\ request.count <= limit
          BY <2>1, <3>1
      <4>2. request \in [table : Tables, start : Nat, count : 1 .. 125]
          BY <3>1, <4>1
      <4> QED BY <4>1, <4>2 DEF Request
    <3> QED BY <3>1 DEF GroupAnswered
  <2>3. WithinLimit
      BY <2>1, <2>2 DEF WithinLimit, NoRequest
  <2>4. PollTypeOK
    <3>1. /\ Wanted \subseteq polled
          /\ \A K \in groups : K # {} /\ K \subseteq polled
      <4>1. \A K \in Plan : K \subseteq Together /\ K # {}
          BY PolledIsOfRegisters
      <4>2. Wanted \subseteq polled /\ Together \subseteq Wanted /\ groups \subseteq Plan
          BY PolledIsOfRegisters DEF GroupsInOrder
      <4> QED BY <4>1, <4>2
    <3>2. single \subseteq polled /\ read \subseteq polled
        BY <3>1 DEF GroupsInOrder
    <3> QED BY <2>2, <3>1, <3>2 DEF GroupsInOrder, GroupAnswered, PollTypeOK
  <2> QED BY <2>3, <2>4 DEF GroupAnswered, RequestsAreProper
<1> QED BY <1>1, <1>2, <1>3, PTL DEF PollSpec

-----------------------------------------------------------------------------
(* Groups are read from the lowest rank up.                                *)
Ordered ==
    /\ \A K \in Plan \ groups, M \in groups : \A r \in M : Rank(First(K)) <= Rank(r)
    /\ \/ request.count = 0
       \/ groups = {}
       \/ \E K \in Plan \ groups :
             /\ request = Asked(K)
             /\ \A M \in Plan \ groups : Rank(First(M)) <= Rank(First(K))

LEMMA OrderKept ==
  ASSUME MapsAreDistinct, GroupsInOrder, Ordered, [PollNext]_pollVars
  PROVE  Ordered'
<1>1. CASE ReadGroup
  <2> DEFINE N == NextGroup
  <2>1. /\ groups # {} /\ groups' = groups \ {N} /\ request' = Asked(N)
        /\ polled' = polled /\ failed' = failed /\ unsafe' = unsafe /\ limit' = limit
      BY <1>1 DEF ReadGroup, poll, Ask, Asked
  <2>2. Plan' = Plan
      BY <2>1 DEF Wanted, Plan, Together, valid_regs, group_registers, first_of_group
  <2>3. groups \subseteq Plan /\ \A K \in groups : K # {} /\ K \in SUBSET Register
      BY PolledIsOfRegisters DEF GroupsInOrder
  <2>4. N \in groups /\ \A K \in groups : \A r \in K : Rank(First(N)) <= Rank(r)
      BY <2>1, <2>3, NextIsNext
  <2>5. First(N) \in N
      BY <2>3, <2>4, FirstIsFirst
  <2> HIDE DEF N
  <2>6. Plan \ groups' = (Plan \ groups) \cup {N}
      BY <2>1, <2>3, <2>4
  <2>7. \A K \in Plan \ groups' : Rank(First(K)) <= Rank(First(N))
    <3>1. Rank(First(N)) <= Rank(First(N))
        BY <2>4, <2>5
    <3>2. \A K \in Plan \ groups : Rank(First(K)) <= Rank(First(N))
        BY <2>4, <2>5 DEF Ordered
    <3> QED BY <2>6, <3>1, <3>2
  <2>8. ASSUME NEW K \in Plan \ groups', NEW M \in groups', NEW r \in M
        PROVE  Rank(First(K)) <= Rank(r)
    <3>1. M \in groups
        BY <2>1
    <3>2. CASE K = N
        BY <2>4, <3>1, <3>2
    <3>3. CASE K \in Plan \ groups
        BY <3>1, <3>3 DEF Ordered
    <3> QED BY <2>6, <3>2, <3>3
  <2>9. N \in Plan \ groups'
      BY <2>6
  <2> QED BY <2>1, <2>2, <2>7, <2>8, <2>9 DEF Ordered, Asked
<1>2. CASE ReadSingle
  <2>1. groups = {} /\ groups' = {}
      BY <1>2 DEF ReadSingle
  <2> QED BY <2>1 DEF Ordered
<1>3. CASE UNCHANGED pollVars
  <2>1. /\ polled' = polled /\ failed' = failed /\ unsafe' = unsafe /\ limit' = limit
        /\ groups' = groups /\ request' = request
      BY <1>3 DEF pollVars, poll
  <2>2. Plan' = Plan
      BY <2>1 DEF Wanted, Plan, Together, valid_regs, group_registers, first_of_group
  <2> QED BY <2>1, <2>2 DEF Ordered
<1> QED BY <1>1, <1>2, <1>3 DEF PollNext

(* The first register of a group is at the address the group begins at.    *)
LEMMA FirstOfCut ==
  ASSUME NEW S \in SUBSET Register, Distinct(S), NEW most \in Nat, NEW table, NEW s,
         Begins(S, most, table, s)
  PROVE  /\ First(Cut(S, most, table, s)).at = s
         /\ First(Cut(S, most, table, s)).table = table
<1> DEFINE T == InTable(S, table)
           f == first_of_group(T, most)
           K == Cut(S, most, table, s)
<1>1. Run(K, most)
    BY CutIsRun
<1>2. T \in SUBSET Register /\ \A r \in T : r.table = table
    BY DEF InTable
<1>3. Chained(At(T), Long(T), most, f)
    BY <1>2, FirstIsChained
<1>4. \A r \in K : r \in T /\ r.at \in At(T) /\ f[r.at] = s
    BY DEF Cut, At
<1>5. \A r \in K : s <= r.at
    BY <1>3, <1>4 DEF Chained
<1>6. \E r \in K : r.at = s
    BY DEF Begins, Cut, At
<1>7. First(K) \in K /\ \A q \in K : First(K).at <= q.at
    BY <1>1, FirstOfRun
<1>8. \A r \in K : r.at \in Nat
    BY <1>2, <1>4, RegisterIs
<1> HIDE DEF K, T, f
<1>9. First(K).at = s
    BY <1>5, <1>6, <1>7, <1>8
<1>10. First(K).table = table
    BY <1>2, <1>4, <1>7
<1> QED BY <1>9, <1>10 DEF K

(* A group that begins where the last request ended was cut off by the     *)
(* limit: were it for a register that overlaps that request's last one,    *)
(* the group of that register would have been read between the two.        *)
LEMMA CutByTheLimit ==
  ASSUME NEW S \in SUBSET Register, Distinct(S), NEW most \in Nat,
         NEW K \in group_registers(S, most), NEW N \in group_registers(S, most),
         First(N).table = Asked(K).table,
         First(N).at = Asked(K).start + Asked(K).count,
         \A M \in group_registers(S, most) :
            \/ Rank(First(M)) <= Rank(First(K))
            \/ \A r \in M : Rank(First(N)) <= Rank(r)
  PROVE  Asked(K).count + size(First(N)) > most
<1>1. PICK table, s : Begins(S, most, table, s) /\ K = Cut(S, most, table, s)
    BY EachIsCut
<1>2. PICK other, e : Begins(S, most, other, e) /\ N = Cut(S, most, other, e)
    BY EachIsCut
<1> DEFINE T == InTable(S, table)
           f == first_of_group(T, most)
           A == At(T)
           L == Long(T)
           l == Last(K)
<1>3. /\ First(K).at = s /\ First(K).table = table
      /\ First(N).at = e /\ First(N).table = other
    BY <1>1, <1>2, FirstOfCut
<1>4. Run(K, most) /\ Run(N, most)
    BY GroupsAreOfRegisters
<1>5. other = table
    BY <1>3 DEF Asked
<1>6. T \in SUBSET Register /\ T \subseteq S /\ A \in SUBSET Nat /\ Chained(A, L, most, f)
  <2>1. T \in SUBSET Register /\ T \subseteq S
      BY DEF InTable
  <2> QED BY <2>1, FirstIsChained, RegisterIs DEF At
<1>7. /\ l \in T /\ l.at \in A /\ f[l.at] = s /\ l.at \in Nat /\ size(l) \in {1, 2}
      /\ Wide(L, l.at) = size(l)
  <2>1. l \in K
      BY <1>4, FirstOfRun
  <2>2. l \in T /\ f[l.at] = s
      BY <1>1, <2>1 DEF Cut
  <2> QED BY <1>6, <2>2, RegisterIs, WideIsSize DEF At
<1>8. s \in A /\ s \in Nat /\ e \in A /\ e \in Nat /\ f[e] = e
    BY <1>1, <1>2, <1>5, <1>6 DEF Begins
<1>9. e = l.at + size(l) /\ Asked(K).start = s /\ Asked(K).count = e - s
  <2>1. Asked(K).start = s /\ Asked(K).count = l.at + size(l) - s
      BY <1>3 DEF Asked
  <2> HIDE DEF l
  <2> QED BY <1>3, <1>7, <1>8, <2>1
<1>10. size(First(N)) = Wide(L, e)
  <2>1. First(N) \in N
      BY <1>4, FirstOfRun
  <2>2. First(N) \in T
      BY <1>2, <1>5, <2>1 DEF Cut
  <2> QED BY <1>3, <2>2, WideIsSize
<1> HIDE DEF l, L, f
<1>11. CASE Prior(A, e) = l.at
  <2>1. Touches(A, L, e)
      BY <1>7, <1>9, <1>11 DEF Touches
  <2>2. e + Wide(L, e) - f[Prior(A, e)] > most
      BY <1>6, <1>8, <2>1 DEF Chained
  <2>3. e + Wide(L, e) - s > most /\ Wide(L, e) \in {1, 2}
      BY <1>7, <1>11, <2>2 DEF Wide
  <2> HIDE DEF A, T
  <2> QED BY <1>8, <1>9, <1>10, <2>3
<1>12. CASE Prior(A, e) # l.at
  <2> DEFINE b == e - 1
  <2>1. b \in A /\ b \in Nat /\ l.at = b - 1 /\ size(l) = 2
    <3>1. e - 1 \in A /\ e - 2 = l.at /\ size(l) = 2
      <4> HIDE DEF A, T
      <4>1. e - 1 \in A => e - 1 # l.at
          BY <1>12 DEF Prior
      <4>2. e - 1 \notin A => e - 2 # l.at
          BY <1>12 DEF Prior
      <4> QED BY <1>7, <1>8, <1>9, <4>1, <4>2
    <3> HIDE DEF A, T
    <3> QED BY <1>7, <1>8, <3>1
  <2>2. f[b] = b
    <3>1. Prior(A, b) = l.at
      <4> HIDE DEF A, T, b
      <4> QED BY <1>7, <2>1 DEF Prior
    <3>2. ~Touches(A, L, b)
      <4>1. b # l.at + 2
        <5> HIDE DEF A, T, b
        <5> QED BY <1>7, <2>1
      <4> QED BY <1>7, <2>1, <3>1, <4>1 DEF Touches
    <3> QED BY <1>6, <2>1, <3>2 DEF Chained
  <2> DEFINE M == Cut(S, most, table, b)
  <2>3. Begins(S, most, table, b) /\ M \in group_registers(S, most)
    <3>1. Begins(S, most, table, b)
        BY <1>1, <2>1, <2>2 DEF Begins, f
    <3>2. table \in Tables /\ b \in At(InTable(S, table))
        BY <3>1 DEF Begins
    <3> QED BY <3>1, <3>2, GroupsAreCuts
  <2>4. First(M).at = b /\ First(M).table = table
      BY <2>3, FirstOfCut
  <2>5. First(M) \in M /\ First(M) \in Register
      BY <2>3, GroupsAreOfRegisters, FirstOfRun
  <2>6. First(K) \in Register /\ First(N) \in Register
      BY <1>4, FirstOfRun
  <2> HIDE DEF M
  <2>7. ~(Rank(First(M)) <= Rank(First(K)))
    <3>1. ~(b <= s)
      <4>1. s <= l.at
          BY <1>6, <1>7 DEF Chained
      <4> HIDE DEF A, T, b
      <4> QED BY <1>7, <1>8, <2>1, <4>1
    <3> QED BY <1>3, <2>4, <2>5, <2>6, <3>1, RankIsNat
  <2>8. ~(Rank(First(N)) <= Rank(First(M)))
    <3>1. ~(e <= b)
        BY <1>8
    <3> QED BY <1>3, <1>5, <2>4, <2>5, <2>6, <3>1, RankIsNat
  <2> QED BY <2>3, <2>5, <2>7, <2>8
<1> QED BY <1>11, <1>12

(* A request that goes on where the one before it ended was cut by the     *)
(* limit and by nothing else (_group_registers).                           *)
THEOREM NoGroupIsCutShort ==
  ASSUME MapsAreDistinct
  PROVE  PollSpec => GroupsAreFull
<1> DEFINE Full ==
      ReadGroup /\ request'.table = request.table /\ request.count > 0
         /\ request'.start = request.start + request.count
       => request.count + size(First(NextGroup)) > limit
<1>1. PollInit => GroupsInOrder /\ GroupAnswered /\ Ordered
  <2>1. ASSUME PollInit
        PROVE  Ordered
    <3>1. groups = Plan /\ request.count = 0
        BY <2>1 DEF PollInit, Planned, Plan, Together, Wanted, NoRequest
    <3> QED BY <3>1 DEF Ordered
  <2> QED BY <2>1, PollBegins
<1>2. GroupsInOrder /\ GroupAnswered /\ Ordered /\ [PollNext]_pollVars => (GroupsInOrder /\ GroupAnswered /\ Ordered)'
    BY PollContinues, OrderKept
<1>3. GroupsInOrder /\ GroupAnswered /\ Ordered => Full
  <2> SUFFICES ASSUME GroupsInOrder, Ordered, ReadGroup, request'.table = request.table,
                      request.count > 0, request'.start = request.start + request.count
               PROVE  request.count + size(First(NextGroup)) > limit
      OBVIOUS
  <2> DEFINE N == NextGroup
  <2>1. groups # {} /\ request' = Asked(N) /\ request.count # 0
      BY DEF ReadGroup, Ask, Asked
  <2>2. PICK K \in Plan \ groups :
             /\ request = Asked(K)
             /\ \A M \in Plan \ groups : Rank(First(M)) <= Rank(First(K))
      BY <2>1 DEF Ordered
  <2>3. groups \subseteq Plan /\ \A M \in groups : M # {} /\ M \in SUBSET Register
      BY PolledIsOfRegisters DEF GroupsInOrder
  <2>4. N \in groups /\ \A M \in groups : \A r \in M : Rank(First(N)) <= Rank(r)
      BY <2>1, <2>3, NextIsNext
  <2>5. Together \in SUBSET Register /\ Distinct(Together) /\ limit \in Nat
      BY PolledIsOfRegisters
  <2>6. First(N).table = Asked(K).table /\ First(N).at = Asked(K).start + Asked(K).count
      BY <2>1, <2>2 DEF Asked
  <2> HIDE DEF N
  <2>7. Asked(K).count + size(First(N)) > limit
      BY <2>2, <2>3, <2>4, <2>5, <2>6, CutByTheLimit DEF Plan
  <2> QED BY <2>2, <2>7 DEF N
<1> HIDE DEF Full
<1>4. GroupsInOrder /\ GroupAnswered /\ Ordered => [Full]_pollVars
    BY <1>3
<1>5. PollSpec => [][Full]_pollVars
    BY <1>1, <1>2, <1>4, PTL DEF PollSpec
<1> QED BY <1>5 DEF GroupsAreFull, Full

-----------------------------------------------------------------------------
(* The groups that RegisterReads takes for granted.                        *)

(* The groups of RegisterReads, for which a register is its address: of    *)
(* that module only the operator Groups is used here.                      *)
Polls == INSTANCE RegisterReads
    WITH Poller <- {}, Register <- Nat, Unimplemented <- {}, Lists <- {}, Faulty <- {},
         Threshold <- 1, permFailed <- {}, unsupported <- {}, failures <- <<>>, unsafe <- {},
         poll <- <<>>, streak <- <<>>, learned <- {}

(* No run of consecutive addresses of A is longer than most.               *)
Short(A, most) == \A a, b \in A : a <= b /\ a .. b \subseteq A => b - a < most

(* Among one-word registers an address joins the group of the one before   *)
(* it, unless the group is full.                                           *)
LEMMA TheNextOneJoins ==
  ASSUME NEW A \in SUBSET Nat, NEW most \in Nat, NEW f, Chained(A, {}, most, f),
         Short(A, most), NEW a \in A, a + 1 \in A
  PROVE  f[a + 1] = f[a]
<1> DEFINE s == f[a]
           K == {b \in A : f[b] = s}
<1>1. s \in A /\ s <= a /\ f[s] = s /\ a \in Nat /\ s \in Nat
    BY DEF Chained
<1>2. (a + 1) - 1 = a
    BY <1>1
<1>3. Prior(A, a + 1) = a /\ Touches(A, {}, a + 1) /\ Wide({}, a + 1) = 1
    BY <1>1, <1>2 DEF Prior, Touches, Wide
<1>4. ASSUME NEW w \in s .. a
      PROVE  w \in A
  <2>1. Unbroken(K, {}, most, s)
      BY GroupsAreRuns
  <2>2. s \in K /\ a \in K /\ w \in Nat /\ s <= w /\ w <= a
      BY <1>1
  <2> HIDE DEF K, s
  <2>3. PICK c \in K : c <= w /\ w < c + 1
      BY <1>1, <2>1, <2>2 DEF Unbroken, Wide
  <2>4. c \in A /\ c \in Nat
      BY DEF K
  <2> QED BY <2>2, <2>3, <2>4
<1> HIDE DEF s, K
<1>5. \A w \in s .. a + 1 : w \in A
    BY <1>1, <1>4
<1>6. a + 1 - s < most
    BY <1>1, <1>5 DEF Short
<1>7. (a + 1) + 1 - s <= most
    BY <1>1, <1>6
<1>8. f[a + 1] \in A /\ (f[a + 1] # a + 1 => f[a] = f[a + 1])
    BY <1>3 DEF Chained
<1>9. f[a + 1] = a + 1 => (a + 1) + 1 - s > most
    BY <1>3 DEF Chained, s
<1> QED BY <1>1, <1>6, <1>7, <1>8, <1>9 DEF s

(* So the addresses that begin together are the run that begins there.     *)
LEMMA StartsAreRuns ==
  ASSUME NEW A \in SUBSET Nat, NEW most \in Nat, NEW f, Chained(A, {}, most, f), Short(A, most)
  PROVE  {{a \in A : f[a] = s} : s \in {a \in A : f[a] = a}} = Polls!Groups(A)
<1> DEFINE K(s) == {a \in A : f[a] = s}
<1>1. \A a \in A : a \in Nat /\ f[a] \in A /\ f[a] <= a /\ f[f[a]] = f[a]
    BY DEF Chained
<1>2. ASSUME NEW s \in A, f[s] = s
      PROVE  K(s) \in Polls!Groups(A)
  <2>1. s \in K(s)
      BY <1>2
  <2>2. ASSUME NEW a \in K(s), NEW b \in K(s), NEW w \in a .. b
        PROVE  w \in K(s)
    <3>1. Unbroken(K(s), {}, most, s)
        BY GroupsAreRuns
    <3>2. a \in Nat /\ b \in Nat
        BY <1>1
    <3>3. w \in Nat /\ a <= w /\ w < b + 1
        BY <2>2, <3>2
    <3> HIDE DEF K
    <3>4. PICK c \in K(s) : c <= w /\ w < c + 1
        BY <3>1, <3>3 DEF Unbroken, Wide
    <3>5. c \in Nat
        BY <1>1 DEF K
    <3> QED BY <3>3, <3>4, <3>5
  <2>3. ASSUME NEW a \in K(s), NEW b \in A, b = a + 1 \/ a = b + 1
        PROVE  b \in K(s)
    <3>1. a \in A /\ f[a] = s
        OBVIOUS
    <3> HIDE DEF K
    <3>2. f[b] = f[a]
        BY <2>3, <3>1, TheNextOneJoins
    <3> QED BY <3>1, <3>2 DEF K
  <2> HIDE DEF K
  <2>4. \A a, b \in K(s) : a .. b \subseteq K(s)
      BY <2>2
  <2>5. K(s) \in SUBSET A
      BY DEF K
  <2> QED BY <2>1, <2>3, <2>4, <2>5 DEF Polls!Groups
<1>3. ASSUME NEW G \in Polls!Groups(A)
      PROVE  \E s \in A : f[s] = s /\ G = K(s)
  <2>1. /\ G \subseteq A /\ G # {} /\ G \in SUBSET Nat
        /\ \A a, b \in G : a .. b \subseteq G
        /\ \A a \in G, b \in A : b = a + 1 \/ a = b + 1 => b \in G
      BY DEF Polls!Groups
  <2>2. PICK s \in G : \A y \in G : s <= y
      BY <2>1, HasLeast
  <2>3. s \in A /\ s \in Nat
      BY <2>1
  <2>4. f[s] = s
    <3>1. s - 1 \notin A
      <4>1. s - 1 \in A => s - 1 \in G
        <5>1. s - 1 \in A => s = (s - 1) + 1
            BY <2>3
        <5> QED BY <2>1, <5>1
      <4>2. ~(s <= s - 1)
          BY <2>3
      <4> QED BY <2>2, <4>1, <4>2
    <3>2. Prior(A, s) = s - 2 /\ Wide({}, Prior(A, s)) = 1
        BY <3>1 DEF Prior, Wide
    <3>3. ~Touches(A, {}, s)
        BY <2>3, <3>2 DEF Touches
    <3> QED BY <2>3, <3>3 DEF Chained
  <2>5. ASSUME NEW g \in G
        PROVE  f[g] = s
    <3> DEFINE B == {w \in s .. g : f[w] # s}
    <3>1. s \in Nat /\ g \in Nat /\ s <= g /\ s .. g \subseteq G /\ s .. g \subseteq A
        BY <2>1, <2>2
    <3>2. ASSUME NEW w \in B, \A y \in B : w <= y
          PROVE  FALSE
      <4>1. w \in s .. g /\ w \in Nat /\ s <= w /\ w <= g /\ f[w] # s
          BY <3>1
      <4>2. w # s
          BY <2>4, <4>1
      <4>3. w - 1 \in s .. g /\ (w - 1) + 1 = w /\ ~(w <= w - 1)
          BY <3>1, <4>1, <4>2
      <4>4. f[w - 1] = s
          BY <3>2, <4>3
      <4>5. f[(w - 1) + 1] = f[w - 1]
          BY <3>1, <4>1, <4>3, TheNextOneJoins
      <4> QED BY <4>1, <4>3, <4>4, <4>5
    <3>3. B \in SUBSET Nat
        BY <3>1
    <3>4. g \in s .. g
        BY <3>1
    <3>5. B = {}
      <4> HIDE DEF B
      <4> QED BY <3>2, <3>3, HasLeast
    <3> QED BY <3>4, <3>5
  <2>6. ASSUME NEW a \in A, f[a] = s
        PROVE  a \in G
    <3> DEFINE B == {w \in s .. a : w \notin G}
    <3>1. a \in Nat /\ s <= a
        BY <1>1, <2>6
    <3>2. \A w \in s .. a : w \in A
      <4>1. K(s) \in Polls!Groups(A)
          BY <1>2, <2>3, <2>4
      <4>2. s \in K(s) /\ a \in K(s)
          BY <2>3, <2>4, <2>6
      <4> HIDE DEF K
      <4>3. s .. a \subseteq K(s) /\ K(s) \subseteq A
          BY <4>1, <4>2 DEF Polls!Groups
      <4> QED BY <4>3
    <3>3. ASSUME NEW w \in B, \A y \in B : w <= y
          PROVE  FALSE
      <4>1. w \in s .. a /\ w \in Nat /\ s <= w /\ w <= a /\ w \notin G
          BY <2>3, <3>1
      <4>2. w # s
          BY <4>1
      <4>3. w - 1 \in s .. a /\ w = (w - 1) + 1 /\ ~(w <= w - 1)
          BY <2>3, <3>1, <4>1, <4>2
      <4>4. w - 1 \in G
          BY <3>3, <4>3
      <4>5. w \in A
          BY <3>2, <4>1
      <4> QED BY <2>1, <4>1, <4>3, <4>4, <4>5
    <3>4. B \in SUBSET Nat
        BY <2>3, <3>1
    <3>5. a \in s .. a
        BY <2>3, <3>1
    <3>6. B = {}
      <4> HIDE DEF B
      <4> QED BY <3>3, <3>4, HasLeast
    <3> QED BY <3>5, <3>6
  <2>7. G = K(s)
      BY <2>1, <2>5, <2>6
  <2> QED BY <2>3, <2>4, <2>7
<1> HIDE DEF K
<1>4. {K(s) : s \in {a \in A : f[a] = a}} = Polls!Groups(A)
    BY <1>2, <1>3
<1> QED BY <1>4 DEF K

(* What RegisterReads says of the groups of a poll is what                 *)
(* _group_registers() returns: for registers of one table and one word     *)
(* each, of which the limit cuts no run, the groups are the maximal runs   *)
(* of consecutive addresses.                                               *)
THEOREM RunsAreGrouped ==
  ASSUME NEW S \in SUBSET Register, NEW table \in Tables, NEW most \in Nat,
         \A r \in S : r.table = table /\ size(r) = 1, Short(At(S), most)
  PROVE  {At(G) : G \in group_registers(S, most)} = Polls!Groups(At(S))
<1> DEFINE A == At(S)
           f == first_of_group(S, most)
<1>1. InTable(S, table) = S /\ \A t \in Tables \ {table} : InTable(S, t) = {}
    BY DEF InTable
<1>2. A \in SUBSET Nat /\ Long(S) = {}
    BY RegisterIs DEF At, Long
<1>3. Chained(A, {}, most, f)
    BY <1>2, FirstIsChained
<1> HIDE DEF A, f
<1>4. \A K : K \in group_registers(S, most) <=>
                 \E s \in A : f[s] = s /\ K = {r \in S : f[r.at] = s}
  <2>1. \A t \in Tables : \A s \in At(InTable(S, t)) :
            Begins(S, most, t, s) => t = table /\ s \in A /\ f[s] = s
      BY <1>1 DEF Begins, At, A, f
  <2>2. \A s \in A : f[s] = s => s \in At(InTable(S, table)) /\ Begins(S, most, table, s)
      BY <1>1 DEF Begins, A, f
  <2>3. \A s : Cut(S, most, table, s) = {r \in S : f[r.at] = s}
      BY <1>1 DEF Cut, f
  <2>4. \A K : K \in group_registers(S, most) <=>
            \E t \in Tables : \E s \in At(InTable(S, t)) :
                Begins(S, most, t, s) /\ K = Cut(S, most, t, s)
      BY GroupsAreCuts
  <2>5. ASSUME NEW G \in group_registers(S, most)
        PROVE  \E s \in A : f[s] = s /\ G = {r \in S : f[r.at] = s}
    <3>1. PICK t \in Tables : \E s \in At(InTable(S, t)) :
              Begins(S, most, t, s) /\ G = Cut(S, most, t, s)
        BY <2>4
    <3>2. PICK s \in At(InTable(S, t)) : Begins(S, most, t, s) /\ G = Cut(S, most, t, s)
        BY <3>1
    <3> QED BY <2>1, <2>3, <3>2
  <2>6. ASSUME NEW s \in A, f[s] = s
        PROVE  {r \in S : f[r.at] = s} \in group_registers(S, most)
      BY <2>2, <2>3, <2>4, <2>6
  <2> QED BY <2>5, <2>6
<1>5. \A s : At({r \in S : f[r.at] = s}) = {a \in A : f[a] = s}
    BY DEF At, A
<1>6. {At(G) : G \in group_registers(S, most)}
          = {{a \in A : f[a] = s} : s \in {a \in A : f[a] = a}}
  <2> DEFINE C(s) == {r \in S : f[r.at] = s}
             K(s) == {a \in A : f[a] = s}
             F == {a \in A : f[a] = a}
  <2>1. \A G : G \in group_registers(S, most) <=> \E s \in F : G = C(s)
      BY <1>4
  <2>2. \A s : At(C(s)) = K(s)
      BY <1>5
  <2> HIDE DEF C, K, F
  <2>3. {At(G) : G \in group_registers(S, most)} = {K(s) : s \in F}
      BY <2>1, <2>2
  <2> QED BY <2>3 DEF K, F
<1>7. Short(A, most)
    BY DEF A
<1>8. {{a \in A : f[a] = s} : s \in {a \in A : f[a] = a}} = Polls!Groups(A)
    BY <1>2, <1>3, <1>7, StartsAreRuns
<1> QED BY <1>6, <1>8 DEF A

-----------------------------------------------------------------------------
(* The maps that are polled.                                             *)
LEMMA RowsOverlap ==
    ASSUME NEW S, AllRows(S), NEW p \in S, NEW o \in S,
           o.table = p.table, size(p) = 2, o.at = p.at + 1
    PROVE  p.at \in DocumentedOverlaps
<1>1. CASE \A r \in S : Row(r)
  <2>1. p.type = "FLOAT" /\ p.type = TypeOf(p.at) /\ p.at \in Places /\ o.at \in Places
      BY <1>1, RowFields DEF size
  <2>2. p.at \in FloatAt
      BY <2>1 DEF TypeOf
  <2> QED
      BY <2>1, <2>2, FloatsOverlap
<1>2. CASE \A r \in S : Row17(r)
  <2>1. p.type = "FLOAT" /\ p.type = Type17(p.at) /\ p.at \in Places17 /\ o.at \in Places17
      BY <1>2, RowFields17 DEF size
  <2>2. p.at \in {74, 76, 78, 82, 4122} \cup Every(2, 1000, 1088) \cup Holding17
      BY <2>1 DEF Type17, Places17, Input17
  <2> QED
      BY <2>1, <2>2 DEF Places17, Input17, Holding17, Every
<1> QED
    BY <1>1, <1>2 DEF AllRows

LEMMA RowsAgreeOnEeprom ==
    ASSUME NEW S, AllRows(S), NEW r \in S, r.table = "input", Writable(r)
    PROVE  r.access = "eeprom" <=> r.at \in EEPROM_SENSITIVE_ADDRESSES
<1>1. CASE Row(r)
  <2>1. r.access = AccessOf(r.at)
      BY <1>1, RowFields
  <2> QED
      BY <2>1 DEF AccessOf
<1>2. CASE Row17(r)
  <2>1. r.access = Access17(r.at) /\ r.at \in Places17 /\ Table17(r.at) = "input"
      BY <1>2, RowFields17
  <2>2. r.at \in Input17
      BY <2>1 DEF Table17
  <2>3. r.at \in {74, 76, 78, 82}
      BY <2>1, <2>2 DEF Access17, Writable, Input17, Holding17, Every
  <2>4. r.access = "volatile"
      BY <2>1, <2>3 DEF Access17
  <2> QED
      BY <2>3, <2>4 DEF EEPROM_SENSITIVE_ADDRESSES, Every
<1> QED
    BY <1>1, <1>2 DEF AllRows

LEMMA RowsAreDistinct == ASSUME NEW S, AllRows(S) PROVE Distinct(S)
BY RowsAreOne DEF AllRows, Distinct

(* A table has as many first addresses as registers.                       *)
LEMMA AddressesCount ==
    ASSUME NEW S, AllRows(S), NEW table
    PROVE  LET T == InTable(S, table) IN Cardinality(At(T)) = Cardinality(T)
<1> DEFINE T == InTable(S, table)
           f == [r \in T |-> r.at]
<1>1. \A p, q \in T : p.at = q.at => p = q
    BY RowsAreDistinct DEF Distinct, InTable
<1>2. f \in Bijection(T, At(T))
  <2>1. f \in [T -> At(T)] /\ \A p, q \in T : f[p] = f[q] => p = q
      BY <1>1 DEF At
  <2>2. \A a \in At(T) : \E r \in T : f[r] = a
      BY DEF At
  <2> HIDE DEF f, T
  <2> QED
      BY <2>1, <2>2 DEF Bijection, Injection, Surjection, IsInjective
<1>3. IsFiniteSet(At(T))
  <2>1. \A r \in T : r.at \in Places \cup Places17
      BY RowFields, RowFields17 DEF AllRows, InTable
  <2>2. \A r \in T : r.at \in Nat /\ r.at <= 5000
      BY <2>1, PlacesAreSmall
  <2> HIDE DEF T
  <2>3. At(T) \in SUBSET Nat /\ \A a \in At(T) : a <= 5000
      BY <2>2 DEF At
  <2> DEFINE A == At(T)
             most == 5000
  <2>4. A \in SUBSET Nat /\ most \in Nat /\ \A a \in A : a <= most
      BY <2>3
  <2> HIDE DEF A, most
  <2>5. IsFiniteSet(A)
      BY <2>4, FS_BoundedSetOfNaturals, Zenon
  <2> QED
      BY <2>5 DEF A
<1> HIDE DEF T, f
<1>4. f \in Injection(T, At(T))
    BY <1>2 DEF Bijection
<1>5. IsFiniteSet(T)
    BY <1>3, <1>4, FS_Injection
<1>6. ExistsBijection(T, At(T))
    BY <1>2 DEF ExistsBijection
<1> QED
    BY <1>5, <1>6, FS_Bijection DEF T

(* What MapAsDocumented says of one map.                                   *)
LEMMA RowsAsDocumented ==
    ASSUME AllRows(polled)
    PROVE  MapAsDocumented
<1>1. OverlapsAreDocumented
  <2>1. SUFFICES ASSUME NEW table \in Tables
                 PROVE  LET T == InTable(polled, table) IN
                        /\ Cardinality({r.at : r \in T}) = Cardinality(T)
                        /\ {r.at : r \in {q \in T : size(q) = 2 /\ \E o \in T : o.at = q.at + 1}}
                               \subseteq DocumentedOverlaps
      BY DEF OverlapsAreDocumented
  <2> DEFINE T == InTable(polled, table)
  <2>2. Cardinality({r.at : r \in T}) = Cardinality(T)
      BY AddressesCount DEF At
  <2>3. ASSUME NEW q \in T, size(q) = 2, NEW o \in T, o.at = q.at + 1
        PROVE  q.at \in DocumentedOverlaps
      BY <2>3, RowsOverlap DEF InTable
  <2> QED
      BY <2>2, <2>3
<1>2. EepromTableAgrees
    BY RowsAgreeOnEeprom DEF EepromTableAgrees, InTable
<1> QED
    BY <1>1, <1>2 DEF MapAsDocumented

(* The maps that are polled are of the package: what build_register_map()  *)
(* returns for any model with any circuits, modules, rooms and options, or *)
(* the registers of it that an application has chosen to poll.             *)
MapsAreOfThePackage == \A S \in Maps : OfThePackage(S)

(* No such map has two registers of a table that begin at one address,     *)
(* which is what the theorems about the groups assume.                     *)
THEOREM BuiltMapsAreDistinct == MapsAreOfThePackage => MapsAreDistinct
BY PackageRows, RowsAreDistinct DEF MapsAreOfThePackage, MapsAreDistinct

(* And every one of them is as the documentation says: its registers       *)
(* overlap at the three documented places only, and the published table of *)
(* EEPROM addresses has exactly those whose writes are limited.            *)
THEOREM BuiltMapsAreAsDocumented ==
    ASSUME MapsAreOfThePackage
    PROVE  PollSpec => []MapAsDocumented
<1>1. PollInit => polled \in Maps
    BY DEF PollInit
<1>2. polled \in Maps /\ [PollNext]_pollVars => (polled \in Maps)'
    BY DEF PollNext, ReadGroup, ReadSingle, pollVars, poll
<1>3. polled \in Maps => MapAsDocumented
    BY PackageRows, RowsAsDocumented DEF MapsAreOfThePackage
<1> QED
    BY <1>1, <1>2, <1>3, PTL DEF PollSpec
=============================================================================
