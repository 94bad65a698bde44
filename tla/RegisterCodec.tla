---------------------------- MODULE RegisterCodec ----------------------------
(***************************************************************************)
(* A value on its way to a register and back: _validate_write_allowed()    *)
(* checks it against the register's type and limits, an encoder turns it   *)
(* into a 16-bit word, and a decoder the word into a value.                *)
(*                                                                         *)
(* The words of a float are left out, and multipliers: no register that    *)
(* can be written has one.  A value is an int, a float with or without a   *)
(* fraction, a Boolean, or not a number at all.                            *)
(***************************************************************************)
EXTENDS RegisterMap

WordTypes == Types \ {"FLOAT"}
MaxWord == 65535
MaxInt16 == 32767
Word == 0 .. MaxWord

(* The values an application passes, of the whole numbers in N.            *)
ValuesOf(N) == [is : {"int", "float"}, n : N] \cup [is : {"bool"}, n : {0, 1}]
                   \cup [is : {"fraction", "text"}, n : {0}]

-----------------------------------------------------------------------------
(* _validate_write_allowed(), but for the model and the throttle.          *)

(* True and False are not numbers, but for a register of type BOOL, which  *)
(* takes them and the ints 0 and 1; a fraction is only taken by a float.   *)
OfTheType(type, v) ==
    CASE type = "BOOL"  -> v.is = "bool" \/ (v.is = "int" /\ v.n \in {0, 1})
      [] type = "FLOAT" -> v.is \in {"int", "float", "fraction"}
      [] OTHER          -> v.is \in {"int", "float"}

Valid(r, v) ==
    /\ OfTheType(r.type, v)
    /\ r.limits # NoLimits => v.n \in r.limits[1] .. r.limits[2]

-----------------------------------------------------------------------------
(* encode_value() and decode_value() of whole numbers.                     *)
RangeOf(type) ==
    CASE type = "UCHAR"  -> 0 .. 255
      [] type = "INT8"   -> -128 .. 127
      [] type = "INT16"  -> -MaxInt16 - 1 .. MaxInt16
      [] type = "UINT16" -> Word
      [] type = "BOOL"   -> {0, 1}
      [] type = "BITFLAG" -> 0 .. 255

(* encode_value() raises for a number it cannot encode, but not for flags, *)
(* of which it keeps the lower byte.                                       *)
Encodable(type, n) == type \notin {"BITFLAG", "FLOAT"} => n \in RangeOf(type)

SignBitOfAWord(type, n) ==    \* mutant: the wrong bit is added to a negative number
    CASE type = "BITFLAG" -> n % 256
      [] type \in {"INT8", "INT16"} /\ n < 0 -> n + 32768
      [] OTHER -> n

encode_value(type, n) ==
    CASE type = "BITFLAG" -> n % 256
      [] type = "INT8" /\ n < 0 -> n + 256
      [] type = "INT16" /\ n < 0 -> n + 65536
      [] OTHER -> n

Signed(w, width) == IF w >= width \div 2 THEN w - width ELSE w

decode_value(type, w) ==
    CASE type \in {"UCHAR", "BITFLAG"} -> w % 256
      [] type = "INT8"   -> Signed(w % 256, 256)
      [] type = "INT16"  -> Signed(w, 65536)
      [] type = "UINT16" -> w
      [] type = "BOOL"   -> w % 2
=============================================================================
