------------------------- MODULE MCModbusConnection -------------------------
(* Instances of ModbusConnection for TLC.                                  *)
EXTENDS ModbusConnection

CONSTANTS t1, t2, t3

Three == {t1, t2, t3}
=============================================================================
