------------------------ MODULE MCPymodbusTransport ------------------------
(***************************************************************************)
(* Instances of PymodbusTransport: three pymodbus clients, one more than   *)
(* the adapter ever has at once.                                           *)
(***************************************************************************)
EXTENDS PymodbusTransport
=============================================================================
