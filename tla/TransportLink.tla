--------------------------- MODULE TransportLink ---------------------------
(***************************************************************************)
(* The contract between IdmModbusClient and its transport                  *)
(* (idm_heatpump/transport.py, IdmModbusTransport): one logical session    *)
(* and one call on it at a time.  The client keeps to it on its side, the  *)
(* adapter to pymodbus on the other.                                       *)
(***************************************************************************)
VARIABLES
    link,   \* closed; open; stale: the peer is gone, unnoticed; lost: noticed
    busy    \* the call in progress: no, connect or request

Init == link = "closed" /\ busy = "no"

(* The caller closes the session, has connect() open one, or leaves it     *)
(* alone.  No request starts without a session that looks up, no connect() *)
(* on top of one, and nothing closes the session under a request.  A dial  *)
(* that is given up may leave a client that dials by itself.               *)
Caller ==
    /\ link' \in {link, "closed"} \cup IF busy = "connect" THEN {"open", "lost"} ELSE {}
    /\ busy' \in {"no", "connect", "request"}
    /\ busy' = "request" => link' \in {"open", "stale"}
    /\ busy' = "connect" => link' = "closed"

(* A session whose peer is gone is not open again before it was lost.      *)
Network ==
    /\ \/ link = "open" /\ link' = "stale"
       \/ link \in {"open", "stale"} /\ link' = "lost"
       \/ link = "lost" /\ link' = "open"
    /\ UNCHANGED busy

Next == Caller \/ Network

Spec == Init /\ [][Next]_<<link, busy>>
=============================================================================
