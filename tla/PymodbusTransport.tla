------------------------- MODULE PymodbusTransport -------------------------
(***************************************************************************)
(* _PymodbusTransport (idm_heatpump/transport.py): the adapter that holds  *)
(* one pymodbus client, replaces it in connect() and drops it in close().  *)
(* A pymodbus client that lost its link dials again from a task of its     *)
(* own until close() ends it, so a client that is dropped without close()  *)
(* would come back as a second session to the controller.                  *)
(*                                                                         *)
(* IdmModbusClient serialises the calls with its lock: there is one caller,*)
(* suspended in connect() or in a request, whose task may be cancelled.    *)
(***************************************************************************)
CONSTANTS
    Client,    \* the pymodbus clients that can exist at once
    NoClient   \* self._client is None

ASSUME TransportAssumption == NoClient \notin Client

VARIABLES
    client,    \* self._client
    session,   \* what each pymodbus client is doing
    at,        \* the await the caller is suspended at
    result     \* how the caller's last call ended; "none" while it runs

vars == <<client, session, at, result>>

(* off: never dialled, failed, or closed; dialling: in connect(); open;    *)
(* stale: the peer is gone, unnoticed; lost: its reconnect task dials.     *)
Sessions == {"off", "dialling", "open", "stale", "lost"}

(* device: the controller refused; illegal: with exception code 2;         *)
(* foreign: an exception that is not pymodbus' own.                        *)
Results == {"none", "ok", "short", "device", "illegal", "transport", "connection",
            "foreign", "cancelled"}

TypeOK ==
    /\ client \in Client \cup {NoClient}
    /\ session \in [Client -> Sessions]
    /\ at \in {"idle", "connecting", "reading", "writing"}
    /\ result \in Results

Init ==
    /\ client = NoClient
    /\ session = [c \in Client |-> "off"]
    /\ at = "idle"
    /\ result = "ok"

(* transport.connected *)
connected == client # NoClient /\ session[client] \in {"open", "stale"}

Return(r) == at' = "idle" /\ result' = r

Suspend(where) == at' = where /\ result' = "none"

(* _close_client() *)
Closed == IF client = NoClient THEN session ELSE [session EXCEPT ![client] = "off"]

-----------------------------------------------------------------------------
(* connect() *)

AlreadyConnected ==
    /\ at = "idle"
    /\ connected
    /\ Return("ok")
    /\ UNCHANGED <<client, session>>

DialsUnawaited ==      \* mutant: the dial is not awaited
    /\ at = "idle"
    /\ ~connected
    /\ \E c \in Client :
        /\ Closed[c] = "off"
        /\ session' = [Closed EXCEPT ![c] = "dialling"]
        /\ client' = c
    /\ Return("ok")
Connect ==
    /\ at = "idle"
    /\ ~connected
    /\ \E c \in Client :
        /\ Closed[c] = "off"
        /\ session' = [Closed EXCEPT ![c] = "dialling"]
        /\ client' = c
    /\ Suspend("connecting")

ConnectSucceeds ==
    /\ at = "connecting"
    /\ session' = [session EXCEPT ![client] = "open"]
    /\ Return("ok")
    /\ UNCHANGED client

(* connect() answered False, or raised an exception of pymodbus.           *)
ForgetsToClose ==      \* mutant: the failed client is set to None, not closed
    /\ at = "connecting"
    /\ \E s \in {"off", "lost"} : session' = [session EXCEPT ![client] = s]
    /\ client' = NoClient
    /\ Return("connection")
ConnectFails ==
    /\ at = "connecting"
    /\ session' = Closed
    /\ client' = NoClient
    /\ Return("connection")

(* Any other exception, or a cancellation, leaves the client where it is;  *)
(* a dial cut short after the link was made leaves its reconnect task.     *)
ConnectAborted ==
    /\ at = "connecting"
    /\ \E s \in {"off", "lost"} : session' = [session EXCEPT ![client] = s]
    /\ \E r \in {"foreign", "cancelled"} : Return(r)
    /\ UNCHANGED client

-----------------------------------------------------------------------------
CloseTransport ==
    /\ at = "idle"
    /\ session' = Closed
    /\ client' = NoClient
    /\ Return("ok")

-----------------------------------------------------------------------------
(* The requests: _read(), read_coils(), write_registers(), write_coil().   *)

NotConnected ==
    /\ at = "idle"
    /\ ~connected
    /\ Return("connection")
    /\ UNCHANGED <<client, session>>

TrustsTheClient(kind) ==   \* mutant: the link is not looked at
    /\ at = "idle"
    /\ client # NoClient
    /\ Suspend(kind)
    /\ UNCHANGED <<client, session>>
Request(kind) ==
    /\ at = "idle"
    /\ connected
    /\ Suspend(kind)
    /\ UNCHANGED <<client, session>>

(* What pymodbus hands back: a response only from a live session; else it  *)
(* raises.  A short answer to a read of coils is an error here, one to a   *)
(* read of registers is left to the client.                                *)
Responses == IF session[client] # "open" THEN {}
             ELSE {"ok", "device", "illegal"}
                  \cup (IF at = "reading" THEN {"short", "transport"} ELSE {})

Raised == {"transport", "connection", "foreign"}

RaisesUntranslated ==  \* mutant: what pymodbus raises is passed on
    /\ at \in {"reading", "writing"}
    /\ \E r \in Responses \cup {"pymodbus", "foreign", "cancelled"} : Return(r)
    /\ UNCHANGED <<client, session>>
RequestReturns ==
    /\ at \in {"reading", "writing"}
    /\ \E r \in Responses \cup Raised \cup {"cancelled"} : Return(r)
    /\ UNCHANGED <<client, session>>

-----------------------------------------------------------------------------
(* The pymodbus clients by themselves.                                     *)

Changes(c, from, to) ==
    /\ session[c] \in from
    /\ session' = [session EXCEPT ![c] = to]
    /\ UNCHANGED <<client, at, result>>

PeerVanishes(c) == Changes(c, {"open"}, "stale")

NoticesLoss(c) == Changes(c, {"open", "stale"}, "lost")

Redials(c) == Changes(c, {"lost"}, "open")

Next ==
    \/ AlreadyConnected \/ Connect \/ ConnectSucceeds \/ ConnectFails \/ ConnectAborted
    \/ CloseTransport
    \/ NotConnected
    \/ \E kind \in {"reading", "writing"} : Request(kind)
    \/ RequestReturns
    \/ \E c \in Client : PeerVanishes(c) \/ NoticesLoss(c) \/ Redials(c)

Spec == Init /\ [][Next]_vars

-----------------------------------------------------------------------------
(* Whatever a pymodbus client does, it is the transport's own: no client   *)
(* that was replaced, whose connect() failed, was cancelled or raised, or  *)
(* that was closed, holds or dials a session that nothing would ever end   *)
(* (connect, close, _close_client).                                        *)
SessionsAreOwned == \A c \in Client : session[c] # "off" => c = client

(* The await of connect() is that of the client's own first dial, and      *)
(* requests wait on the client that took them.                             *)
CallerInv ==
    /\ at # "idle" => client # NoClient
    /\ at = "connecting" <=> \E c \in Client : session[c] = "dialling"

-----------------------------------------------------------------------------
(* The contract of the transport, as IdmModbusClient sees it.              *)

linkOf(s) == IF s \in {"off", "dialling"} THEN "closed" ELSE s

link == IF client = NoClient THEN "closed" ELSE linkOf(session[client])

busy == IF at = "connecting" THEN "connect" ELSE IF at = "idle" THEN "no" ELSE "request"

Link == INSTANCE TransportLink

(* The adapter provides the session that the client relies on.             *)
LinkSpec == Link!Spec
=============================================================================
