---------------------- MODULE PymodbusTransport_proofs ----------------------
(***************************************************************************)
(* Proofs about PymodbusTransport: for every number of pymodbus clients,   *)
(* no session is left without an owner, and the adapter provides the link  *)
(* that IdmModbusClient relies on.                                         *)
(***************************************************************************)
EXTENDS PymodbusTransport, TLAPS

(* The inductive invariant: who owns a session is only known together with *)
(* where the caller is, because connect() overwrites self._client.         *)
Inv == TypeOK /\ SessionsAreOwned /\ CallerInv

(* _close_client() leaves no session at all, whoever was in it.            *)
LEMMA CloseEndsAll ==
    ASSUME TypeOK, SessionsAreOwned
    PROVE  Closed = [c \in Client |-> "off"]
<1>1. \A c \in Client : Closed[c] = "off"
  BY TransportAssumption DEF TypeOK, SessionsAreOwned, Closed
<1>2. Closed = [c \in Client |-> Closed[c]]
  BY DEF TypeOK, Closed
<1> QED
  BY <1>1, <1>2

LEMMA InitInv == Init => Inv
BY TransportAssumption DEF Init, Inv, TypeOK, SessionsAreOwned, CallerInv, Sessions, Results

LEMMA CallsKeepInv ==
    ASSUME Inv,
           AlreadyConnected \/ NotConnected \/ RequestReturns
               \/ \E kind \in {"reading", "writing"} : Request(kind)
    PROVE  Inv'
<1>1. UNCHANGED <<client, session>> /\ at \in {"idle", "reading", "writing"}
      /\ at' \in {"idle", "reading", "writing"} /\ result' \in Results
  BY DEF AlreadyConnected, NotConnected, RequestReturns, Request, Return, Suspend, Results,
         Responses, Raised
<1>2. at' # "idle" => client # NoClient
  BY DEF Inv, CallerInv, AlreadyConnected, NotConnected, RequestReturns, Request, Return,
         Suspend, connected
<1> QED
  BY <1>1, <1>2 DEF Inv, TypeOK, SessionsAreOwned, CallerInv

LEMMA ConnectKeepsInv ==
    ASSUME Inv, Connect
    PROVE  Inv'
<1>1. PICK c \in Client : client' = c /\ session' = [Closed EXCEPT ![c] = "dialling"]
  BY DEF Connect
<1>2. session' = [d \in Client |-> IF d = c THEN "dialling" ELSE "off"]
  BY <1>1, CloseEndsAll DEF Inv
<1>3. at' = "connecting" /\ result' = "none"
  BY DEF Connect, Suspend
<1> QED
  BY <1>1, <1>2, <1>3, TransportAssumption
  DEF Inv, TypeOK, SessionsAreOwned, CallerInv, Sessions, Results

LEMMA ConnectEndsKeepInv ==
    ASSUME Inv, ConnectSucceeds \/ ConnectAborted
    PROVE  Inv'
<1>1. client' = client /\ client \in Client
  BY DEF Inv, TypeOK, CallerInv, ConnectSucceeds, ConnectAborted
<1>2. PICK s \in {"open", "off", "lost"} : session' = [session EXCEPT ![client] = s]
  BY DEF ConnectSucceeds, ConnectAborted
<1>3. at' = "idle" /\ result' \in Results
  BY DEF ConnectSucceeds, ConnectAborted, Return, Results
<1> QED
  BY <1>1, <1>2, <1>3 DEF Inv, TypeOK, SessionsAreOwned, CallerInv, Sessions

LEMMA CloseKeepsInv ==
    ASSUME Inv, ConnectFails \/ CloseTransport
    PROVE  Inv'
<1>1. client' = NoClient /\ session' = [c \in Client |-> "off"]
  BY CloseEndsAll DEF Inv, ConnectFails, CloseTransport
<1>2. at' = "idle" /\ result' \in Results
  BY DEF ConnectFails, CloseTransport, Return, Results
<1> QED
  BY <1>1, <1>2 DEF Inv, TypeOK, SessionsAreOwned, CallerInv, Sessions

LEMMA NetworkKeepsInv ==
    ASSUME Inv, NEW c \in Client, PeerVanishes(c) \/ NoticesLoss(c) \/ Redials(c)
    PROVE  Inv'
<1>1. PICK to \in {"stale", "lost", "open"} : session' = [session EXCEPT ![c] = to]
  BY DEF PeerVanishes, NoticesLoss, Redials, Changes
<1>2. session[c] \in {"open", "stale", "lost"} /\ UNCHANGED <<client, at, result>>
  BY DEF PeerVanishes, NoticesLoss, Redials, Changes
<1> QED
  BY <1>1, <1>2 DEF Inv, TypeOK, SessionsAreOwned, CallerInv, Sessions

LEMMA StutterKeepsInv ==
    ASSUME Inv, UNCHANGED vars
    PROVE  Inv'
BY DEF Inv, TypeOK, SessionsAreOwned, CallerInv, vars

(* No step of the adapter, of its caller or of pymodbus leaves Inv.        *)
LEMMA NextKeepsInv == Inv /\ [Next]_vars => Inv'
BY CallsKeepInv, ConnectKeepsInv, ConnectEndsKeepInv, CloseKeepsInv, NetworkKeepsInv,
   StutterKeepsInv
DEF Next

(* The variables of the adapter always have their types (__init__).        *)
THEOREM TypeCorrect == Spec => []TypeOK
<1>1. Inv => TypeOK
  BY DEF Inv
<1> QED
  BY <1>1, InitInv, NextKeepsInv, PTL DEF Spec

(* No pymodbus client other than self._client ever holds or dials a        *)
(* session: nothing connect() replaces, or close() drops, comes back.      *)
THEOREM NoOrphanSession == Spec => []SessionsAreOwned
<1>1. Inv => SessionsAreOwned
  BY DEF Inv
<1> QED
  BY <1>1, InitInv, NextKeepsInv, PTL DEF Spec

(* Whoever dials is the client the caller of connect() waits for.          *)
THEOREM DialsAreAwaited == Spec => []CallerInv
<1>1. Inv => CallerInv
  BY DEF Inv
<1> QED
  BY <1>1, InitInv, NextKeepsInv, PTL DEF Spec

-----------------------------------------------------------------------------
(* The refinement of the contract.                                         *)

LEMMA InitLink == Init => Link!Init
BY DEF Init, Link!Init, link, busy

LEMMA CallsAreContract ==
    ASSUME Inv,
           AlreadyConnected \/ NotConnected \/ RequestReturns
               \/ \E kind \in {"reading", "writing"} : Request(kind)
    PROVE  Link!Caller
<1>1. UNCHANGED link
  BY DEF AlreadyConnected, NotConnected, RequestReturns, Request, link
<1>2. busy' = "request" => link \in {"open", "stale"}
  BY DEF AlreadyConnected, NotConnected, RequestReturns, Request, Return, Suspend, busy, link,
         linkOf, connected
<1>3. busy' \in {"no", "request"}
  BY DEF AlreadyConnected, NotConnected, RequestReturns, Request, Return, Suspend, busy
<1> QED
  BY <1>1, <1>2, <1>3 DEF Link!Caller

LEMMA ConnectIsContract ==
    ASSUME Inv, Connect \/ ConnectSucceeds \/ ConnectFails \/ ConnectAborted \/ CloseTransport
    PROVE  Link!Caller
<1>1. CASE Connect
  <2>1. PICK c \in Client : client' = c /\ session' = [Closed EXCEPT ![c] = "dialling"]
    BY <1>1 DEF Connect
  <2>2. session'[c] = "dialling"
    BY <2>1, CloseEndsAll DEF Inv
  <2>3. link' = "closed"
    BY <2>1, <2>2, TransportAssumption DEF link, linkOf
  <2>4. busy' = "connect"
    BY <1>1 DEF Connect, Suspend, busy
  <2> QED
    BY <2>3, <2>4 DEF Link!Caller
<1>2. CASE ConnectSucceeds \/ ConnectAborted
  <2>1. client' = client /\ client \in Client /\ busy = "connect" /\ busy' = "no"
    BY <1>2 DEF Inv, TypeOK, CallerInv, ConnectSucceeds, ConnectAborted, Return, busy
  <2>2. PICK s \in {"open", "off", "lost"} : session' = [session EXCEPT ![client] = s]
    BY <1>2 DEF ConnectSucceeds, ConnectAborted
  <2>3. link' \in {"open", "closed", "lost"}
    BY <2>1, <2>2, TransportAssumption DEF link, linkOf, Inv, TypeOK
  <2> QED
    BY <2>1, <2>3 DEF Link!Caller
<1>3. CASE ConnectFails \/ CloseTransport
  <2>1. link' = "closed" /\ busy' = "no"
    BY <1>3 DEF ConnectFails, CloseTransport, Return, link, busy
  <2> QED
    BY <2>1 DEF Link!Caller
<1> QED
  BY <1>1, <1>2, <1>3

LEMMA NetworkIsContract ==
    ASSUME Inv, NEW c \in Client, PeerVanishes(c) \/ NoticesLoss(c) \/ Redials(c)
    PROVE  Link!Network \/ UNCHANGED <<link, busy>>
<1>1. UNCHANGED <<client, busy>>
  BY DEF PeerVanishes, NoticesLoss, Redials, Changes, busy
<1>2. CASE c # client
  BY <1>1, <1>2 DEF PeerVanishes, NoticesLoss, Redials, Changes, link, Inv, TypeOK
<1>3. CASE c = client
  <2>1. client # NoClient
    BY <1>3, TransportAssumption
  <2>2. link = linkOf(session[c]) /\ link' = linkOf(session'[c])
    BY <1>1, <1>3, <2>1 DEF link
  <2>3. \/ session[c] = "open" /\ session'[c] = "stale"
        \/ session[c] \in {"open", "stale"} /\ session'[c] = "lost"
        \/ session[c] = "lost" /\ session'[c] = "open"
    BY DEF PeerVanishes, NoticesLoss, Redials, Changes, Inv, TypeOK
  <2> QED
    BY <1>1, <2>2, <2>3 DEF Link!Network, linkOf
<1> QED
  BY <1>2, <1>3

(* Every step of the adapter is one of the contract, or leaves it alone.   *)
LEMMA NextIsContract == Inv /\ [Next]_vars => [Link!Next]_<<link, busy>>
<1> SUFFICES ASSUME Inv, [Next]_vars
             PROVE  [Link!Next]_<<link, busy>>
  OBVIOUS
<1>1. CASE UNCHANGED vars
  BY <1>1 DEF vars, link, busy
<1>2. CASE Next
  BY <1>2, CallsAreContract, ConnectIsContract, NetworkIsContract DEF Next, Link!Next
<1> QED
  BY <1>1, <1>2

(* The adapter provides what IdmModbusClient relies on: one session, which *)
(* only connect() or pymodbus opens, and no request without one.           *)
THEOREM AdapterImplementsLink == Spec => LinkSpec
<1>1. Spec => []Inv
  BY InitInv, NextKeepsInv, PTL DEF Spec
<1> QED
  BY <1>1, InitLink, NextIsContract, PTL DEF Spec, LinkSpec, Link!Spec
=============================================================================
