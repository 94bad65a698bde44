----------------------- MODULE ModbusConnection_proofs -----------------------
(***************************************************************************)
(* Proofs about ModbusConnection, for every set of tasks and every number  *)
(* of retries.                                                             *)
(***************************************************************************)
EXTENDS ModbusConnection, TLAPS

(* While a lost request is open, the flag that makes _ensure_connected()   *)
(* replace the session is set.                                             *)
TaintedIsSuspect == tainted => suspect

(* A task that is about to begin another attempt has one left, and neither *)
(* its session nor one that is being opened has lost anything.             *)
RetryInv ==
    \A t \in Task :
        /\ pc[t] \in {"reconnecting", "sleeping"} => attempt[t] + 1 < MaxRetries
        /\ pc[t] \in {"reconnecting", "sleeping"} => ~tainted
        /\ pc[t] \in Connecting => ~tainted
        /\ pc[t] = "io" /\ attempt[t] > 0 => ~tainted

(* In a healthy network the link is up wherever a call begun in it makes a *)
(* second attempt.                                                         *)
HealthInv ==
    \A t \in Task : born[t] =>
        /\ net = "healthy"
        /\ MaxRetries >= 2 =>
              /\ result[t] # "transport"
              /\ pc[t] = "sleeping" => link = "open"
              /\ pc[t] = "io" /\ attempt[t] > 0 => link = "open"

IInv ==
    /\ TypeOK
    /\ LockInv
    /\ TaintedIsSuspect
    /\ RetryInv
    /\ HealthInv

-----------------------------------------------------------------------------
LEMMA InitIInv == Init => IInv
<1> SUFFICES ASSUME Init PROVE IInv
    OBVIOUS
<1> USE ConnectionAssumption DEF Init
<1>1. TypeOK
    <2>1. waiters \in Seq(Task)
        OBVIOUS
    <2>2. attempt \in [Task -> 0 .. MaxRetries - 1]
        OBVIOUS
    <2> QED BY <2>1, <2>2 DEF TypeOK, Results, Links
<1>2. LockInv
    BY DEF LockInv, Inside, Looping, Connecting
<1>3. TaintedIsSuspect /\ RetryInv /\ HealthInv
    BY DEF TaintedIsSuspect, RetryInv, HealthInv
<1> QED BY <1>1, <1>2, <1>3 DEF IInv

(* What a task does when it has just got the lock keeps the invariant,     *)
(* whether it got it at once or after a wait.                              *)
Frame(t) ==
    /\ net' = net
    /\ born' \in [Task -> BOOLEAN]
    /\ \A u \in Task : born'[u] => net = "healthy" /\ (u # t => born[u])

LEMMA StartIInv ==
    ASSUME IInv, NEW t \in Task, holder = NoTask, Frame(t),
           waiters' \in Seq(Task), StartAttempt(t, 0)
    PROVE  IInv'
<1> USE ConnectionAssumption
<1>1. TypeOK'
    <2> USE DEF IInv, TypeOK, StartAttempt, AttemptFails, Hold, Leave, Close
    <2>1. attempt' \in [Task -> 0 .. MaxRetries - 1]
        <3>1. 0 \in 0 .. MaxRetries - 1
            OBVIOUS
        <3>2. attempt' = [attempt EXCEPT ![t] = 0]
            OBVIOUS
        <3> QED BY <3>1, <3>2
    <2>2. pc' \in [Task -> {"idle"} \cup Waiting \cup Inside]
        BY DEF Inside, Looping
    <2>3. result' \in [Task -> Results]
        BY DEF Results
    <2>4. link' \in Links /\ suspect' \in BOOLEAN
        BY DEF Links
    <2>5. tainted' \in BOOLEAN
        OBVIOUS
    <2> QED BY <2>1, <2>2, <2>3, <2>4, <2>5 DEF Frame
<1>2. LockInv'
    BY DEF IInv, TypeOK, LockInv, Frame, StartAttempt, AttemptFails, Hold, Leave, Close,
           Inside, Looping, Connecting
<1>3. TaintedIsSuspect'
    BY DEF IInv, TaintedIsSuspect, StartAttempt, AttemptFails, Close
<1>4. RetryInv'
    <2> USE DEF IInv, TypeOK, StartAttempt, AttemptFails, Hold, Leave, Close
    <2>1. \A u \in Task : u # t =>
              pc'[u] = pc[u] /\ attempt'[u] = attempt[u] /\ pc[u] \notin Inside
        BY DEF LockInv
    <2>2. pc'[t] \in {"io", "idle", "reconnecting"} /\ attempt'[t] = 0
        OBVIOUS
    <2>3. pc'[t] = "reconnecting" => 0 + 1 < MaxRetries /\ ~tainted'
        OBVIOUS
    <2> HIDE DEF IInv, TypeOK, StartAttempt, AttemptFails, Hold, Leave, Close
    <2> QED BY <2>1, <2>2, <2>3 DEF RetryInv, Inside, Looping, Connecting
<1>5. HealthInv'
    <2> SUFFICES ASSUME NEW u \in Task, born'[u]
                 PROVE  /\ net' = "healthy"
                        /\ MaxRetries >= 2 =>
                              /\ result'[u] # "transport"
                              /\ pc'[u] = "sleeping" => link' = "open"
                              /\ pc'[u] = "io" /\ attempt'[u] > 0 => link' = "open"
        BY DEF HealthInv
    <2> USE DEF IInv, TypeOK, Frame, StartAttempt, AttemptFails, Hold, Leave
    <2>1. CASE u = t
        BY <2>1
    <2>2. CASE u # t
        BY <2>2 DEF LockInv, HealthInv, Inside, Looping
    <2> QED BY <2>1, <2>2
<1> QED BY <1>1, <1>2, <1>3, <1>4, <1>5 DEF IInv

LEMMA QueueIInv ==
    ASSUME IInv, NEW t \in Task, pc[t] \notin Inside, Frame(t),
           NEW op \in Waiting, NEW q \in Seq(Task),
           Queue(t, op, holder, q), UNCHANGED <<link, suspect, tainted>>
    PROVE  IInv'
<1> USE ConnectionAssumption
<1>1. TypeOK'
    <2> USE DEF IInv, TypeOK, Queue
    <2>1. waiters' \in Seq(Task)
        OBVIOUS
    <2>2. attempt' \in [Task -> 0 .. MaxRetries - 1]
        OBVIOUS
    <2>3. result' \in [Task -> Results]
        BY DEF Results
    <2> QED BY <2>1, <2>2, <2>3 DEF Frame
<1>2. LockInv'
    BY DEF IInv, TypeOK, LockInv, Queue, Waiting, Inside, Looping, Connecting
<1>3. TaintedIsSuspect'
    BY DEF IInv, TaintedIsSuspect
<1>4. RetryInv'
    BY DEF IInv, TypeOK, RetryInv, Queue, Waiting, Connecting
<1>5. HealthInv'
    BY DEF IInv, TypeOK, HealthInv, Frame, Queue, Waiting
<1> QED BY <1>1, <1>2, <1>3, <1>4, <1>5 DEF IInv

(* A step of the task that holds the lock keeps the invariant if the await *)
(* w it goes to, with loop variable k and result r, fits the connection it *)
(* leaves behind.                                                          *)
Fits(t, w, k, r) ==
    /\ tainted' => suspect'
    /\ w \in {"reconnecting", "sleeping"} => k + 1 < MaxRetries /\ ~tainted'
    /\ w \in Connecting => ~tainted'
    /\ w = "io" /\ k > 0 => ~tainted'
    /\ MaxRetries >= 2 /\ born[t] =>
          /\ r # "transport"
          /\ w = "sleeping" => link' = "open"
          /\ w = "io" /\ k > 0 => link' = "open"

LEMMA HolderIInv ==
    ASSUME IInv, NEW t \in Task, pc[t] \in Inside,
           NEW w \in Inside \cup {"idle"}, NEW k \in 0 .. MaxRetries - 1, NEW r \in Results,
           pc' = [pc EXCEPT ![t] = w],
           attempt' = [attempt EXCEPT ![t] = k],
           result' = [result EXCEPT ![t] = r],
           holder' = IF w = "idle" THEN NoTask ELSE t,
           waiters' \in Seq(Task), link' \in Links, suspect' \in BOOLEAN, tainted' \in BOOLEAN,
           UNCHANGED <<net, born>>,
           Fits(t, w, k, r)
    PROVE  IInv'
<1> USE ConnectionAssumption
<1>1. TypeOK'
    BY DEF IInv, TypeOK
<1>2. LockInv'
    BY DEF IInv, TypeOK, LockInv, Inside, Looping, Connecting
<1>3. TaintedIsSuspect'
    BY DEF Fits, Connecting, TaintedIsSuspect
<1>4. \A u \in Task : u # t => pc'[u] = pc[u] /\ pc[u] \notin Inside
    BY DEF IInv, TypeOK, LockInv
<1>5. RetryInv'
    BY <1>4 DEF IInv, TypeOK, RetryInv, Fits, Connecting, Inside, Looping
<1>6. HealthInv'
    BY <1>4 DEF IInv, TypeOK, HealthInv, Fits, Connecting, Inside, Looping
<1> QED BY <1>1, <1>2, <1>3, <1>5, <1>6 DEF IInv

LEMMA EnterIInv ==
    ASSUME IInv, NEW t \in Task, holder = NoTask, Frame(t),
           NEW op \in Waiting, NEW q \in Seq(Task), Enter(t, op, q)
    PROVE  IInv'
<1> USE ConnectionAssumption
<1>0. pc[t] \notin Inside
    BY DEF IInv, LockInv
<1>1. ASSUME waiters' \in Seq(Task), UNCHANGED suspect \/ suspect' = FALSE,
             NEW w \in {"ensure_connecting", "connecting"}, Hold(t, w, 0), Close
      PROVE  IInv'
    <2>1. 0 \in 0 .. MaxRetries - 1
        OBVIOUS
    <2>2. TypeOK'
        BY <1>1, <2>1 DEF IInv, TypeOK, Frame, Hold, Close, Links, Results, Inside, Connecting
    <2>3. LockInv'
        BY <1>1 DEF IInv, TypeOK, LockInv, Hold, Inside, Looping, Connecting
    <2>4. TaintedIsSuspect' /\ RetryInv'
        BY <1>1 DEF IInv, TypeOK, TaintedIsSuspect, RetryInv, Hold, Close
    <2>5. HealthInv'
        BY <1>1 DEF IInv, TypeOK, LockInv, HealthInv, Frame, Hold, Close, Inside, Looping
    <2> QED BY <2>2, <2>3, <2>4, <2>5 DEF IInv
<1>2. ASSUME waiters' \in Seq(Task), UNCHANGED suspect, Leave(t, "ok"),
             Close \/ UNCHANGED <<link, tainted>>
      PROVE  IInv'
    <2>1. 0 \in 0 .. MaxRetries - 1
        OBVIOUS
    <2>2. TypeOK'
        BY <1>2, <2>1 DEF IInv, TypeOK, Frame, Leave, Close, Links, Results
    <2>3. LockInv'
        BY <1>2 DEF IInv, TypeOK, LockInv, Leave, Inside, Looping, Connecting
    <2>4. TaintedIsSuspect' /\ RetryInv'
        BY <1>2 DEF IInv, TypeOK, TaintedIsSuspect, RetryInv, Leave, Close, Connecting
    <2>5. HealthInv'
        BY <1>2 DEF IInv, TypeOK, LockInv, HealthInv, Frame, Leave, Close, Inside, Looping
    <2> QED BY <2>2, <2>3, <2>4, <2>5 DEF IInv
<1>3. CASE op = "ensure" /\ EnterEnsure(t, q)
    <2>1. CASE ~suspect /\ Connected /\ ThenRetry(t, q)
        BY <1>0, <2>1, StartIInv, QueueIInv DEF ThenRetry, Waiting
    <2>2. CASE Close /\ suspect' = FALSE /\ Hold(t, "ensure_connecting", 0) /\ waiters' = q
        BY <1>1, <2>2
    <2> QED BY <1>3, <2>1, <2>2 DEF EnterEnsure
<1>4. CASE op = "retry" /\ EnterRetry(t, q)
    BY <1>4, StartIInv DEF EnterRetry
<1>5. CASE op = "connect" /\ EnterConnect(t, q)
    BY <1>1, <1>2, <1>5 DEF EnterConnect
<1>6. CASE op = "disconnect" /\ EnterDisconnect(t, q)
    BY <1>2, <1>6 DEF EnterDisconnect
<1>7. CASE op = "force" /\ EnterForce(t, q)
    BY <1>1, <1>7 DEF EnterForce
<1> QED BY <1>3, <1>4, <1>5, <1>6, <1>7 DEF Enter

-----------------------------------------------------------------------------
LEMMA CallIInv ==
    ASSUME IInv, NEW t \in Task, Call(t)
    PROVE  IInv'
<1>1. Frame(t) /\ pc[t] = "idle"
    BY DEF IInv, TypeOK, HealthInv, Call, Request, Connect, Disconnect, ForceReconnect, Begin,
           Frame
<1>2. PICK op \in Waiting : Acquire(t, op)
    BY DEF Call, Request, Connect, Disconnect, ForceReconnect, Waiting
<1>3. pc[t] \notin Inside /\ waiters \in Seq(Task)
    BY <1>1 DEF IInv, TypeOK, Inside, Looping, Connecting
<1> QED BY <1>1, <1>2, <1>3, EnterIInv, QueueIInv DEF Acquire

LEMMA GrantedIInv ==
    ASSUME IInv, NEW t \in Task, Granted(t)
    PROVE  IInv'
<1>1. Tail(waiters) \in Seq(Task)
    BY DEF IInv, TypeOK, Granted
<1>2. Frame(t)
    BY DEF IInv, TypeOK, HealthInv, Granted, Frame
<1>3. pc[t] \in Waiting
    BY DEF Granted, Enter, Waiting
<1> QED BY <1>1, <1>2, <1>3, EnterIInv DEF Granted

(* The holder's own steps, one per await it can be suspended at.           *)
LEMMA AttemptFailsIInv ==
    ASSUME IInv, NEW t \in Task, pc[t] \in Inside, NEW k \in 0 .. MaxRetries - 1,
           AttemptFails(t, k), UNCHANGED <<waiters, net, born>>,
           born[t] /\ MaxRetries >= 2 => k + 1 < MaxRetries
    PROVE  IInv'
<1> USE ConnectionAssumption
<1>1. CASE k + 1 = MaxRetries /\ Leave(t, "transport") /\ tainted' = TRUE /\ UNCHANGED link
    <2>1. Fits(t, "idle", 0, "transport")
        BY <1>1 DEF AttemptFails, Fits, Connecting
    <2>2. 0 \in 0 .. MaxRetries - 1
        OBVIOUS
    <2> QED BY <1>1, <2>1, <2>2, HolderIInv DEF IInv, TypeOK, AttemptFails, Leave, Results
<1>2. CASE k + 1 < MaxRetries /\ Hold(t, "reconnecting", k) /\ Close
    <2>1. Fits(t, "reconnecting", k, "none")
        BY <1>2 DEF AttemptFails, Fits, Connecting, Close
    <2> QED BY <1>2, <2>1, HolderIInv
            DEF IInv, TypeOK, AttemptFails, Hold, Close, Results, Links, Inside, Looping
<1> QED BY <1>1, <1>2 DEF AttemptFails

LEMMA ConnectIInv ==
    ASSUME IInv, NEW t \in Task, EnsureConnects(t) \/ ConnectSucceeds(t) \/ ConnectRaises(t)
    PROVE  IInv'
<1> USE ConnectionAssumption
<1>1. pc[t] \in Inside /\ waiters \in Seq(Task) /\ 0 \in 0 .. MaxRetries - 1 /\ holder = t
    BY DEF IInv, TypeOK, LockInv, EnsureConnects, ConnectSucceeds, ConnectRaises, Inside,
           Connecting
<1>2. CASE EnsureConnects(t)
    <2>1. CASE waiters = <<>> /\ Hold(t, "io", 0) /\ UNCHANGED waiters
        <3>1. Fits(t, "io", 0, "none")
            BY <1>2 DEF EnsureConnects, Fits, Connecting, IInv, TaintedIsSuspect
        <3> QED BY <1>1, <1>2, <2>1, <3>1, HolderIInv
                DEF IInv, TypeOK, EnsureConnects, Hold, Results, Links, Inside, Looping
    <2>2. CASE Queue(t, "retry", NoTask, waiters)
        <3> USE <1>2, <2>2 DEF EnsureConnects, Queue
        <3>1. TypeOK'
            <4>1. attempt' \in [Task -> 0 .. MaxRetries - 1]
                BY <1>1 DEF IInv, TypeOK
            <4>2. waiters' \in Seq(Task)
                BY <1>1
            <4> QED BY <4>1, <4>2 DEF IInv, TypeOK, Results, Links, Waiting
        <3>2. LockInv'
            BY DEF IInv, TypeOK, LockInv, Inside, Looping, Connecting
        <3>3. \A u \in Task : u # t => pc'[u] = pc[u] /\ pc[u] \notin Inside
            BY DEF IInv, TypeOK, LockInv, Inside, Connecting
        <3>4. TaintedIsSuspect' /\ RetryInv' /\ HealthInv'
            BY <3>3 DEF IInv, TypeOK, TaintedIsSuspect, RetryInv, HealthInv, Inside, Looping,
                        Connecting
        <3> QED BY <3>1, <3>2, <3>4 DEF IInv
    <2> QED BY <1>2, <2>1, <2>2 DEF EnsureConnects
<1>3. CASE ConnectSucceeds(t)
    <2>1. Fits(t, "idle", 0, "ok")
        BY <1>3 DEF ConnectSucceeds, Fits, Connecting, IInv, TaintedIsSuspect
    <2> QED BY <1>1, <1>3, <2>1, HolderIInv
            DEF IInv, TypeOK, ConnectSucceeds, Leave, Results, Links
<1>4. CASE ConnectRaises(t)
    <2>1. Fits(t, "idle", 0, "transport")
        BY <1>4 DEF ConnectRaises, Fits, Connecting, IInv, TaintedIsSuspect, HealthInv
    <2> QED BY <1>1, <1>4, <2>1, HolderIInv 
            DEF IInv, TypeOK, ConnectRaises, DialEnds, Links, Leave, Results
<1> QED BY <1>2, <1>3, <1>4

LEMMA ReconnectIInv ==
    ASSUME IInv, NEW t \in Task,
           ReconnectSucceeds(t) \/ ReconnectRefused(t) \/ ReconnectEscapes(t)
    PROVE  IInv'
<1> USE ConnectionAssumption
<1> USE DEF ReconnectSucceeds, ReconnectRefused, ReconnectEscapes
<1>1. /\ pc[t] = "reconnecting" /\ pc[t] \in Inside
      /\ waiters \in Seq(Task) /\ 0 \in 0 .. MaxRetries - 1
      /\ attempt[t] \in 0 .. MaxRetries - 1 /\ attempt[t] + 1 < MaxRetries /\ ~tainted
    BY DEF IInv, TypeOK, RetryInv, Inside, Looping
<1>2. CASE ReconnectEscapes(t)
    <2>1. Fits(t, "idle", 0, "transport")
        BY <1>1, <1>2 DEF Fits, Connecting, IInv, HealthInv
    <2> QED BY <1>1, <1>2, <2>1, HolderIInv DEF IInv, TypeOK, DialEnds, Links, Leave, Results
<1>3. CASE ReconnectSucceeds(t) \/ ReconnectRefused(t)
    <2>1. Fits(t, "sleeping", attempt[t], "none")
        BY <1>1, <1>3 DEF Fits, Connecting, IInv, HealthInv
    <2> QED BY <1>1, <1>3, <2>1, HolderIInv
            DEF IInv, TypeOK, Hold, Results, Links, Inside, Looping
<1> QED BY <1>2, <1>3

LEMMA WakeIInv ==
    ASSUME IInv, NEW t \in Task, Wake(t)
    PROVE  IInv'
<1> USE ConnectionAssumption
<1>1. /\ pc[t] = "sleeping" /\ pc[t] \in Inside /\ waiters \in Seq(Task)
      /\ attempt[t] + 1 \in 0 .. MaxRetries - 1 /\ ~tainted
    BY DEF IInv, TypeOK, RetryInv, Wake, Inside, Looping
<1>2. CASE Connected /\ Hold(t, "io", attempt[t] + 1) /\ UNCHANGED <<link, suspect, tainted>>
    <2>1. Fits(t, "io", attempt[t] + 1, "none")
        BY <1>1, <1>2 DEF Fits, Connecting, IInv, HealthInv
    <2> QED BY <1>1, <1>2, <2>1, HolderIInv
            DEF Wake, IInv, TypeOK, Hold, Results, Inside, Looping
<1>3. CASE ~Connected /\ AttemptFails(t, attempt[t] + 1)
    <2>1. ~(born[t] /\ MaxRetries >= 2)
        BY <1>1, <1>3 DEF IInv, HealthInv, Connected
    <2> QED BY <1>1, <1>3, <2>1, AttemptFailsIInv DEF Wake
<1> QED BY <1>2, <1>3 DEF Wake, StartAttempt

LEMMA AnswerIInv ==
    ASSUME IInv, NEW t \in Task, Answered(t) \/ IllegalAddress(t) \/ DeviceError(t)
    PROVE  IInv'
<1> USE ConnectionAssumption
<1> USE DEF Answered, IllegalAddress, DeviceError
<1>1. /\ pc[t] = "io" /\ pc[t] \in Inside /\ link = "open" /\ tainted' = FALSE
      /\ waiters' \in Seq(Task) /\ link' = link /\ link' \in Links /\ suspect' \in BOOLEAN
      /\ UNCHANGED <<net, born>>
      /\ 0 \in 0 .. MaxRetries - 1 /\ attempt[t] \in 0 .. MaxRetries - 1
    <2>1. pc[t] = "io" /\ pc[t] \in Inside /\ link = "open" /\ tainted' = FALSE
        BY DEF Inside, Looping
    <2>2. waiters' \in Seq(Task) /\ link' = link /\ link' \in Links /\ UNCHANGED <<net, born>>
        BY DEF IInv, TypeOK
    <2>3. suspect' \in BOOLEAN
        BY DEF IInv, TypeOK
    <2>4. 0 \in 0 .. MaxRetries - 1 /\ attempt[t] \in 0 .. MaxRetries - 1
        BY DEF IInv, TypeOK
    <2> QED BY <2>1, <2>2, <2>3, <2>4
<1>2. ASSUME NEW r \in {"ok", "device"}, Leave(t, r)
      PROVE  IInv'
    <2>1. Fits(t, "idle", 0, r)
        BY <1>1 DEF Fits, Connecting
    <2>2. r \in Results /\ tainted' \in BOOLEAN
        BY <1>1 DEF Results
    <2> QED BY <1>1, <1>2, <2>1, <2>2, HolderIInv DEF Leave
<1>3. CASE attempt[t] + 1 < MaxRetries /\ Hold(t, "sleeping", attempt[t])
    <2>1. Fits(t, "sleeping", attempt[t], "none")
        BY <1>1, <1>3 DEF Fits, Connecting
    <2>2. "none" \in Results /\ tainted' \in BOOLEAN /\ "sleeping" \in Inside
        BY <1>1 DEF Results, Inside, Looping
    <2> QED BY <1>1, <1>3, <2>1, <2>2, HolderIInv DEF Hold
<1> QED BY <1>2, <1>3

LEMMA TransportErrorIInv ==
    ASSUME IInv, NEW t \in Task, TransportError(t)
    PROVE  IInv'
<1>1. /\ pc[t] = "io" /\ pc[t] \in Inside /\ attempt[t] \in 0 .. MaxRetries - 1
    BY DEF IInv, TypeOK, TransportError, Inside, Looping
<1>2. born[t] /\ MaxRetries >= 2 => attempt[t] + 1 < MaxRetries
    BY <1>1, ConnectionAssumption DEF IInv, TypeOK, HealthInv, TransportError
<1> QED BY <1>1, <1>2, AttemptFailsIInv DEF TransportError

LEMMA CancelIInv ==
    ASSUME IInv, NEW t \in Task, Cancel(t)
    PROVE  IInv'
<1> USE ConnectionAssumption
<1>1. 0 \in 0 .. MaxRetries - 1
    OBVIOUS
<1>2. CASE CancelInside(t)
    <2>1. Fits(t, "idle", 0, "cancelled")
        BY <1>2 DEF CancelInside, Fits, Connecting, IInv, TaintedIsSuspect
    <2>2. link' \in Links
        BY <1>2 DEF CancelInside, DialEnds, Links, IInv, TypeOK
    <2> QED BY <1>1, <1>2, <2>1, <2>2, HolderIInv DEF CancelInside, Leave, IInv, TypeOK, Results
<1>3. CASE CancelWaiting(t)
    <2>1. PICK i \in 1 .. Len(waiters) :
              /\ waiters[i] = t
              /\ waiters' = [j \in 1 .. Len(waiters) - 1 |->
                                IF j < i THEN waiters[j] ELSE waiters[j + 1]]
        BY <1>3 DEF CancelWaiting
    <2>2. waiters' \in Seq(Task)
        <3>1. waiters \in Seq(Task) /\ Len(waiters) - 1 \in Nat
            BY <2>1 DEF IInv, TypeOK
        <3>2. \A j \in 1 .. Len(waiters) - 1 : waiters'[j] \in Task
            BY <2>1, <3>1
        <3> QED BY <2>1, <3>1, <3>2
    <2>3. TypeOK'
        <3>1. attempt' \in [Task -> 0 .. MaxRetries - 1]
            BY <1>1, <1>3 DEF CancelWaiting, IInv, TypeOK
        <3> QED BY <1>3, <2>2, <3>1 DEF CancelWaiting, IInv, TypeOK, Results
    <2>4. LockInv'
        BY <1>3 DEF CancelWaiting, IInv, TypeOK, LockInv, Waiting, Inside, Looping, Connecting
    <2>5. TaintedIsSuspect' /\ RetryInv' /\ HealthInv'
        BY <1>3 DEF CancelWaiting, IInv, TypeOK, TaintedIsSuspect, RetryInv, HealthInv,
                    Connecting
    <2> QED BY <2>3, <2>4, <2>5 DEF IInv
<1> QED BY <1>2, <1>3 DEF Cancel

LEMMA EnvironmentIInv ==
    ASSUME IInv, Environment
    PROVE  IInv'
<1> USE DEF Environment, PeerVanishes, LossNoticed, AutoReconnect, Heal
<1>1. TypeOK'
    BY DEF IInv, TypeOK, Links
<1>2. LockInv' /\ TaintedIsSuspect' /\ RetryInv'
    BY DEF IInv, LockInv, TaintedIsSuspect, RetryInv
<1>3. HealthInv'
    BY DEF IInv, HealthInv
<1> QED BY <1>1, <1>2, <1>3 DEF IInv

-----------------------------------------------------------------------------
LEMMA ProgressIInv ==
    ASSUME IInv, NEW t \in Task, Progress(t)
    PROVE  IInv'
BY GrantedIInv, ConnectIInv, ReconnectIInv, WakeIInv, AnswerIInv, TransportErrorIInv
   DEF Progress

LEMMA StutterIInv == IInv /\ UNCHANGED vars => IInv'
BY DEF IInv, TypeOK, LockInv, TaintedIsSuspect, RetryInv, HealthInv, vars

(* The inductive invariant of the connection core.                         *)
THEOREM InvariantHolds == Spec => []IInv
<1>1. Init => IInv
    BY InitIInv
<1>2. IInv /\ [Next]_vars => IInv'
    BY CallIInv, ProgressIInv, CancelIInv, EnvironmentIInv, StutterIInv DEF Next
<1> QED BY <1>1, <1>2, PTL DEF Spec

(* Every variable keeps its type; in particular no retry loop counts past  *)
(* max_retries.                                                            *)
THEOREM TypeCorrect == Spec => []TypeOK
<1>1. IInv => TypeOK
    BY DEF IInv
<1> QED BY <1>1, InvariantHolds, PTL

(* The lock serialises every use of the transport.                         *)
THEOREM MutualExclusion == Spec => []LockInv
<1>1. IInv => LockInv
    BY DEF IInv
<1> QED BY <1>1, InvariantHolds, PTL

(* A task that gets past the check of the connection, or sends at once,    *)
(* finds a session that has lost nothing.                                  *)
LEMMA StartsUntainted ==
    ASSUME IInv, NEW t \in Task, NEW k, StartAttempt(t, k), pc'[t] = "io", ~tainted
    PROVE  ~tainted'
BY DEF IInv, TypeOK, StartAttempt, AttemptFails, Hold, Leave

LEMMA EnteringUntainted ==
    ASSUME IInv, NEW t \in Task, NEW op \in Waiting, NEW q, Enter(t, op, q),
           op = "retry" => ~tainted, pc'[t] \in {"retry", "io"}
    PROVE  ~tainted'
<1> USE DEF IInv, TypeOK
<1>1. CASE EnterEnsure(t, q)
    <2>1. CASE ~suspect /\ ThenRetry(t, q)
        <3>1. ~tainted
            BY <2>1 DEF TaintedIsSuspect
        <3>2. pc'[t] = "io" \/ UNCHANGED tainted
            BY <2>1 DEF ThenRetry, StartAttempt, AttemptFails, Hold, Leave
        <3> QED BY <2>1, <3>1, <3>2, StartsUntainted DEF ThenRetry, Queue
    <2> QED BY <1>1, <2>1 DEF EnterEnsure, Hold
<1>2. CASE op = "retry" /\ EnterRetry(t, q)
    <2>1. pc'[t] = "io"
        BY <1>2 DEF EnterRetry, StartAttempt, AttemptFails, Hold, Leave
    <2> QED BY <1>2, <2>1, StartsUntainted DEF EnterRetry
<1>3. CASE EnterConnect(t, q) \/ EnterDisconnect(t, q) \/ EnterForce(t, q)
    BY <1>3 DEF EnterConnect, EnterDisconnect, EnterForce, Hold, Leave
<1> QED BY <1>1, <1>2, <1>3 DEF Enter

LEMMA EnteredUntainted ==
    ASSUME IInv, Next, NEW t \in Task,
           pc'[t] \in {"retry", "io"}, pc[t] \notin {"retry", "io"}
    PROVE  ~tainted'
<1> USE DEF IInv, TypeOK
<1>1. CASE Call(t)
    <2>1. PICK op \in Waiting : Acquire(t, op) /\ (op = "retry" => ~suspect)
        BY <1>1 DEF Call, Request, Connect, Disconnect, ForceReconnect, Waiting
    <2>2. op = "retry" => ~tainted
        BY <2>1 DEF TaintedIsSuspect
    <2>3. CASE Enter(t, op, waiters)
        BY <2>2, <2>3, EnteringUntainted
    <2>4. CASE Queue(t, op, holder, waiters) /\ UNCHANGED tainted
        BY <2>2, <2>4 DEF Queue, Waiting
    <2> QED BY <2>1, <2>3, <2>4 DEF Acquire
<1>2. CASE Granted(t)
    <2>1. pc[t] \in Waiting /\ pc[t] # "retry"
        BY <1>2 DEF Granted, Enter, Waiting
    <2> QED BY <1>2, <2>1, EnteringUntainted DEF Granted
<1>3. CASE EnsureConnects(t)
    BY <1>3 DEF EnsureConnects, RetryInv, Connecting
<1>4. CASE Wake(t)
    <2>1. pc'[t] = "io" /\ ~tainted
        BY <1>4 DEF Wake, RetryInv, StartAttempt, AttemptFails, Hold, Leave
    <2> QED BY <1>4, <2>1, StartsUntainted DEF Wake
<1>5. CASE ConnectSucceeds(t) \/ ConnectRaises(t) \/ CancelInside(t) \/ CancelWaiting(t)
    BY <1>5 DEF ConnectSucceeds, ConnectRaises, CancelInside, CancelWaiting, Leave
<1>6. CASE ReconnectSucceeds(t) \/ ReconnectRefused(t) \/ ReconnectEscapes(t)
    BY <1>6 DEF ReconnectSucceeds, ReconnectRefused, ReconnectEscapes, Hold, Leave
<1>7. ASSUME NEW u \in Task, u # t, Call(u) \/ Progress(u) \/ Cancel(u)
      PROVE  FALSE
    <2>1. PICK w : pc' = [pc EXCEPT ![u] = w]
        <3> USE DEF Hold, Queue, Leave
        <3>1. CASE \E op, q : Enter(u, op, q)
            BY <3>1 DEF Enter, EnterEnsure, EnterRetry, EnterConnect, EnterDisconnect,
                        EnterForce, ThenRetry, StartAttempt, AttemptFails
        <3>2. CASE Call(u)
            BY <3>1, <3>2 DEF Call, Request, Connect, Disconnect, ForceReconnect, Acquire
        <3>3. CASE Progress(u)
            BY <3>1, <3>3
               DEF Progress, Granted, EnsureConnects, ConnectSucceeds, ConnectRaises,
                   ReconnectSucceeds, ReconnectRefused, ReconnectEscapes, Wake, Answered,
                   IllegalAddress, DeviceError, TransportError, StartAttempt, AttemptFails
        <3>4. CASE Cancel(u)
            BY <3>4 DEF Cancel, CancelInside, CancelWaiting
        <3> QED BY <1>7, <3>2, <3>3, <3>4
    <2> QED BY <1>7, <2>1
<1>8. CASE Environment
    BY <1>8 DEF Environment, PeerVanishes, LossNoticed, AutoReconnect, Heal
<1> QED BY <1>1, <1>2, <1>3, <1>4, <1>5, <1>6, <1>7, <1>8 DEF Next, Progress, Cancel,
        Answered, IllegalAddress, DeviceError, TransportError

(* Until the session that lost a request has answered or been replaced, no *)
(* command passes the check of the connection and none sends an attempt on *)
(* it; a command already queued behind that check is the exception.        *)
THEOREM LossIsRemembered == Spec => LossIsNotForgotten
<1> DEFINE Enters(t) ==
        pc'[t] \in {"retry", "io"} /\ pc[t] \notin {"retry", "io"}
<1>1. IInv /\ IInv' /\ [Next]_vars => [\A t \in Task : Enters(t) => ~tainted']_vars
    <2> SUFFICES ASSUME IInv, IInv', Next, NEW t \in Task, Enters(t)
                 PROVE  ~tainted'
        OBVIOUS
    <2> QED BY EnteredUntainted
<1> QED BY <1>1, InvariantHolds, PTL DEF Spec, LossIsNotForgotten

(* A retry never goes out on the session that lost the request before it.  *)
THEOREM RetriesAreFresh == Spec => []RetryOnFreshSession
<1>1. IInv => RetryOnFreshSession
    BY DEF IInv, RetryInv, RetryOnFreshSession
<1> QED BY <1>1, InvariantHolds, PTL

(* With two attempts or more, a call begun in a healthy network does not   *)
(* fail for what happened to the link before it.                           *)
THEOREM HealthyNetworkSuffices == Spec => []HealthyCallsSucceed
<1>1. IInv => HealthyCallsSucceed
    BY DEF IInv, HealthInv, HealthyCallsSucceed
<1> QED BY <1>1, InvariantHolds, PTL

-----------------------------------------------------------------------------
(* The refinement.  What a step of task t does to its await and its loop   *)
(* variable decides which abstract step it is; the other tasks do not move.*)
SpentBefore(t) == IF pc[t] \in Looping THEN attempt[t] + 1 ELSE 0

Ends(t) == pc'[t] = "idle"
Prepares(t) == pc'[t] \in Waiting \cup Connecting /\ pc[t] \notin Looping
Sends(t) == pc'[t] = "io" /\ pc[t] # "io" /\ attempt'[t] = SpentBefore(t)
Loses(t) == pc'[t] = "reconnecting" /\ pc[t] # "io" /\ attempt'[t] = SpentBefore(t)
Recovers(t) ==
    /\ pc'[t] \in {"reconnecting", "sleeping"}
    /\ pc[t] \in {"io", "reconnecting"}
    /\ attempt'[t] = attempt[t]

OthersStay(t) ==
    \A u \in Task : u # t => pc'[u] = pc[u] /\ attempt'[u] = attempt[u]

LEMMA StepRefines ==
    ASSUME IInv, IInv', NEW t \in Task, OthersStay(t),
           Ends(t) \/ Prepares(t) \/ Sends(t) \/ Loses(t) \/ Recovers(t)
    PROVE  [Serial!Next]_<<Phase, Spent>>
<1> USE ConnectionAssumption
<1>1. /\ pc \in [Task -> {"idle"} \cup Waiting \cup Inside]
      /\ pc' \in [Task -> {"idle"} \cup Waiting \cup Inside]
      /\ attempt \in [Task -> 0 .. MaxRetries - 1]
      /\ attempt' \in [Task -> 0 .. MaxRetries - 1]
    BY DEF IInv, TypeOK
<1>2. /\ Phase' = [Phase EXCEPT ![t] = Phase'[t]]
      /\ Spent' = [Spent EXCEPT ![t] = Spent'[t]]
    BY <1>1 DEF OthersStay, Phase, Spent
<1>3. /\ Phase[t] = IF pc[t] = "io" THEN "wire" ELSE IF pc[t] = "idle" THEN "idle" ELSE "pending"
      /\ Phase'[t] = IF pc'[t] = "io" THEN "wire"
                     ELSE IF pc'[t] = "idle" THEN "idle" ELSE "pending"
      /\ Spent[t] = SpentBefore(t)
      /\ Spent'[t] = IF pc'[t] \in Looping THEN attempt'[t] + 1 ELSE 0
    BY DEF Phase, Spent, SpentBefore
<1>4. CASE Ends(t)
    <2>1. Phase'[t] = "idle" /\ Spent'[t] = 0
        BY <1>3, <1>4 DEF Ends, Looping
    <2>2. CASE pc[t] = "idle"
        <3>1. Phase[t] = "idle" /\ Spent[t] = 0
            BY <1>3, <2>2 DEF SpentBefore, Looping
        <3>2. Phase' = Phase
            BY <1>2, <2>1, <3>1 DEF Phase
        <3>3. Spent' = Spent
            BY <1>2, <2>1, <3>1 DEF Spent
        <3> QED BY <3>2, <3>3
    <2>3. CASE pc[t] # "idle"
        <3>1. Phase[t] # "idle"
            BY <1>3, <2>3
        <3>2. Serial!End(t)
            BY <1>2, <2>1, <3>1 DEF Serial!End
        <3> QED BY <3>2 DEF Serial!Next
    <2> QED BY <2>2, <2>3
<1>5. CASE Prepares(t)
    <2>1. Phase'[t] = "pending" /\ Spent'[t] = 0 /\ Spent[t] = 0 /\ Phase[t] # "wire"
        BY <1>3, <1>5 DEF Prepares, SpentBefore, Looping, Waiting, Connecting
    <2>2. CASE pc[t] = "idle"
        <3>1. Phase[t] = "idle"
            BY <1>3, <2>2
        <3>2. Spent' = Spent
            BY <1>2, <2>1 DEF Spent
        <3>3. Serial!Begin(t)
            BY <1>2, <2>1, <3>1, <3>2 DEF Serial!Begin
        <3> QED BY <3>3 DEF Serial!Next
    <2>3. CASE pc[t] # "idle"
        <3>1. Phase[t] = "pending"
            BY <1>3, <2>1, <2>3
        <3>2. Phase' = Phase
            BY <1>2, <2>1, <3>1 DEF Phase
        <3>3. Spent' = Spent
            BY <1>2, <2>1, <3>1 DEF Spent
        <3> QED BY <3>2, <3>3
    <2> QED BY <2>2, <2>3
<1>6. ASSUME NEW where, Phase'[t] = where, pc'[t] \in Looping, attempt'[t] = SpentBefore(t)
      PROVE  Serial!Spend(t, where)
    <2>1. Spent'[t] = Spent[t] + 1 /\ Spent'[t] \in 1 .. MaxRetries
        BY <1>1, <1>3, <1>6 DEF SpentBefore
    <2> QED BY <1>2, <1>6, <2>1 DEF Serial!Spend
<1>7. CASE Sends(t)
    <2>1. \A u \in Task : Phase[u] # "wire"
        BY <1>1, <1>7 DEF Sends, OthersStay, IInv, LockInv, Phase, Inside, Looping
    <2>2. Serial!Spend(t, "wire")
        BY <1>3, <1>6, <1>7 DEF Sends, Looping
    <2>3. Serial!Send(t)
        BY <2>1, <2>2 DEF Serial!Send, Serial!WireFree
    <2> QED BY <2>3 DEF Serial!Next
<1>8. CASE Loses(t)
    <2>1. Phase[t] # "wire"
        BY <1>3, <1>8 DEF Loses
    <2>2. Serial!Spend(t, "pending")
        BY <1>3, <1>6, <1>8 DEF Loses, Looping
    <2>3. Serial!Lose(t)
        BY <2>1, <2>2 DEF Serial!Lose
    <2> QED BY <2>3 DEF Serial!Next
<1>9. CASE Recovers(t)
    <2>1. Phase'[t] = "pending" /\ Spent'[t] = Spent[t]
        BY <1>3, <1>9 DEF Recovers, SpentBefore, Looping
    <2>2. Spent' = Spent
        BY <1>2, <2>1 DEF Spent
    <2>3. CASE pc[t] = "io"
        <3>1. Serial!Answer(t)
            BY <1>2, <1>3, <2>1, <2>2, <2>3 DEF Serial!Answer
        <3> QED BY <3>1 DEF Serial!Next
    <2>4. CASE pc[t] = "reconnecting"
        <3>1. Phase[t] = "pending"
            BY <1>3, <2>4
        <3> QED BY <1>2, <2>1, <2>2, <3>1 DEF Phase
    <2> QED BY <1>9, <2>3, <2>4 DEF Recovers
<1> QED BY <1>4, <1>5, <1>7, <1>8, <1>9

(* ... and so does what a task does when it has just got the lock.         *)
LEMMA EnterRefines ==
    ASSUME IInv, IInv', NEW t \in Task, NEW op \in Waiting, NEW q, Enter(t, op, q),
           pc[t] \notin Looping, SpentBefore(t) = 0
    PROVE  [Serial!Next]_<<Phase, Spent>>
<1> USE DEF OthersStay, Hold, Queue, Leave, IInv, TypeOK
<1>1. CASE \E w \in Connecting : Hold(t, w, 0)
    <2>1. OthersStay(t) /\ Prepares(t)
        BY <1>1 DEF Prepares
    <2> QED BY <2>1, StepRefines
<1>2. CASE \E r \in Results : Leave(t, r)
    <2>1. OthersStay(t) /\ Ends(t)
        BY <1>2 DEF Ends
    <2> QED BY <2>1, StepRefines
<1>3. CASE \E n, r : Queue(t, "retry", n, r)
    <2>1. OthersStay(t) /\ Prepares(t)
        BY <1>3 DEF Prepares, Waiting
    <2> QED BY <2>1, StepRefines
<1>4. CASE Hold(t, "io", 0)
    <2>1. OthersStay(t) /\ Sends(t)
        BY <1>4 DEF Sends, Looping
    <2> QED BY <2>1, StepRefines
<1>5. CASE Hold(t, "reconnecting", 0)
    <2>1. OthersStay(t) /\ Loses(t)
        BY <1>5 DEF Loses, Looping
    <2> QED BY <2>1, StepRefines
<1>6. CASE StartAttempt(t, 0)
    BY <1>2, <1>4, <1>5, <1>6 DEF StartAttempt, AttemptFails, Results
<1>7. CASE EnterEnsure(t, q)
    BY <1>1, <1>3, <1>6, <1>7 DEF EnterEnsure, ThenRetry, Connecting
<1>8. CASE EnterConnect(t, q) \/ EnterDisconnect(t, q) \/ EnterForce(t, q)
    BY <1>1, <1>2, <1>8 DEF EnterConnect, EnterDisconnect, EnterForce, Connecting, Results
<1> QED BY <1>6, <1>7, <1>8 DEF Enter, EnterRetry

LEMMA CallRefines ==
    ASSUME IInv, IInv', NEW t \in Task, Call(t)
    PROVE  [Serial!Next]_<<Phase, Spent>>
<1> USE DEF Hold, Queue, Leave
<1>1. pc[t] = "idle" /\ pc[t] \notin Looping /\ SpentBefore(t) = 0
    BY DEF Call, Request, Connect, Disconnect, ForceReconnect, Begin, Looping, SpentBefore
<1>2. PICK op \in Waiting : Acquire(t, op)
    BY DEF Call, Request, Connect, Disconnect, ForceReconnect, Waiting
<1>3. CASE Enter(t, op, waiters)
    BY <1>1, <1>3, EnterRefines
<1>4. CASE Queue(t, op, holder, waiters)
    <2>1. OthersStay(t) /\ Prepares(t)
        BY <1>1, <1>4 DEF Prepares, OthersStay, IInv, TypeOK
    <2> QED BY <2>1, StepRefines
<1> QED BY <1>2, <1>3, <1>4 DEF Acquire

LEMMA ProgressRefines ==
    ASSUME IInv, IInv', NEW t \in Task, Progress(t) \/ Cancel(t)
    PROVE  [Serial!Next]_<<Phase, Spent>>
<1> USE ConnectionAssumption
<1> USE DEF OthersStay, Hold, Queue, Leave, IInv, TypeOK
<1>1. CASE Granted(t)
    <2>1. pc[t] \in Waiting
        BY <1>1 DEF Granted, Enter, Waiting
    <2>2. pc[t] \notin Looping /\ SpentBefore(t) = 0
        BY <2>1 DEF Waiting, Looping, SpentBefore
    <2> QED BY <1>1, <2>1, <2>2, EnterRefines DEF Granted
<1>2. CASE EnsureConnects(t)
    <2>1. CASE Hold(t, "io", 0)
        <3>1. OthersStay(t) /\ Sends(t)
            BY <1>2, <2>1 DEF EnsureConnects, Sends, SpentBefore, Looping
        <3> QED BY <3>1, StepRefines
    <2>2. CASE Queue(t, "retry", NoTask, waiters)
        <3>1. OthersStay(t) /\ Prepares(t)
            BY <1>2, <2>2 DEF EnsureConnects, Prepares, Waiting, Looping
        <3> QED BY <3>1, StepRefines
    <2> QED BY <1>2, <2>1, <2>2 DEF EnsureConnects
<1>3. CASE \E r \in Results : Leave(t, r)
    <2>1. OthersStay(t) /\ Ends(t)
        BY <1>3 DEF Ends
    <2> QED BY <2>1, StepRefines
<1>4. CASE CancelWaiting(t)
    <2>1. OthersStay(t) /\ Ends(t)
        BY <1>4 DEF CancelWaiting, Ends
    <2> QED BY <2>1, StepRefines
<1>5. CASE pc[t] \in {"io", "reconnecting"} /\ Hold(t, "sleeping", attempt[t])
    <2>1. OthersStay(t) /\ Recovers(t)
        BY <1>5 DEF Recovers
    <2> QED BY <2>1, StepRefines
<1>6. CASE Wake(t) /\ Hold(t, "io", attempt[t] + 1)
    <2>1. OthersStay(t) /\ Sends(t)
        BY <1>6 DEF Wake, Sends, SpentBefore, Looping
    <2> QED BY <2>1, StepRefines
<1>7. CASE Wake(t) /\ Hold(t, "reconnecting", attempt[t] + 1)
    <2>1. OthersStay(t) /\ Loses(t)
        BY <1>7 DEF Wake, Loses, SpentBefore, Looping
    <2> QED BY <2>1, StepRefines
<1>8. CASE TransportError(t) /\ Hold(t, "reconnecting", attempt[t])
    <2>1. OthersStay(t) /\ Recovers(t)
        BY <1>8 DEF TransportError, Recovers
    <2> QED BY <2>1, StepRefines
<1>9. CASE ConnectSucceeds(t) \/ ConnectRaises(t) \/ ReconnectEscapes(t) \/ Answered(t)
           \/ IllegalAddress(t) \/ CancelInside(t)
    BY <1>3, <1>9 DEF ConnectSucceeds, ConnectRaises, ReconnectEscapes, Answered,
                      IllegalAddress, CancelInside, Results
<1>10. CASE ReconnectSucceeds(t) \/ ReconnectRefused(t) \/ DeviceError(t)
    BY <1>3, <1>5, <1>10 DEF ReconnectSucceeds, ReconnectRefused, DeviceError, Results
<1>11. CASE Wake(t)
    BY <1>3, <1>6, <1>7, <1>11 DEF Wake, StartAttempt, AttemptFails, Results
<1>12. CASE TransportError(t)
    BY <1>3, <1>8, <1>12 DEF TransportError, AttemptFails, Results
<1> QED BY <1>1, <1>2, <1>4, <1>9, <1>10, <1>11, <1>12 DEF Progress, Cancel

LEMMA StutterRefines ==
    ASSUME Environment \/ UNCHANGED vars
    PROVE  UNCHANGED <<Phase, Spent>>
BY DEF Environment, PeerVanishes, LossNoticed, AutoReconnect, Heal, vars, Phase, Spent

(* The connection core implements the abstract serial link: one request on *)
(* the wire at any time, max_retries of them at most for one call.         *)
THEOREM ImplementsSerialLink == Spec => SerialSpec
<1>1. Init => Serial!Init
    BY DEF Init, Serial!Init, Phase, Spent, Looping
<1>2. IInv /\ IInv' /\ [Next]_vars => [Serial!Next]_<<Phase, Spent>>
    BY CallRefines, ProgressRefines, StutterRefines DEF Next
<1> QED BY <1>1, <1>2, InvariantHolds, PTL DEF Spec, SerialSpec, Serial!Spec,
                                                Serial!abstractVars

-----------------------------------------------------------------------------
(* The transport's contract.  Only the holder of the lock is ever on the   *)
(* transport, so that its await says what call is in progress.             *)
BusyOf(w) == IF w = "io" THEN "request"
             ELSE IF w \in Dialling THEN "connect" ELSE "no"

Alone(t) == \A u \in Task : u # t => pc[u] \notin Inside

LEMMA BusyIsOfTheOne ==
    ASSUME NEW t \in Task, Alone(t)
    PROVE  Busy = BusyOf(pc[t])
BY DEF Alone, Busy, BusyOf, Inside, Looping, Connecting, Dialling

(* A step of a task that has the lock, or gets it: it starts no request    *)
(* without a session that looks up, opens a session only while it connects *)
(* and begins to connect only on a closed one.                             *)
Keeps(t) ==
    /\ link' \in {link, "closed"}
          \cup IF BusyOf(pc[t]) = "connect" THEN {"open", "lost"} ELSE {}
    /\ pc'[t] = "io" => link' \in {"open", "stale"}
    /\ pc'[t] \in Dialling => link' = "closed"

LEMMA KeepsContract ==
    ASSUME NEW t \in Task, OthersStay(t), Alone(t), Keeps(t)
    PROVE  [Contract!Next]_<<link, Busy>>
<1>1. Alone(t)'
    BY DEF Alone, OthersStay
<1>2. Busy = BusyOf(pc[t])
    BY BusyIsOfTheOne
<1>3. Busy' = BusyOf(pc'[t])
    BY <1>1 DEF Alone, Busy, BusyOf, Inside, Looping, Connecting, Dialling
<1>4. Contract!Caller
    BY <1>2, <1>3 DEF Contract!Caller, Keeps, BusyOf
<1> QED BY <1>4 DEF Contract!Next

(* A step of a task that is not, and does not come to be, on the transport.*)
LEMMA AsideContract ==
    ASSUME IInv, NEW t \in Task, OthersStay(t), pc[t] \notin Inside, pc'[t] \notin Inside,
           UNCHANGED link
    PROVE  UNCHANGED <<link, Busy>>
BY DEF OthersStay, Busy, Inside, Looping, Dialling, IInv, TypeOK

LEMMA StartKeeps ==
    ASSUME IInv, NEW t \in Task, NEW k, StartAttempt(t, k)
    PROVE  OthersStay(t) /\ Keeps(t)
<1> USE DEF IInv, TypeOK, StartAttempt, AttemptFails, Hold, Leave, Close, Connected
<1>1. OthersStay(t)
    BY DEF OthersStay
<1>2. Keeps(t)
    BY DEF Keeps, Connecting, Dialling
<1> QED BY <1>1, <1>2

LEMMA EnterContract ==
    ASSUME IInv, NEW t \in Task, NEW op \in Waiting, NEW q, Enter(t, op, q),
           holder = NoTask, pc[t] \in Waiting \cup {"idle"}
    PROVE  [Contract!Next]_<<link, Busy>>
<1>1. Alone(t) /\ pc[t] \notin Inside
    BY ConnectionAssumption DEF IInv, LockInv, Alone
<1>2. CASE StartAttempt(t, 0)
    BY <1>1, <1>2, StartKeeps, KeepsContract
<1>3. CASE \E n, r : Queue(t, "retry", n, r) /\ UNCHANGED link
    <2>1. OthersStay(t) /\ pc'[t] \notin Inside
        BY <1>3 DEF IInv, TypeOK, Queue, OthersStay, Inside, Looping, Connecting
    <2> QED BY <1>1, <1>3, <2>1, AsideContract
<1>4. CASE Close /\ \E w \in Connecting : Hold(t, w, 0)
    <2>1. OthersStay(t) /\ Keeps(t)
        BY <1>4 DEF IInv, TypeOK, Hold, OthersStay, Keeps, Close, Connecting, Dialling
    <2> QED BY <1>1, <2>1, KeepsContract
<1>5. CASE (Close \/ UNCHANGED link) /\ Leave(t, "ok")
    <2>1. OthersStay(t) /\ Keeps(t)
        BY <1>5 DEF IInv, TypeOK, Leave, OthersStay, Keeps, Close, Connecting, Dialling
    <2> QED BY <1>1, <2>1, KeepsContract
<1>6. CASE EnterEnsure(t, q)
    BY <1>2, <1>3, <1>4, <1>6 DEF EnterEnsure, ThenRetry, Connecting
<1>7. CASE EnterConnect(t, q) \/ EnterDisconnect(t, q) \/ EnterForce(t, q)
    BY <1>4, <1>5, <1>7 DEF EnterConnect, EnterDisconnect, EnterForce, Connecting
<1> QED BY <1>2, <1>6, <1>7 DEF Enter, EnterRetry

LEMMA CallContract ==
    ASSUME IInv, NEW t \in Task, Call(t)
    PROVE  [Contract!Next]_<<link, Busy>>
<1>1. pc[t] = "idle" /\ pc[t] \notin Inside
    BY DEF Call, Request, Connect, Disconnect, ForceReconnect, Begin, Inside, Looping, Connecting
<1>2. PICK op \in Waiting : Acquire(t, op)
    BY DEF Call, Request, Connect, Disconnect, ForceReconnect, Waiting
<1>3. CASE holder = NoTask /\ Enter(t, op, waiters)
    BY <1>1, <1>3, EnterContract
<1>4. CASE Queue(t, op, holder, waiters) /\ UNCHANGED link
    <2>1. OthersStay(t) /\ pc'[t] \notin Inside
        BY <1>1, <1>4 DEF Queue, OthersStay, IInv, TypeOK, Waiting, Inside, Looping, Connecting
    <2> QED BY <1>1, <1>4, <2>1, AsideContract
<1> QED BY <1>2, <1>3, <1>4 DEF Acquire

LEMMA ProgressContract ==
    ASSUME IInv, NEW t \in Task, Progress(t) \/ Cancel(t)
    PROVE  [Contract!Next]_<<link, Busy>>
<1>1. CASE Granted(t)
    <2>1. pc[t] \in Waiting
        BY <1>1 DEF Granted, Enter, Waiting
    <2> QED BY <1>1, <2>1, EnterContract DEF Granted
<1>2. CASE CancelWaiting(t)
    <2>1. OthersStay(t) /\ pc[t] \notin Inside /\ pc'[t] \notin Inside /\ UNCHANGED link
        BY <1>2 DEF CancelWaiting, OthersStay, IInv, TypeOK, Waiting, Inside, Looping, Connecting
    <2> QED BY <2>1, AsideContract
<1>3. ASSUME pc[t] \in Inside PROVE Alone(t)
    BY <1>3 DEF IInv, LockInv, Alone
<1>4. CASE EnsureConnects(t) \/ ConnectSucceeds(t) \/ ReconnectSucceeds(t)
    <2> USE DEF EnsureConnects, ConnectSucceeds, ReconnectSucceeds
    <2>1. pc[t] \in Inside /\ BusyOf(pc[t]) = "connect" /\ link' = "open"
        BY <1>4 DEF Inside, Looping, Connecting, Dialling, BusyOf
    <2>2. OthersStay(t) /\ pc'[t] \notin Dialling
        BY <1>4 DEF IInv, TypeOK, Hold, Queue, Leave, OthersStay, Connecting, Dialling
    <2>3. Keeps(t)
        BY <2>1, <2>2 DEF Keeps
    <2> QED BY <1>3, <2>1, <2>2, <2>3, KeepsContract
<1>5. CASE Wake(t)
    <2>1. pc[t] \in Inside
        BY <1>5 DEF Wake, Inside, Looping
    <2> QED BY <1>3, <1>5, <2>1, StartKeeps, KeepsContract DEF Wake
<1>6. CASE TransportError(t)
    <2>1. pc[t] \in Inside
        BY <1>6 DEF TransportError, Inside, Looping
    <2>2. OthersStay(t) /\ Keeps(t)
        BY <1>6 DEF TransportError, AttemptFails, Hold, Leave, Close, OthersStay, Keeps,
                    IInv, TypeOK, Connecting, Dialling
    <2> QED BY <1>3, <2>1, <2>2, KeepsContract
<1>7. CASE \/ ConnectRaises(t) \/ ReconnectRefused(t) \/ ReconnectEscapes(t)
           \/ Answered(t) \/ IllegalAddress(t) \/ DeviceError(t) \/ CancelInside(t)
    <2> USE DEF ConnectRaises, ReconnectRefused, ReconnectEscapes, Answered, IllegalAddress,
                DeviceError, CancelInside
    <2>1. /\ pc[t] \in Inside
          /\ UNCHANGED link \/ (BusyOf(pc[t]) = "connect" /\ DialEnds)
        BY <1>7 DEF Inside, Looping, Dialling, Connecting, BusyOf
    <2>2. OthersStay(t) /\ pc'[t] \in {"idle", "sleeping"}
        BY <1>7 DEF Hold, Leave, OthersStay, IInv, TypeOK
    <2>3. Keeps(t)
        BY <2>1, <2>2 DEF Keeps, DialEnds, Dialling, Connecting
    <2> QED BY <1>3, <2>1, <2>2, <2>3, KeepsContract
<1> QED BY <1>1, <1>2, <1>4, <1>5, <1>6, <1>7 DEF Progress, Cancel

LEMMA EnvironmentContract ==
    ASSUME Environment \/ UNCHANGED vars
    PROVE  [Contract!Next]_<<link, Busy>>
<1>1. UNCHANGED pc
    BY DEF Environment, PeerVanishes, LossNoticed, AutoReconnect, Heal, vars
<1>2. UNCHANGED Busy
    BY <1>1 DEF Busy
<1>3. UNCHANGED link \/ Contract!Network
    BY <1>2 DEF Environment, PeerVanishes, LossNoticed, AutoReconnect, Heal, vars,
                Contract!Network
<1> QED BY <1>2, <1>3 DEF Contract!Next

(* The client keeps to the contract of its transport, whatever the tasks,  *)
(* the network and the retries do: no request without a session that looks *)
(* up, no connect on top of one, nothing closed under a request.           *)
THEOREM KeepsToTheContract == Spec => ContractSpec
<1>1. Init => Contract!Init
    BY DEF Init, Contract!Init, Busy, Connecting, Dialling
<1>2. IInv /\ [Next]_vars => [Contract!Next]_<<link, Busy>>
    BY CallContract, ProgressContract, EnvironmentContract DEF Next
<1> QED BY <1>1, <1>2, InvariantHolds, PTL DEF Spec, ContractSpec, Contract!Spec
=============================================================================
