------------------------------ MODULE Nav10Web ------------------------------
(***************************************************************************)
(* IdmNavigator10WebClient (idm_heatpump/web.py): tasks that share one     *)
(* websocket to the controller.  Requests and connects run under           *)
(* self._lock; close() takes no lock and runs between any two awaits of    *)
(* the others.  An answer carries no number: the first frame that arrives  *)
(* is taken for the answer to the request that waits.                      *)
(*                                                                         *)
(* As in ModbusConnection, a step is what a task does between two          *)
(* suspensions and pc[t] names the await at which task t is suspended.     *)
(***************************************************************************)
EXTENDS Naturals, Sequences

CONSTANTS
    Task,             \* the tasks that use the client
    Calls,            \* the calls each task makes: [Task -> SUBSET CallKinds]
    Sock,             \* names for websockets, used again once forgotten
    MaxReconnect,     \* max_reconnect_attempts
    Sections,         \* the settings one read_data() asks for, at most
    ExternalSession,  \* was the HTTP session passed in by the caller?
    MaxCancels,       \* bound: cancellations in a behaviour
    NoTask, NoSock

CallKinds == {"connect", "read", "save", "close"}

ASSUME Nav10Assumption ==
    /\ MaxReconnect \in Nat \ {0}
    /\ Sections \in Nat \ {0}
    /\ MaxCancels \in Nat
    /\ ExternalSession \in BOOLEAN
    /\ Calls \in [Task -> SUBSET CallKinds]
    /\ NoTask \notin Task
    /\ NoSock \notin Sock

VARIABLES
    pc,       \* the await each task is suspended at
    call,     \* the call each task makes, or made last
    try,      \* 0 before the reconnect loop, then its loop variable
    left,     \* sections a read_data() has still to ask for
    then,     \* what follows the _close_unlocked() under way
    on,       \* the websocket the task awaits a frame of
    holder,   \* the task that holds self._lock
    waiters,  \* the tasks queued for self._lock
    ws,       \* self._ws
    sock,     \* each websocket's state and the answers on their way on it
    session,  \* self._session together with self._own_session
    closed,   \* self._closed
    result,   \* how each task's last call ended; "none" while it runs
    sent,     \* requests the running call, or section, put on the wire
    skewed,   \* a request was given up and its websocket kept
    torn,     \* a close() was cancelled, or a connect() began during one
    orphaned, \* an own session is open that self._session does not name
    cancels   \* cancellations so far

vars == <<pc, call, try, left, then, on, holder, waiters, ws, sock,
          session, closed, result, sent, skewed,
          torn, orphaned, cancels>>

Waiting == {"lock_connect", "lock_send"}
Closing == {"closing_ws", "closing_session"}
OnWire == {"authing", "receiving"}
Inside == OnWire \cup {"dialing", "sleeping"}

(* open: the peer answers; lost: the peer is gone and ws.closed still      *)
(* false; shut: close() was called on it.                                  *)
SockStates == {"open", "lost", "shut"}
Empty(state) == [state |-> state, inbox |-> <<>>]
(* own, closing: created by the client (_own_session), and being closed.   *)
Sessions == {"none", "own", "closing", "external"}
Reply == [by : Task, kind : {"read", "save"}, ok : BOOLEAN]

TypeOK ==
    /\ pc \in [Task -> {"idle", "pausing"} \cup Waiting \cup Closing \cup Inside]
    /\ call \in [Task -> CallKinds]
    /\ try \in [Task -> 0 .. MaxReconnect]
    /\ left \in [Task -> 0 .. Sections - 1]
    /\ then \in [Task -> {"none", "raise", "next", "dial", "done"}]
    /\ on \in [Task -> Sock \cup {NoSock}]
    /\ holder \in Task \cup {NoTask}
    /\ waiters \in Seq(Task)
    /\ ws \in Sock \cup {NoSock}
    /\ sock \in [Sock -> [state : SockStates, inbox : Seq(Reply)]]
    /\ session \in Sessions
    /\ closed \in BOOLEAN
    /\ result \in [Task -> {"none", "ok", "rejected", "failed", "cancelled"}]
    /\ sent \in [Task -> Nat]
    /\ skewed \in BOOLEAN
    /\ torn \in BOOLEAN
    /\ orphaned \in BOOLEAN
    /\ cancels \in 0 .. MaxCancels

Init ==
    /\ pc = [t \in Task |-> "idle"]
    /\ call = [t \in Task |-> "connect"]
    /\ try = [t \in Task |-> 0]
    /\ left = [t \in Task |-> 0]
    /\ then = [t \in Task |-> "none"]
    /\ on = [t \in Task |-> NoSock]
    /\ holder = NoTask
    /\ waiters = <<>>
    /\ ws = NoSock
    /\ sock = [s \in Sock |-> Empty("shut")]
    /\ session = IF ExternalSession THEN "external" ELSE "none"
    /\ closed = FALSE
    /\ result = [t \in Task |-> "ok"]
    /\ sent = [t \in Task |-> 0]
    /\ skewed = FALSE
    /\ torn = FALSE
    /\ orphaned = FALSE
    /\ cancels = 0

-----------------------------------------------------------------------------
(* Where a step can end: suspended, or out of the call.  Every call but    *)
(* close() owns the lock while it is suspended here.                       *)

Locked(t, who) == IF call'[t] = "close" THEN holder ELSE who

Suspend(t, where, k, s, next) ==
    /\ pc' = [pc EXCEPT ![t] = where]
    /\ try' = [try EXCEPT ![t] = k]
    /\ on' = [on EXCEPT ![t] = s]
    /\ then' = [then EXCEPT ![t] = next]
    /\ result' = [result EXCEPT ![t] = "none"]
    /\ holder' = Locked(t, t)

Leave(t, r) ==
    /\ pc' = [pc EXCEPT ![t] = "idle"]
    /\ try' = [try EXCEPT ![t] = 0]
    /\ on' = [on EXCEPT ![t] = NoSock]
    /\ then' = [then EXCEPT ![t] = "none"]
    /\ result' = [result EXCEPT ![t] = r]
    /\ holder' = Locked(t, NoTask)

-----------------------------------------------------------------------------
(* _close_unlocked(), and what its caller does next: raise, go on to the   *)
(* next attempt of the reconnect loop, or dial again after the delay.      *)

OneAttemptTooMany(t, next, k) ==   \* mutant: the loop's bound is off by one
    \/ next = "done" /\ Leave(t, "ok")
    \/ next = "raise" /\ Leave(t, "failed")
    \/ next = "dial" /\ Suspend(t, "sleeping", k, NoSock, "none")
    \/ next = "next" /\ Suspend(t, "sleeping", k + 1, NoSock, "none")
AttemptsForEver(t, next, k) ==     \* mutant: a failed attempt is not counted
    \/ next = "done" /\ Leave(t, "ok")
    \/ next = "raise" /\ Leave(t, "failed")
    \/ next \in {"dial", "next"} /\ Suspend(t, "sleeping", k, NoSock, "none")

AfterClose(t, next, k) ==
    \/ next = "done" /\ Leave(t, "ok")
    \/ next = "raise" /\ Leave(t, "failed")
    \/ next = "dial" /\ Suspend(t, "sleeping", k, NoSock, "none")
    \/ /\ next = "next"
       /\ \/ (closed' \/ k = MaxReconnect) /\ Leave(t, "failed")
          \/ ~closed' /\ k < MaxReconnect /\ Suspend(t, "sleeping", k + 1, NoSock, "none")

(* The own session takes its websockets with it.  Its close() may suspend. *)
CloseSession(t, next, k, sockets) ==
    /\ UNCHANGED orphaned
    /\ \/ /\ session \in {"none", "external"}
          /\ AfterClose(t, next, k)
          /\ sock' = sockets
          /\ UNCHANGED session
       \/ /\ session \in {"own", "closing"}
          /\ sock' = [s \in Sock |-> Empty("shut")]
          /\ \/ session' = "none" /\ AfterClose(t, next, k)
             \/ /\ session = "own"
                /\ session' = "closing"
                /\ Suspend(t, "closing_session", k, NoSock, next)

(* Neither self._ws is None nor its closed is set.                         *)
Usable == ws # NoSock /\ sock[ws].state # "shut"

(* ws.close() returns at once on a websocket that is being closed already. *)
CloseUnlocked(t, next, k) ==
    \/ /\ Usable
       /\ sock' = [sock EXCEPT ![ws] = Empty("shut")]
       /\ Suspend(t, "closing_ws", k, NoSock, next)
       /\ UNCHANGED <<ws, session, orphaned>>
    \/ /\ ~Usable
       /\ ws' = NoSock
       /\ CloseSession(t, next, k, sock)

-----------------------------------------------------------------------------
(* _send_json_and_receive_text, under the lock.                            *)

(* The head of the reconnect loop.                                         *)
NextAttempt(t, k) ==
    \/ /\ closed' \/ k > MaxReconnect
       /\ Leave(t, "failed")
       /\ UNCHANGED <<ws, sock, session, orphaned>>
    \/ /\ ~closed' /\ k <= MaxReconnect
       /\ CloseUnlocked(t, "dial", k)

Uncertain(t, k) == call'[t] = "save" /\ k = 0

RetriesASave(t, k) ==        \* mutant: a save enters the reconnect loop
    NextAttempt(t, k + 1)
KeepsTheWebsocket(t, k) ==   \* mutant: a save of unknown outcome leaves it open
    \/ /\ Uncertain(t, k)
       /\ Leave(t, "failed")
       /\ UNCHANGED <<ws, sock, session, orphaned>>
    \/ ~Uncertain(t, k) /\ NextAttempt(t, k + 1)

RequestFails(t, k) ==
    \/ Uncertain(t, k) /\ CloseUnlocked(t, "raise", k)
    \/ ~Uncertain(t, k) /\ NextAttempt(t, k + 1)

(* _send_json_and_receive_text_once up to the receive.  The controller     *)
(* decides on a save when it arrives; its answer may take any time.        *)
SendOnce(t, k) ==
    \/ /\ ~Usable
       /\ RequestFails(t, k)
       /\ sent' = [sent EXCEPT ![t] = IF k = 0 THEN 0 ELSE @]
    \/ /\ Usable
       /\ Suspend(t, "receiving", k, ws, "none")
       /\ UNCHANGED <<ws, session, orphaned>>
       /\ sent' = [sent EXCEPT ![t] = IF k = 0 THEN 1 ELSE @ + 1]
       /\ \/ sock[ws].state = "lost" /\ UNCHANGED sock
          \/ /\ sock[ws].state = "open"
             /\ \E ok \in BOOLEAN :
                    sock' = [sock EXCEPT ![ws].inbox =
                                Append(@, [by |-> t, kind |-> call'[t], ok |-> ok])]

SendsUnlocked(t, free, q) == \* mutant: the request does not wait for the lock
    SendOnce(t, 0) /\ waiters' = q

(* async with self._lock for the request, behind those that wait already.  *)
AcquireForSend(t, free, q) ==
    \/ free /\ q = <<>> /\ SendOnce(t, 0) /\ waiters' = q
    \/ /\ ~(free /\ q = <<>>)
       /\ pc' = [pc EXCEPT ![t] = "lock_send"]
       /\ on' = [on EXCEPT ![t] = NoSock]
       /\ result' = [result EXCEPT ![t] = "none"]
       /\ holder' = IF free THEN NoTask ELSE holder
       /\ waiters' = Append(q, t)
       /\ UNCHANGED <<try, then, sent, ws, sock, session, orphaned>>

(* _connect_unlocked has returned: to connect(), which gives up the lock,  *)
(* or to the reconnect loop, which sends.                                  *)
ConnectReturns(t, k, q) ==
    \/ k > 0 /\ SendOnce(t, k) /\ waiters' = q
    \/ /\ k = 0 /\ call'[t] = "connect"
       /\ Leave(t, "ok")
       /\ waiters' = q
       /\ UNCHANGED <<sent, ws, sock, session, orphaned>>
    \/ k = 0 /\ call'[t] # "connect" /\ AcquireForSend(t, TRUE, q)

-----------------------------------------------------------------------------
(* _connect_unlocked up to its first await, with q queued for the lock.    *)

Dial(t, k) ==
    /\ ws' = NoSock
    /\ session' = IF session = "none" THEN "own" ELSE session
    /\ Suspend(t, "dialing", k, NoSock, "none")
    /\ UNCHANGED <<sock, orphaned>>

DialsWhenClosed(t, k, q) ==  \* mutant: the loop connects a closed client again
    \/ Usable /\ ConnectReturns(t, k, q)
    \/ ~Usable /\ waiters' = q /\ Dial(t, k) /\ UNCHANGED sent

Connect(t, k, q) ==
    \/ /\ ~closed' /\ Usable
       /\ ConnectReturns(t, k, q)
    \/ /\ ~(~closed' /\ Usable)
       /\ waiters' = q
       /\ UNCHANGED sent
       /\ \/ closed' /\ NextAttempt(t, k + 1)
          \/ ~closed' /\ Dial(t, k)

(* connect(): the body of its async with self._lock.                       *)
EnterConnect(t, q) ==
    /\ closed' = FALSE
    /\ torn' = (torn \/ \E u \in Task : call[u] = "close" /\ pc[u] # "idle")
    /\ Connect(t, 0, q)

-----------------------------------------------------------------------------
(* The calls.  Every read and save begins with connect().                  *)

Begin(t, c, n) ==
    /\ pc[t] = "idle"
    /\ c \in Calls[t]
    /\ call' = [call EXCEPT ![t] = c]
    /\ left' = [left EXCEPT ![t] = n]
    /\ UNCHANGED <<skewed, cancels>>
    /\ \/ /\ holder = NoTask /\ waiters = <<>>
          /\ EnterConnect(t, waiters)
       \/ /\ ~(holder = NoTask /\ waiters = <<>>)
          /\ pc' = [pc EXCEPT ![t] = "lock_connect"]
          /\ result' = [result EXCEPT ![t] = "none"]
          /\ waiters' = Append(waiters, t)
          /\ UNCHANGED <<try, then, on, holder, ws, sock, session, closed,
                         sent, torn, orphaned>>

BeginConnect(t) == Begin(t, "connect", 0)

(* read_data() asks for some sections, every other read for one frame.     *)
BeginRead(t) == \E n \in 0 .. Sections - 1 : Begin(t, "read", n)

(* A save that looks up the parameter's range first is a read and, if the  *)
(* range allows the value, a save.                                         *)
BeginSave(t) == Begin(t, "save", 0)

CloseClient(t) ==
    /\ pc[t] = "idle"
    /\ "close" \in Calls[t]
    /\ call' = [call EXCEPT ![t] = "close"]
    /\ closed' = TRUE
    /\ CloseUnlocked(t, "done", 0)
    /\ UNCHANGED <<left, waiters, sent, skewed, torn, cancels>>

(* The lock is free and its first waiter runs.                             *)
Granted(t) ==
    /\ holder = NoTask
    /\ waiters # <<>>
    /\ t = Head(waiters)
    /\ UNCHANGED <<call, left, skewed, cancels>>
    /\ \/ pc[t] = "lock_connect" /\ EnterConnect(t, Tail(waiters))
       \/ /\ pc[t] = "lock_send"
          /\ UNCHANGED <<closed, torn>>
          /\ SendOnce(t, 0)
          /\ waiters' = Tail(waiters)

-----------------------------------------------------------------------------
(* The awaits of a connect.                                                *)

Keeps == UNCHANGED <<call, left, closed, torn, cancels>>

Forgotten == {s \in Sock : s # ws /\ sock[s].state # "open" /\ \A t \in Task : on[t] # s}

(* A session that is being closed, or has been replaced, dials nothing.    *)
CanDial == session \in {"own", "external"}

DialSucceeds(t) ==
    /\ pc[t] = "dialing"
    /\ CanDial
    /\ Forgotten # {}
    /\ Keeps
    /\ LET s == CHOOSE f \in Forgotten : TRUE IN
        /\ ws' = s
        /\ sock' = [sock EXCEPT ![s] = Empty("open")]
        /\ Suspend(t, "authing", try[t], s, "none")
    /\ skewed' = FALSE
    /\ UNCHANGED <<waiters, session, sent, orphaned>>

AuthAccepted(t) ==
    /\ pc[t] = "authing"
    /\ sock[on[t]].state = "open"
    /\ Keeps /\ UNCHANGED skewed
    /\ ConnectReturns(t, try[t], waiters)

(* Errors of the connect end the call, or the attempt of the loop; a       *)
(* rejected PIN, and whatever a closed session raises, end the call.       *)
ConnectFails(t) ==
    /\ pc[t] \in {"dialing", "authing"}
    /\ Keeps /\ UNCHANGED skewed
    /\ \/ try[t] > 0 /\ CloseUnlocked(t, "next", try[t])
       \/ /\ \/ try[t] = 0
             \/ pc[t] = "dialing" /\ ~CanDial
             \/ pc[t] = "authing" /\ sock[on[t]].state = "open"
          /\ CloseUnlocked(t, "raise", try[t])
    /\ UNCHANGED <<waiters, sent>>

-----------------------------------------------------------------------------
(* The awaits of a request.                                                *)

(* The parsers refuse an answer to a request of another kind.              *)
Outcome(t, m) ==
    IF m.kind # call[t] THEN "failed" ELSE IF m.ok THEN "ok" ELSE "rejected"

Receive(t) ==
    /\ pc[t] = "receiving"
    /\ sock[on[t]].state = "open"
    /\ sock[on[t]].inbox # <<>>
    /\ UNCHANGED <<call, closed, skewed, torn, cancels>>
    /\ sock' = [sock EXCEPT ![on[t]].inbox = Tail(@)]
    /\ UNCHANGED <<waiters, ws, session, orphaned, sent>>
    /\ LET r == Outcome(t, Head(sock[on[t]].inbox)) IN
        \/ /\ r = "ok" /\ left[t] > 0
           /\ left' = [left EXCEPT ![t] = @ - 1]
           /\ pc' = [pc EXCEPT ![t] = "pausing"]
           /\ on' = [on EXCEPT ![t] = NoSock]
           /\ try' = [try EXCEPT ![t] = 0]
           /\ holder' = NoTask
           /\ UNCHANGED <<then, result>>
        \/ /\ ~(r = "ok" /\ left[t] > 0)
           /\ Leave(t, r)
           /\ UNCHANGED left

(* read_data(): the pause between two settings, without the lock.          *)
Resume(t) ==
    /\ pc[t] = "pausing"
    /\ Keeps /\ UNCHANGED skewed
    /\ AcquireForSend(t, holder = NoTask, waiters)

(* The timeout, or a frame that says the websocket is closed or in error.  *)
RequestLost(t) ==
    /\ pc[t] = "receiving"
    /\ Keeps
    /\ skewed' = (skewed \/ closed \/ try[t] = MaxReconnect)
    /\ RequestFails(t, try[t])
    /\ UNCHANGED <<waiters, sent>>

Wake(t) ==
    /\ pc[t] = "sleeping"
    /\ Keeps /\ UNCHANGED skewed
    /\ Connect(t, try[t], waiters)

-----------------------------------------------------------------------------
(* The awaits of _close_unlocked; its finally drops whatever the client    *)
(* refers to by then.                                                      *)

WebsocketClosed(t) ==
    /\ pc[t] = "closing_ws"
    /\ Keeps /\ UNCHANGED skewed
    /\ ws' = NoSock
    /\ CloseSession(t, then[t], try[t], sock)
    /\ UNCHANGED <<waiters, sent>>

DropSession ==
    /\ session' = "none"
    /\ orphaned' = (orphaned \/ session = "own")

SessionClosed(t) ==
    /\ pc[t] = "closing_session"
    /\ Keeps /\ UNCHANGED skewed
    /\ DropSession
    /\ AfterClose(t, then[t], try[t])
    /\ UNCHANGED <<waiters, ws, sock, sent>>

-----------------------------------------------------------------------------
(* Cancellation of a call, and the environment.                            *)

Cancelled == cancels < MaxCancels /\ cancels' = cancels + 1

CancelWaiting(t) ==
    /\ Cancelled
    /\ \/ pc[t] = "pausing" /\ UNCHANGED waiters
       \/ \E i \in 1 .. Len(waiters) :
              /\ pc[t] \in Waiting /\ waiters[i] = t
              /\ waiters' = [j \in 1 .. Len(waiters) - 1 |->
                                IF j < i THEN waiters[j] ELSE waiters[j + 1]]
    /\ pc' = [pc EXCEPT ![t] = "idle"]
    /\ result' = [result EXCEPT ![t] = "cancelled"]
    /\ UNCHANGED <<call, try, left, then, on, holder, ws, sock, session,
                   closed, sent, skewed, torn, orphaned>>

(* A connect closes what it opened; a request leaves the websocket open    *)
(* and its answer on the way; a close forgets what it was closing.         *)
CancelInside(t) ==
    /\ Cancelled
    /\ UNCHANGED <<call, left, closed>>
    /\ skewed' = (skewed \/ pc[t] = "receiving")
    /\ torn' = (torn \/ (call[t] = "close" /\ pc[t] \in Closing))
    /\ UNCHANGED <<waiters, sent>>
    /\ \/ pc[t] \in {"dialing", "authing"} /\ CloseUnlocked(t, "raise", try[t])
       \/ /\ pc[t] \in {"receiving", "sleeping"}
          /\ Leave(t, "cancelled")
          /\ UNCHANGED <<ws, sock, session, orphaned>>
       \/ /\ pc[t] = "closing_ws"
          /\ ws' = NoSock
          /\ Leave(t, "cancelled")
          /\ UNCHANGED <<sock, session, orphaned>>
       \/ /\ pc[t] = "closing_session"
          /\ DropSession
          /\ Leave(t, "cancelled")
          /\ UNCHANGED <<ws, sock>>

PeerVanishes(s) ==
    /\ sock[s].state = "open"
    /\ sock' = [sock EXCEPT ![s] = Empty("lost")]
    /\ UNCHANGED <<pc, call, try, left, then, on, holder, waiters, ws, session, closed,
                   result, sent, skewed, torn, orphaned, cancels>>

Progress(t) ==
    \/ Granted(t)
    \/ DialSucceeds(t) \/ AuthAccepted(t) \/ ConnectFails(t)
    \/ Receive(t) \/ RequestLost(t) \/ Resume(t) \/ Wake(t)
    \/ WebsocketClosed(t) \/ SessionClosed(t)

Next ==
    \/ \E t \in Task :
        \/ BeginConnect(t) \/ BeginRead(t) \/ BeginSave(t) \/ CloseClient(t)
        \/ Progress(t)
        \/ CancelWaiting(t) \/ CancelInside(t)
    \/ \E s \in Sock : PeerVanishes(s)

Spec == Init /\ [][Next]_vars

Fairness == \A t \in Task : WF_vars(Progress(t))

FairSpec == Spec /\ Fairness

-----------------------------------------------------------------------------
(* What the client promises.                                               *)

(* self._lock keeps connects and requests apart: no two tasks other than   *)
(* those in close() are past it (async with self._lock, in connect() and   *)
(* in _send_json_and_receive_text).                                        *)
PastLock(t) == pc[t] \in Inside \/ (pc[t] \in Closing /\ call[t] # "close")

LockInv ==
    /\ \A t \in Task : PastLock(t) <=> holder = t
    /\ \A t, u \in Task : PastLock(t) /\ PastLock(u) => t = u

(* The client's state has its type, attempts bounded by the loop, whoever  *)
(* holds the lock.                                                         *)
Inv == TypeOK /\ LockInv

(* The answer a task takes is the answer to its own request, although      *)
(* answers have no number: a request that ends without its answer closes   *)
(* its websocket.  It does not if it is cancelled, lost in the last        *)
(* attempt of the loop, or lost after a close() (skewed).                  *)
AnswersBelong ==
    ~skewed =>
        \A t \in Task :
            pc[t] = "receiving" =>
                \A i \in DOMAIN sock[on[t]].inbox : sock[on[t]].inbox[i].by = t

(* A save is sent at most once, however its call ends: one whose outcome   *)
(* is unknown is not repeated (_send_json_and_receive_text).               *)
SaveSentOnce ==
    \A t \in Task : call[t] = "save" /\ pc[t] = "receiving" => sent[t] <= 1

(* When close() has run and no connect() has begun after it, the requests  *)
(* it met have not opened anything again: no websocket and no session of   *)
(* the client's own is left (close, _connect_unlocked, the loop's checks). *)
(* A session of the caller's is not closed, and a dial under way on it     *)
(* opens a websocket after all.                                            *)
Quiet == \A t \in Task : pc[t] = "idle"
NothingOpen ==
    /\ \A s \in Sock : sock[s].state # "open"
    /\ session = "none"
    /\ ~orphaned

NothingLeftOpen == closed /\ Quiet /\ ~torn /\ session # "external" => NothingOpen

(* Every call ends: the lock is granted, the connect and the receive have  *)
(* a timeout, the reconnect loop an end.                                   *)
EveryCallReturns == \A t \in Task : pc[t] # "idle" ~> pc[t] = "idle"

-----------------------------------------------------------------------------
(* The requests of this client implement SerialLink too: one of them on    *)
(* the wire, and 1 + MaxReconnect attempts for a request.  A connect() on  *)
(* its own is no attempt; a call that only closes has ended.               *)

Phase(t) ==
    IF pc[t] = "receiving" THEN "wire"
    ELSE IF pc[t] \in {"idle", "pausing"} \/ then[t] \in {"raise", "done"} THEN "idle"
    ELSE "pending"

Spent(t) == IF pc[t] = "receiving" THEN try[t] + 1
            ELSE IF Phase(t) = "pending" THEN try[t] ELSE 0

Serial == INSTANCE SerialLink WITH
    MaxRetries <- 1 + MaxReconnect,
    phase <- [t \in Task |-> Phase(t)],
    spent <- [t \in Task |-> Spent(t)]

SerialSpec == Serial!Spec
=============================================================================
