-------------------------- MODULE ModbusConnection --------------------------
(***************************************************************************)
(* The connection core of IdmModbusClient (idm_heatpump/client.py): tasks  *)
(* of one event loop that share one transport through one asyncio.Lock,    *)
(* the retry loop that owns the lock for a whole command, the hard         *)
(* reconnect, and the flag _connection_suspect that tells the next command *)
(* not to trust transport.connected.                                       *)
(*                                                                         *)
(* A step is what a task does between two suspensions.  pc[t] names the    *)
(* await at which task t is suspended; every value in Inside is an await   *)
(* reached while the task holds the lock.  close() of the default          *)
(* transport never suspends, so it is part of the step that calls it.      *)
(***************************************************************************)
EXTENDS Naturals, Sequences

CONSTANTS
    Task,        \* the tasks that call the client
    MaxRetries,  \* the client's max_retries: attempts per command
    NoTask       \* the lock has no holder

ASSUME ConnectionAssumption ==
    /\ MaxRetries \in Nat \ {0}
    /\ NoTask \notin Task

VARIABLES
    pc,       \* the await each task is suspended at
    holder,   \* the task that holds self._lock
    waiters,  \* the tasks queued for self._lock, first come first served
    link,     \* the transport's session with the controller
    suspect,  \* self._connection_suspect
    attempt,  \* the retry loop's loop variable, per task
    result,   \* how each task's last call ended; "none" while it runs
    tainted,  \* a request was lost, no answer and no new session since
    net,      \* may the network and the controller still fail?
    born      \* was the network healthy when the task's call began?

vars == <<pc, holder, waiters, link, suspect, attempt, result, tainted, net, born>>

(* What a task does once it has the lock; it waits for the lock to do so.  *)
Waiting == {"ensure", "retry", "connect", "disconnect", "force"}
Looping == {"io", "reconnecting", "sleeping"}
Connecting == {"ensure_connecting", "connecting"}
Dialling == Connecting \cup {"reconnecting"}
Inside == Looping \cup Connecting
Results == {"none", "ok", "device", "transport", "cancelled"}

(* closed: no client, or one whose connect() has not completed; open: the  *)
(* peer answers; stale: the peer is gone but pymodbus has not noticed;     *)
(* lost: pymodbus has noticed and runs its own reconnect task.             *)
Links == {"closed", "open", "stale", "lost"}

TypeOK ==
    /\ pc \in [Task -> {"idle"} \cup Waiting \cup Inside]
    /\ holder \in Task \cup {NoTask}
    /\ waiters \in Seq(Task)
    /\ link \in Links
    /\ suspect \in BOOLEAN
    /\ attempt \in [Task -> 0 .. MaxRetries - 1]
    /\ result \in [Task -> Results]
    /\ tainted \in BOOLEAN
    /\ net \in {"flaky", "healthy"}
    /\ born \in [Task -> BOOLEAN]

(* transport.connected *)
Connected == link \in {"open", "stale"}

Init ==
    /\ pc = [t \in Task |-> "idle"]
    /\ holder = NoTask
    /\ waiters = <<>>
    /\ link = "closed"
    /\ suspect = FALSE
    /\ attempt = [t \in Task |-> 0]
    /\ result = [t \in Task |-> "ok"]
    /\ tainted = FALSE
    /\ net = "flaky"
    /\ born = [t \in Task |-> FALSE]

-----------------------------------------------------------------------------
(* Where a task's step can end: suspended with the lock, queued for the    *)
(* lock, or out of the call, which gives the lock up if the task had it.   *)

Hold(t, where, k) ==
    /\ pc' = [pc EXCEPT ![t] = where]
    /\ holder' = t
    /\ attempt' = [attempt EXCEPT ![t] = k]
    /\ result' = [result EXCEPT ![t] = "none"]

Queue(t, op, free, q) ==
    /\ pc' = [pc EXCEPT ![t] = op]
    /\ holder' = free
    /\ waiters' = Append(q, t)
    /\ attempt' = [attempt EXCEPT ![t] = 0]
    /\ result' = [result EXCEPT ![t] = "none"]

Leave(t, r) ==
    /\ pc' = [pc EXCEPT ![t] = "idle"]
    /\ holder' = NoTask
    /\ attempt' = [attempt EXCEPT ![t] = 0]
    /\ result' = [result EXCEPT ![t] = r]

(* The effect of transport.close(): the session ends.                      *)
Close == link' = "closed" /\ tainted' = FALSE

(* transport.connect() ends before it has a session.  It may leave its     *)
(* pymodbus client behind, which then goes on dialling by itself.          *)
DialEnds == link' \in {"closed", "lost"}

-----------------------------------------------------------------------------
(* _retry_command.  An attempt that fails in transport marks the session   *)
(* suspect and, unless it was the last, closes it and opens another.       *)

RetriesForEver(t, k) ==      \* mutant: the last attempt is not the last
    suspect' = TRUE /\ Hold(t, "reconnecting", k) /\ Close
KeepsTheSession(t, k) ==     \* mutant: retries without _try_reconnect()
    /\ suspect' = TRUE
    /\ tainted' = TRUE
    /\ UNCHANGED link
    /\ IF k + 1 = MaxRetries THEN Leave(t, "transport") ELSE Hold(t, "sleeping", k)
RaisesFirst(t, k) ==         \* mutant: the last attempt raises before it sets suspect
    \/ /\ k + 1 = MaxRetries
       /\ Leave(t, "transport")
       /\ tainted' = TRUE
       /\ UNCHANGED <<link, suspect>>
    \/ k + 1 < MaxRetries /\ suspect' = TRUE /\ Hold(t, "reconnecting", k) /\ Close

AttemptFails(t, k) ==
    /\ suspect' = TRUE
    /\ \/ k + 1 = MaxRetries /\ Leave(t, "transport") /\ tainted' = TRUE /\ UNCHANGED link
       \/ k + 1 < MaxRetries /\ Hold(t, "reconnecting", k) /\ Close

(* command() starts with _require_client(), which raises if not connected. *)
StartAttempt(t, k) ==
    \/ Connected /\ Hold(t, "io", k) /\ UNCHANGED <<link, suspect, tainted>>
    \/ ~Connected /\ AttemptFails(t, k)

(* The step after _ensure_connected() has returned: async with self._lock  *)
(* again, behind the tasks that queued for it meanwhile.                   *)
ThenRetry(t, q) ==
    \/ q = <<>> /\ StartAttempt(t, 0) /\ waiters' = q
    \/ q # <<>> /\ Queue(t, "retry", NoTask, q) /\ UNCHANGED <<link, suspect, tainted>>

-----------------------------------------------------------------------------
(* The body of each async with self._lock, entered with q still queued.    *)

EnterEnsure(t, q) ==
    \/ /\ suspect \/ ~Connected
       /\ Close
       /\ suspect' = FALSE
       /\ Hold(t, "ensure_connecting", 0)
       /\ waiters' = q
    \/ ~suspect /\ Connected /\ ThenRetry(t, q)

EnterRetry(t, q) == StartAttempt(t, 0) /\ waiters' = q

EnterConnect(t, q) ==
    /\ waiters' = q
    /\ UNCHANGED suspect
    /\ \/ Connected /\ Leave(t, "ok") /\ UNCHANGED <<link, tainted>>
       \/ ~Connected /\ Hold(t, "connecting", 0) /\ Close

EnterDisconnect(t, q) ==
    /\ waiters' = q
    /\ UNCHANGED suspect
    /\ Close
    /\ Leave(t, "ok")

EnterForce(t, q) ==
    /\ waiters' = q
    /\ suspect' = FALSE
    /\ Close
    /\ Hold(t, "connecting", 0)

Enter(t, op, q) ==
    \/ op = "ensure" /\ EnterEnsure(t, q)
    \/ op = "retry" /\ EnterRetry(t, q)
    \/ op = "connect" /\ EnterConnect(t, q)
    \/ op = "disconnect" /\ EnterDisconnect(t, q)
    \/ op = "force" /\ EnterForce(t, q)

EnterUnlocked(t, op) ==      \* mutant: the lock is not taken
    Enter(t, op, waiters)

(* asyncio.Lock.acquire(): immediate if the lock is free and nobody waits. *)
Acquire(t, op) ==
    \/ holder = NoTask /\ waiters = <<>> /\ Enter(t, op, waiters)
    \/ ~(holder = NoTask /\ waiters = <<>>)
       /\ Queue(t, op, holder, waiters) /\ UNCHANGED <<link, suspect, tainted>>

(* The lock is free and its first waiter runs.                             *)
Granted(t) ==
    /\ holder = NoTask
    /\ waiters # <<>>
    /\ Head(waiters) = t
    /\ Enter(t, pc[t], Tail(waiters))
    /\ UNCHANGED <<net, born>>

-----------------------------------------------------------------------------
(* The public calls.  A read or a write takes the lock-free fast path of   *)
(* _ensure_connected() when the link looks up and is not suspect.          *)

Begin(t) ==
    /\ pc[t] = "idle"
    /\ born' = [born EXCEPT ![t] = net = "healthy"]
    /\ UNCHANGED net

Request(t) ==
    /\ Begin(t)
    /\ \/ Connected /\ ~suspect /\ Acquire(t, "retry")
       \/ ~(Connected /\ ~suspect) /\ Acquire(t, "ensure")
Connect(t) == Begin(t) /\ Acquire(t, "connect")

DisconnectUnlocked(t) ==     \* mutant: disconnect() closes without the lock
    /\ Begin(t)
    /\ Close
    /\ UNCHANGED <<pc, holder, waiters, suspect, attempt, result>>
Disconnect(t) == Begin(t) /\ Acquire(t, "disconnect")

ForceReconnect(t) == Begin(t) /\ Acquire(t, "force")

-----------------------------------------------------------------------------
(* The awaits reached with the lock held.                                  *)

(* _ensure_connected(): transport.connect() has returned.                  *)
EnsureConnects(t) ==
    /\ pc[t] = "ensure_connecting"
    /\ link' = "open"
    /\ UNCHANGED <<suspect, tainted, net, born>>
    /\ \/ waiters = <<>> /\ Hold(t, "io", 0) /\ UNCHANGED waiters
       \/ waiters # <<>> /\ Queue(t, "retry", NoTask, waiters)

(* connect() and force_reconnect(): transport.connect() has returned.      *)
ConnectSucceeds(t) ==
    /\ pc[t] = "connecting"
    /\ link' = "open"
    /\ Leave(t, "ok")
    /\ UNCHANGED <<waiters, suspect, tainted, net, born>>

(* transport.connect() has raised, outside the retry loop.                 *)
ConnectRaises(t) ==
    /\ pc[t] \in Connecting
    /\ net = "flaky"
    /\ DialEnds
    /\ Leave(t, "transport")
    /\ UNCHANGED <<waiters, suspect, tainted, net, born>>

(* _try_reconnect() has opened a session: suspect stays set until an I/O.  *)
ReconnectSucceeds(t) ==
    /\ pc[t] = "reconnecting"
    /\ link' = "open"
    /\ Hold(t, "sleeping", attempt[t])
    /\ UNCHANGED <<waiters, suspect, tainted, net, born>>

(* _try_reconnect() swallows IdmConnectionError ...                        *)
ReconnectRefused(t) ==
    /\ pc[t] = "reconnecting"
    /\ net = "flaky"
    /\ Hold(t, "sleeping", attempt[t])
    /\ UNCHANGED <<waiters, link, suspect, tainted, net, born>>

(* ... and nothing else: an OSError leaves the retry loop at once.         *)
ReconnectEscapes(t) ==
    /\ pc[t] = "reconnecting"
    /\ net = "flaky"
    /\ DialEnds
    /\ Leave(t, "transport")
    /\ UNCHANGED <<waiters, suspect, tainted, net, born>>

(* asyncio.sleep() between two attempts is over.                           *)
Wake(t) ==
    /\ pc[t] = "sleeping"
    /\ StartAttempt(t, attempt[t] + 1)
    /\ UNCHANGED <<waiters, net, born>>

Answered(t) ==
    /\ pc[t] = "io"
    /\ link = "open"
    /\ suspect' = FALSE
    /\ tainted' = FALSE
    /\ Leave(t, "ok")
    /\ UNCHANGED <<waiters, link, net, born>>

(* Illegal Data Address is permanent: raised at once.                      *)
IllegalAddress(t) ==
    /\ pc[t] = "io"
    /\ link = "open"
    /\ tainted' = FALSE
    /\ Leave(t, "device")
    /\ UNCHANGED <<waiters, link, suspect, net, born>>

(* Any other answer that is an error is retried on the same session.       *)
DeviceError(t) ==
    /\ pc[t] = "io"
    /\ link = "open"
    /\ tainted' = FALSE
    /\ \/ attempt[t] + 1 = MaxRetries /\ Leave(t, "device")
       \/ attempt[t] + 1 < MaxRetries /\ Hold(t, "sleeping", attempt[t])
    /\ UNCHANGED <<waiters, link, suspect, net, born>>

TransportError(t) ==
    /\ pc[t] = "io"
    /\ link = "open" => net = "flaky"
    /\ AttemptFails(t, attempt[t])
    /\ UNCHANGED <<waiters, net, born>>

(* The task is cancelled at any of its awaits; async with gives the lock   *)
(* up, or takes the task out of the lock's queue.                          *)
CancelInside(t) ==
    /\ pc[t] \in Inside
    /\ IF pc[t] \in Dialling THEN DialEnds ELSE UNCHANGED link
    /\ Leave(t, "cancelled")
    /\ UNCHANGED <<waiters, suspect, tainted, net, born>>

CancelLeavesQueue(t) ==      \* mutant: a cancelled waiter stays queued
    /\ pc[t] \in Waiting
    /\ pc' = [pc EXCEPT ![t] = "idle"]
    /\ attempt' = [attempt EXCEPT ![t] = 0]
    /\ result' = [result EXCEPT ![t] = "cancelled"]
    /\ UNCHANGED <<holder, waiters, link, suspect, tainted, net, born>>

CancelWaiting(t) ==
    \E i \in 1 .. Len(waiters) :
        /\ pc[t] \in Waiting /\ waiters[i] = t
        /\ waiters' = [j \in 1 .. Len(waiters) - 1 |->
                          IF j < i THEN waiters[j] ELSE waiters[j + 1]]
        /\ pc' = [pc EXCEPT ![t] = "idle"]
        /\ attempt' = [attempt EXCEPT ![t] = 0]
        /\ result' = [result EXCEPT ![t] = "cancelled"]
        /\ UNCHANGED <<holder, link, suspect, tainted, net, born>>

-----------------------------------------------------------------------------
(* The network, the controller and pymodbus.                               *)

PeerVanishes ==
    /\ net = "flaky" /\ link = "open" /\ link' = "stale"
    /\ UNCHANGED <<pc, holder, waiters, suspect, attempt, result, tainted, net, born>>

LossNoticed ==
    /\ link = "stale" \/ (link = "open" /\ net = "flaky")
    /\ link' = "lost"
    /\ UNCHANGED <<pc, holder, waiters, suspect, attempt, result, tainted, net, born>>

(* pymodbus's own reconnect task (reconnect_delay) opens a new session.    *)
AutoReconnect ==
    /\ link = "lost"
    /\ link' = "open"
    /\ tainted' = FALSE
    /\ UNCHANGED <<pc, holder, waiters, suspect, attempt, result, net, born>>

Heal ==
    /\ net = "flaky"
    /\ net' = "healthy"
    /\ UNCHANGED <<pc, holder, waiters, link, suspect, attempt, result, tainted, born>>

Call(t) == Request(t) \/ Connect(t) \/ Disconnect(t) \/ ForceReconnect(t)

Progress(t) ==
    \/ Granted(t)
    \/ EnsureConnects(t) \/ ConnectSucceeds(t) \/ ConnectRaises(t)
    \/ ReconnectSucceeds(t) \/ ReconnectRefused(t) \/ ReconnectEscapes(t)
    \/ Wake(t)
    \/ Answered(t) \/ IllegalAddress(t) \/ DeviceError(t) \/ TransportError(t)

Cancel(t) == CancelInside(t) \/ CancelWaiting(t)

Environment == PeerVanishes \/ LossNoticed \/ AutoReconnect \/ Heal

Next ==
    \/ \E t \in Task : Call(t) \/ Progress(t) \/ Cancel(t)
    \/ Environment

Spec == Init /\ [][Next]_vars

(* The loop runs every task that is ready, the lock is granted in order,   *)
(* and each await ends: requests and connects have a timeout.  Nobody has  *)
(* to call the client, to cancel a task, or to repair the network.         *)
Fairness == \A t \in Task : WF_vars(Progress(t))

FairSpec == Spec /\ Fairness

-----------------------------------------------------------------------------
(* A task past the lock is its only holder: no two commands, and no        *)
(* command and a connect, close or reconnect, ever overlap on the wire.    *)
LockInv == \A t \in Task : pc[t] \in Inside <=> holder = t

(* A lost request is not forgotten: until the session has answered or been *)
(* replaced, no command passes the check of the connection, and none sends *)
(* an attempt on that session, be it fresh from _ensure_connected(), from  *)
(* a reconnect or from a back-off.  The exception is a command that had    *)
(* passed the check before the loss and was queued for the lock ("retry"): *)
(* _retry_command does not look at the flag again, so its first attempt    *)
(* goes out on the session it was promised.                                *)
LossIsNotForgotten ==
    [][\A t \in Task :
          pc'[t] \in {"retry", "io"} /\ pc[t] \notin {"retry", "io"} => ~tainted']_vars

(* No attempt after the first goes out on a session that lost a request:   *)
(* the retry loop's reconnect always comes in between, whatever the other  *)
(* tasks, pymodbus's own reconnect and the network do.                     *)
RetryOnFreshSession ==
    \A t \in Task : pc[t] = "io" /\ attempt[t] > 0 => ~tainted

(* A call begun once the network is healthy never fails for the link that  *)
(* an earlier failure left behind: the first attempt may be lost on a      *)
(* stale session, the second is not (needs max_retries >= 2).              *)
HealthyCallsSucceed ==
    MaxRetries >= 2 => \A t \in Task : born[t] => result[t] # "transport"

(* Every call ends: the lock is always given up and always handed on.      *)
EveryCallReturns == \A t \in Task : pc[t] # "idle" ~> pc[t] = "idle"

-----------------------------------------------------------------------------
(* The refinement: a task is on the wire while its command awaits the      *)
(* controller; its attempts are those its retry loop has begun.            *)
Phase == [t \in Task |->
    IF pc[t] = "io" THEN "wire" ELSE IF pc[t] = "idle" THEN "idle" ELSE "pending"]
Spent == [t \in Task |-> IF pc[t] \in Looping THEN attempt[t] + 1 ELSE 0]

Serial == INSTANCE SerialLink WITH phase <- Phase, spent <- Spent

(* The core implements the abstract link: one request on the wire at any   *)
(* time, and at most max_retries of them for one call.                     *)
SerialSpec == Serial!Spec

(* The client keeps to the transport's contract: no request without a      *)
(* session that looks up, no connect on top of one, and nobody closes the  *)
(* session under a request (connect, disconnect, force_reconnect,          *)
(* _try_reconnect, _require_client).                                       *)
Busy == IF \E t \in Task : pc[t] = "io" THEN "request"
        ELSE IF \E t \in Task : pc[t] \in Dialling THEN "connect"
        ELSE "no"

Contract == INSTANCE TransportLink WITH busy <- Busy

ContractSpec == Contract!Spec
=============================================================================
