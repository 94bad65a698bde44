--------------------------- MODULE Nav10Web_proofs ---------------------------
(***************************************************************************)
(* Proofs about Nav10Web, for any number of tasks, any calls, reconnect    *)
(* attempts, cancellations and names of websockets.                        *)
(***************************************************************************)
EXTENDS Nav10Web, TLAPS

(* A call that no lock shows: what a task may be suspended at, by call c,  *)
(* attempt k, websocket s and continuation n.                              *)
Fit(c, w, k, s, n) ==
    /\ w \in OnWire <=> s # NoSock
    /\ w \in Closing <=> n # "none"
    /\ w \in {"idle", "pausing"} \cup Waiting => k = 0
    /\ w = "sleeping" \/ n \in {"next", "dial"} => k > 0
    /\ c = "close" => w \in Closing \cup {"idle"}
    /\ n # "none" => (c = "close" <=> n = "done")
    /\ c # "read" => k = 0 /\ w # "pausing"
    /\ c = "connect" => w \notin {"receiving", "lock_send"}

Settled(t) == Fit(call[t], pc[t], try[t], on[t], then[t])

SaveInv(t) == call[t] = "save" /\ pc[t] = "receiving" => sent[t] <= 1

(* Only a read has sections left to ask for.                               *)
LeftInv(t) == call[t] \in {"connect", "save"} => left[t] = 0

(* An answer on its way is the answer to the request that waits for it,    *)
(* and where none waits there is none.                                     *)
AnswerInv ==
    ~skewed =>
        /\ \A t \in Task : pc[t] = "receiving" =>
              /\ Len(sock[on[t]].inbox) <= 1
              /\ \A i \in DOMAIN sock[on[t]].inbox : sock[on[t]].inbox[i].by = t
        /\ ws # NoSock /\ (\A t \in Task : pc[t] = "receiving" => on[t] # ws)
              => sock[ws].inbox = <<>>

(* An open websocket belongs to the session that self._session names, a    *)
(* session that is being closed to the task that closes it; and while no   *)
(* connect() begins during a close(), a session found open by a close() is *)
(* closed by it.                                                           *)
SessionInv ==
    /\ session = "external" <=> ExternalSession
    /\ session = "external" => \A t \in Task : pc[t] # "closing_session"
    /\ session = "closing" => \E t \in Task : pc[t] = "closing_session"
    /\ session # "external" =>
          \A s \in Sock : sock[s].state = "open" => session = "own" \/ orphaned
    /\ ~torn =>
          /\ ~orphaned
          /\ \A t \in Task : call[t] = "close" /\ pc[t] # "idle" => closed
          /\ session = "own" => \A t \in Task : pc[t] # "closing_session"
          /\ closed /\ session = "own" =>
                \E t \in Task : call[t] = "close" /\ pc[t] = "closing_ws"

IInv ==
    /\ TypeOK
    /\ LockInv
    /\ \A t \in Task : Settled(t) /\ SaveInv(t) /\ LeftInv(t)
    /\ AnswerInv
    /\ SessionInv

-----------------------------------------------------------------------------
(* What a step of one task does to it.  Every operator that a step is      *)
(* built from is reduced to these: where the task lands and what it did to *)
(* the lock, and what it did to the websocket and the session.             *)

PCs == {"idle", "pausing"} \cup Waiting \cup Closing \cup Inside
Thens == {"none", "raise", "next", "dial", "done"}
Results == {"none", "ok", "rejected", "failed", "cancelled"}

(* Task t may run: it has the lock or the lock is free, unless it closes.  *)
May(t) ==
    /\ call' \in [Task -> CallKinds]
    /\ \A u \in Task \ {t} : call'[u] = call[u]
    /\ IF call'[t] = "close" THEN holder # t ELSE holder \in {NoTask, t}

Landed(t) ==
    /\ pc' \in [Task -> PCs]
    /\ try' \in [Task -> 0 .. MaxReconnect]
    /\ then' \in [Task -> Thens]
    /\ on' \in [Task -> Sock \cup {NoSock}]
    /\ result' \in [Task -> Results]
    /\ holder' \in Task \cup {NoTask}
    /\ \A u \in Task \ {t} :
          pc'[u] = pc[u] /\ try'[u] = try[u] /\ then'[u] = then[u] /\ on'[u] = on[u]
    /\ Settled(t)'
    /\ PastLock(t)' <=> holder' = t
    /\ holder' = holder \/ (holder \in {NoTask, t} /\ holder' \in {NoTask, t})

AllShut == [s \in Sock |-> Empty("shut")]

SessionGoes(t) ==
    /\ UNCHANGED orphaned
    /\ \/ /\ session \in {"none", "external"}
          /\ UNCHANGED <<session, sock>>
          /\ pc'[t] # "closing_session"
       \/ /\ session \in {"own", "closing"}
          /\ sock' = AllShut
          /\ \/ session' = "none" /\ pc'[t] # "closing_session"
             \/ session = "own" /\ session' = "closing" /\ pc'[t] = "closing_session"

(* CloseUnlocked, NextAttempt and RequestFails.                            *)
Shuts(t) ==
    \/ /\ Usable
       /\ sock' = [sock EXCEPT ![ws] = Empty("shut")]
       /\ pc'[t] = "closing_ws"
       /\ UNCHANGED <<ws, session, orphaned>>
    \/ /\ ~Usable
       /\ ws' = NoSock
       /\ pc'[t] # "closing_ws"
       /\ SessionGoes(t)

Stays == UNCHANGED <<ws, sock, session, orphaned>>

GivesUp(t, k) == Stays /\ pc'[t] = "idle" /\ (closed' \/ k = MaxReconnect)

Sends(t) ==
    /\ Usable
    /\ pc'[t] = "receiving"
    /\ on'[t] = ws
    /\ UNCHANGED <<ws, session, orphaned>>
    /\ \/ sock[ws].state = "lost" /\ UNCHANGED sock
       \/ \E m \in Reply : m.by = t /\ sock' = [sock EXCEPT ![ws].inbox = Append(@, m)]

Dials(t) ==
    /\ ~closed'
    /\ pc'[t] = "dialing"
    /\ ws' = NoSock
    /\ session' = IF session = "none" THEN "own" ELSE session
    /\ UNCHANGED <<sock, orphaned>>

(* One of these, by a step that is not the end of a close or of a dial.    *)
Moves(t) ==
    \/ Shuts(t) /\ pc'[t] \in {"idle", "sleeping"} \cup Closing
    \/ Stays /\ pc'[t] \in {"idle", "lock_send", "lock_connect", "pausing"}
    \/ Sends(t) \/ Dials(t)

SentKept(t) ==
    /\ sent' \in [Task -> Nat]
    /\ \A u \in Task \ {t} : sent'[u] = sent[u]
    /\ SaveInv(t)'

-----------------------------------------------------------------------------
(* Landings.                                                               *)

LEMMA SuspendLands ==
  ASSUME TypeOK, NEW t \in Task, May(t),
         NEW w \in Closing \cup Inside, NEW k \in 0 .. MaxReconnect,
         NEW s \in Sock \cup {NoSock}, NEW n \in Thens,
         Fit(call'[t], w, k, s, n), Suspend(t, w, k, s, n)
  PROVE  Landed(t) /\ pc'[t] = w /\ on'[t] = s
<1>1. /\ pc' = [pc EXCEPT ![t] = w] /\ try' = [try EXCEPT ![t] = k]
      /\ then' = [then EXCEPT ![t] = n] /\ on' = [on EXCEPT ![t] = s]
      /\ result' = [result EXCEPT ![t] = "none"]
      /\ holder' = IF call'[t] = "close" THEN holder ELSE t
    BY DEF Suspend, Locked
<1>2. /\ pc' \in [Task -> PCs] /\ try' \in [Task -> 0 .. MaxReconnect]
      /\ then' \in [Task -> Thens] /\ on' \in [Task -> Sock \cup {NoSock}]
      /\ result' \in [Task -> Results] /\ holder' \in Task \cup {NoTask}
    BY <1>1 DEF TypeOK, PCs, Thens, Results
<1>3. /\ pc'[t] = w /\ try'[t] = k /\ then'[t] = n /\ on'[t] = s
      /\ \A u \in Task \ {t} :
            pc'[u] = pc[u] /\ try'[u] = try[u] /\ then'[u] = then[u] /\ on'[u] = on[u]
    BY <1>1 DEF TypeOK
<1>4. Settled(t)'
    BY <1>3 DEF Settled
<1>5. PastLock(t)' <=> holder' = t
    BY <1>1, <1>3 DEF PastLock, May, Fit, Inside, OnWire, Closing
<1>6. holder' = holder \/ (holder \in {NoTask, t} /\ holder' \in {NoTask, t})
    BY <1>1 DEF May
<1> QED BY <1>2, <1>3, <1>4, <1>5, <1>6 DEF Landed

LEMMA LeaveLands ==
  ASSUME TypeOK, NEW t \in Task, May(t), NEW r \in Results, Leave(t, r)
  PROVE  Landed(t) /\ pc'[t] = "idle"
<1>1. /\ pc' = [pc EXCEPT ![t] = "idle"] /\ try' = [try EXCEPT ![t] = 0]
      /\ then' = [then EXCEPT ![t] = "none"] /\ on' = [on EXCEPT ![t] = NoSock]
      /\ result' = [result EXCEPT ![t] = r]
      /\ holder' = IF call'[t] = "close" THEN holder ELSE NoTask
    BY DEF Leave, Locked
<1>2. /\ pc' \in [Task -> PCs] /\ then' \in [Task -> Thens]
      /\ on' \in [Task -> Sock \cup {NoSock}]
      /\ result' \in [Task -> Results] /\ holder' \in Task \cup {NoTask}
    BY <1>1 DEF TypeOK, PCs, Thens, Results
<1>3. try' \in [Task -> 0 .. MaxReconnect]
    BY <1>1, Nav10Assumption DEF TypeOK
<1>4. /\ pc'[t] = "idle" /\ try'[t] = 0 /\ then'[t] = "none" /\ on'[t] = NoSock
      /\ \A u \in Task \ {t} :
            pc'[u] = pc[u] /\ try'[u] = try[u] /\ then'[u] = then[u] /\ on'[u] = on[u]
    BY <1>1 DEF TypeOK
<1>5. Settled(t)'
    BY <1>4 DEF Settled, Fit, OnWire, Closing
<1>6. PastLock(t)' <=> holder' = t
    BY <1>1, <1>4, Nav10Assumption DEF PastLock, May, Inside, OnWire, Closing
<1>7. holder' = holder \/ (holder \in {NoTask, t} /\ holder' \in {NoTask, t})
    BY <1>1 DEF May
<1> QED BY <1>2, <1>3, <1>4, <1>5, <1>6, <1>7 DEF Landed

(* What follows a _close_unlocked() fits the call.                         *)
Follows(c, n, k) ==
    /\ n \in Thens \ {"none"}
    /\ k \in 0 .. MaxReconnect
    /\ c = "close" <=> n = "done"
    /\ c # "read" => k = 0
    /\ n \in {"next", "dial"} => k > 0

LEMMA AfterCloseLands ==
  ASSUME TypeOK, NEW t \in Task, May(t), NEW n, NEW k, Follows(call'[t], n, k),
         AfterClose(t, n, k)
  PROVE  Landed(t) /\ pc'[t] \in {"idle", "sleeping"}
<1>1. CASE \E r \in {"ok", "failed"} : Leave(t, r)
    BY <1>1, LeaveLands DEF Results
<1>2. CASE n = "dial" /\ Suspend(t, "sleeping", k, NoSock, "none")
    <2>1. Fit(call'[t], "sleeping", k, NoSock, "none")
        BY <1>2 DEF Fit, Follows, OnWire, Closing, Waiting
    <2> QED BY <1>2, <2>1, SuspendLands DEF Follows, Inside, Thens
<1>3. CASE n = "next" /\ k < MaxReconnect /\ Suspend(t, "sleeping", k + 1, NoSock, "none")
    <2>1. k + 1 \in 0 .. MaxReconnect /\ k + 1 > 0
        BY <1>3, Nav10Assumption DEF Follows
    <2>2. Fit(call'[t], "sleeping", k + 1, NoSock, "none")
        BY <1>3, <2>1 DEF Fit, Follows, OnWire, Closing, Waiting
    <2> QED BY <1>3, <2>1, <2>2, SuspendLands DEF Inside, Thens
<1> QED BY <1>1, <1>2, <1>3 DEF AfterClose

LEMMA CloseSessionLands ==
  ASSUME TypeOK, NEW t \in Task, May(t), NEW n, NEW k, Follows(call'[t], n, k),
         CloseSession(t, n, k, sock)
  PROVE  Landed(t) /\ pc'[t] \in {"idle", "sleeping", "closing_session"} /\ SessionGoes(t)
<1>1. CASE AfterClose(t, n, k)
    <2>1. Landed(t) /\ pc'[t] \in {"idle", "sleeping"}
        BY <1>1, AfterCloseLands
    <2>2. pc'[t] # "closing_session"
        BY <2>1
    <2>3. CASE Suspend(t, "closing_session", k, NoSock, n)
        <3>1. pc'[t] = "closing_session"
            BY <2>3 DEF Suspend, TypeOK
        <3> QED BY <2>2, <3>1
    <2> QED BY <2>1, <2>2, <2>3 DEF CloseSession, SessionGoes, AllShut
<1>2. CASE Suspend(t, "closing_session", k, NoSock, n) /\ session = "own"
    <2>1. Fit(call'[t], "closing_session", k, NoSock, n)
        BY <1>2 DEF Fit, Follows, OnWire, Closing, Waiting, Thens
    <2>2. Landed(t) /\ pc'[t] = "closing_session"
        BY <1>2, <2>1, SuspendLands DEF Follows, Closing
    <2>3. CASE AfterClose(t, n, k)
        BY <1>1, <2>3
    <2> QED BY <1>2, <2>2, <2>3 DEF CloseSession, SessionGoes, AllShut
<1> QED BY <1>1, <1>2 DEF CloseSession

LEMMA CloseUnlockedLands ==
  ASSUME TypeOK, NEW t \in Task, May(t), NEW n, NEW k, Follows(call'[t], n, k),
         CloseUnlocked(t, n, k)
  PROVE  Landed(t) /\ pc'[t] \in {"idle", "sleeping"} \cup Closing /\ Shuts(t)
<1>1. CASE Usable /\ Suspend(t, "closing_ws", k, NoSock, n)
    <2>1. Fit(call'[t], "closing_ws", k, NoSock, n)
        BY <1>1 DEF Fit, Follows, OnWire, Closing, Waiting, Thens
    <2>2. Landed(t) /\ pc'[t] = "closing_ws"
        BY <1>1, <2>1, SuspendLands DEF Follows, Closing
    <2> QED BY <1>1, <2>2 DEF CloseUnlocked, Shuts, Closing
<1>2. CASE ~Usable /\ CloseSession(t, n, k, sock)
    <2>1. Landed(t) /\ pc'[t] \in {"idle", "sleeping", "closing_session"} /\ SessionGoes(t)
        BY <1>2, CloseSessionLands
    <2> QED BY <1>2, <2>1 DEF CloseUnlocked, Shuts, Closing
<1> QED BY <1>1, <1>2 DEF CloseUnlocked

LEMMA NextAttemptLands ==
  ASSUME TypeOK, NEW t \in Task, May(t), call'[t] = "read",
         NEW k \in 0 .. MaxReconnect, NextAttempt(t, k + 1)
  PROVE  /\ Landed(t)
         /\ pc'[t] \in {"idle", "sleeping"} \cup Closing
         /\ Shuts(t) \/ GivesUp(t, k)
<1>0. k \in Nat /\ MaxReconnect \in Nat
    BY Nav10Assumption
<1>1. CASE (closed' \/ k + 1 > MaxReconnect) /\ Leave(t, "failed") /\ Stays
    <2>1. closed' \/ k = MaxReconnect
        BY <1>0, <1>1
    <2> QED BY <1>1, <2>1, LeaveLands DEF GivesUp, Results
<1>2. CASE k + 1 <= MaxReconnect /\ CloseUnlocked(t, "dial", k + 1)
    <2>1. Follows(call'[t], "dial", k + 1)
        BY <1>0, <1>2 DEF Follows, Thens
    <2> QED BY <1>2, <2>1, CloseUnlockedLands
<1> QED BY <1>1, <1>2 DEF NextAttempt, Stays

LEMMA RequestFailsLands ==
  ASSUME TypeOK, NEW t \in Task, May(t), call'[t] \in {"read", "save"},
         NEW k \in 0 .. MaxReconnect, call'[t] = "save" => k = 0, RequestFails(t, k)
  PROVE  /\ Landed(t)
         /\ pc'[t] \in {"idle", "sleeping"} \cup Closing
         /\ Shuts(t) \/ GivesUp(t, k)
<1>1. CASE Uncertain(t, k) /\ CloseUnlocked(t, "raise", k)
    <2>1. Follows(call'[t], "raise", k)
        BY <1>1 DEF Follows, Thens, Uncertain
    <2> QED BY <1>1, <2>1, CloseUnlockedLands
<1>2. CASE ~Uncertain(t, k) /\ NextAttempt(t, k + 1)
    <2>1. call'[t] = "read"
        BY <1>2 DEF Uncertain
    <2> QED BY <1>2, <2>1, NextAttemptLands
<1> QED BY <1>1, <1>2 DEF RequestFails

-----------------------------------------------------------------------------
(* A request, and the connect before it.                                   *)

LEMMA SendOnceLands ==
  ASSUME TypeOK, NEW t \in Task, May(t), call'[t] \in {"read", "save"},
         NEW k \in 0 .. MaxReconnect, call'[t] = "save" => k = 0, SendOnce(t, k)
  PROVE  Landed(t) /\ SentKept(t) /\ Moves(t)
<1>1. CASE ~Usable /\ RequestFails(t, k) /\ sent' = [sent EXCEPT ![t] = IF k = 0 THEN 0 ELSE @]
    <2>1. /\ Landed(t)
          /\ pc'[t] \in {"idle", "sleeping"} \cup Closing
          /\ Shuts(t) \/ GivesUp(t, k)
        BY <1>1, RequestFailsLands
    <2>2. SentKept(t)
        <3>1. sent' \in [Task -> Nat] /\ \A u \in Task \ {t} : sent'[u] = sent[u]
            BY <1>1 DEF TypeOK
        <3> QED BY <2>1, <3>1 DEF SentKept, SaveInv, Closing
    <2> QED BY <2>1, <2>2 DEF Moves, GivesUp
<1>2. CASE Usable /\ Suspend(t, "receiving", k, ws, "none")
    <2>0. ws \in Sock
        BY <1>2 DEF Usable, TypeOK
    <2>1. Fit(call'[t], "receiving", k, ws, "none")
        BY <1>2 DEF Fit, Usable, OnWire, Closing, Waiting
    <2>2. Landed(t) /\ pc'[t] = "receiving" /\ on'[t] = ws
        BY <1>2, <2>0, <2>1, SuspendLands DEF Inside, OnWire, Thens
    <2>3. sent' = [sent EXCEPT ![t] = IF k = 0 THEN 1 ELSE @ + 1] \/ ~Usable
        BY <1>2 DEF SendOnce
    <2>4. SentKept(t)
        <3>1. sent' \in [Task -> Nat] /\ \A u \in Task \ {t} : sent'[u] = sent[u]
            BY <1>2, <2>3 DEF TypeOK
        <3>2. k = 0 => sent'[t] = 1
            BY <1>2, <2>3 DEF TypeOK
        <3> QED BY <3>1, <3>2 DEF SentKept, SaveInv
    <2>5. Sends(t)
        <3>1. UNCHANGED <<ws, session, orphaned>>
            BY <1>2 DEF SendOnce
        <3>2. CASE sock[ws].state = "lost" /\ UNCHANGED sock
            BY <1>2, <2>2, <3>1, <3>2 DEF Sends
        <3>3. CASE \E ok \in BOOLEAN :
                      sock' = [sock EXCEPT ![ws].inbox =
                                  Append(@, [by |-> t, kind |-> call'[t], ok |-> ok])]
            <4>1. PICK ok \in BOOLEAN :
                      sock' = [sock EXCEPT ![ws].inbox =
                                  Append(@, [by |-> t, kind |-> call'[t], ok |-> ok])]
                BY <3>3
            <4>2. [by |-> t, kind |-> call'[t], ok |-> ok] \in Reply
                BY DEF Reply
            <4> QED BY <1>2, <2>2, <3>1, <4>1, <4>2 DEF Sends
        <3> QED BY <1>2, <3>2, <3>3 DEF SendOnce
    <2> QED BY <2>2, <2>4, <2>5 DEF Moves
<1> QED BY <1>1, <1>2 DEF SendOnce

LEMMA AcquireForSendLands ==
  ASSUME TypeOK, NEW t \in Task, call'[t] \in {"read", "save"},
         call' \in [Task -> CallKinds], \A u \in Task \ {t} : call'[u] = call[u],
         try[t] = 0, then[t] = "none",
         NEW q \in Seq(Task), NEW free \in BOOLEAN,
         free => holder \in {NoTask, t}, ~free => holder # t,
         AcquireForSend(t, free, q)
  PROVE  Landed(t) /\ SentKept(t) /\ Moves(t) /\ waiters' \in Seq(Task)
<1>1. CASE free /\ SendOnce(t, 0) /\ waiters' = q
    <2>1. May(t) /\ 0 \in 0 .. MaxReconnect
        BY <1>1, Nav10Assumption DEF May
    <2> QED BY <1>1, <2>1, SendOnceLands
<1>2. CASE /\ pc' = [pc EXCEPT ![t] = "lock_send"]
           /\ on' = [on EXCEPT ![t] = NoSock]
           /\ result' = [result EXCEPT ![t] = "none"]
           /\ holder' = IF free THEN NoTask ELSE holder
           /\ waiters' = Append(q, t)
           /\ UNCHANGED <<try, then, sent, ws, sock, session, orphaned>>
    <2>1. /\ pc' \in [Task -> PCs] /\ try' \in [Task -> 0 .. MaxReconnect]
          /\ then' \in [Task -> Thens] /\ on' \in [Task -> Sock \cup {NoSock}]
          /\ result' \in [Task -> Results] /\ holder' \in Task \cup {NoTask}
          /\ waiters' \in Seq(Task) /\ sent' \in [Task -> Nat]
        BY <1>2 DEF TypeOK, PCs, Thens, Results, Waiting
    <2>2. /\ pc'[t] = "lock_send" /\ try'[t] = 0 /\ then'[t] = "none" /\ on'[t] = NoSock
          /\ \A u \in Task \ {t} :
                pc'[u] = pc[u] /\ try'[u] = try[u] /\ then'[u] = then[u] /\ on'[u] = on[u]
        BY <1>2 DEF TypeOK
    <2>3. Settled(t)'
        BY <2>2 DEF Settled, Fit, OnWire, Closing, Waiting
    <2>4. PastLock(t)' <=> holder' = t
        BY <1>2, <2>2, Nav10Assumption DEF PastLock, Inside, OnWire, Closing
    <2>5. Landed(t)
        BY <1>2, <2>1, <2>2, <2>3, <2>4 DEF Landed
    <2>6. SentKept(t) /\ Moves(t)
        BY <1>2, <2>1, <2>2 DEF SentKept, SaveInv, Moves, Stays
    <2> QED BY <2>1, <2>5, <2>6
<1> QED BY <1>1, <1>2 DEF AcquireForSend

LEMMA ConnectReturnsLands ==
  ASSUME TypeOK, NEW t \in Task, May(t), call'[t] # "close",
         NEW k \in 0 .. MaxReconnect, call'[t] # "read" => k = 0,
         k = 0 => try[t] = 0 /\ then[t] = "none",
         NEW q \in Seq(Task), ConnectReturns(t, k, q)
  PROVE  Landed(t) /\ SentKept(t) /\ Moves(t) /\ waiters' \in Seq(Task)
<1>0. call'[t] \in CallKinds
    BY DEF May
<1>1. CASE k > 0 /\ SendOnce(t, k) /\ waiters' = q
    BY <1>1, SendOnceLands
<1>2. CASE Leave(t, "ok") /\ waiters' = q /\ UNCHANGED <<sent, ws, sock, session, orphaned>>
    <2>1. Landed(t) /\ pc'[t] = "idle"
        BY <1>2, LeaveLands DEF Results
    <2>2. SentKept(t)
        BY <1>2, <2>1 DEF SentKept, SaveInv, TypeOK
    <2> QED BY <1>2, <2>1, <2>2 DEF Moves, Stays
<1>3. CASE k = 0 /\ call'[t] # "connect" /\ AcquireForSend(t, TRUE, q)
    <2>1. PICK free \in BOOLEAN : free /\ AcquireForSend(t, free, q)
        BY <1>3
    <2> QED BY <1>0, <1>3, <2>1, AcquireForSendLands DEF May, CallKinds
<1> QED BY <1>1, <1>2, <1>3 DEF ConnectReturns

LEMMA ConnectLands ==
  ASSUME TypeOK, NEW t \in Task, May(t), call'[t] # "close",
         NEW k \in 0 .. MaxReconnect, call'[t] # "read" => k = 0,
         k = 0 => try[t] = 0 /\ then[t] = "none" /\ ~closed',
         pc[t] # "receiving",
         NEW q \in Seq(Task), Connect(t, k, q)
  PROVE  Landed(t) /\ SentKept(t) /\ Moves(t) /\ waiters' \in Seq(Task)
<1>1. CASE ConnectReturns(t, k, q)
    BY <1>1, ConnectReturnsLands
<1>2. CASE waiters' = q /\ UNCHANGED sent /\ closed' /\ NextAttempt(t, k + 1)
    <2>1. call'[t] = "read"
        BY <1>2
    <2>2. /\ Landed(t)
          /\ pc'[t] \in {"idle", "sleeping"} \cup Closing
          /\ Shuts(t) \/ GivesUp(t, k)
        BY <1>2, <2>1, NextAttemptLands
    <2>3. SentKept(t)
        BY <1>2, <2>2 DEF SentKept, SaveInv, TypeOK, Closing
    <2> QED BY <1>2, <2>2, <2>3 DEF Moves, GivesUp
<1>3. CASE waiters' = q /\ UNCHANGED sent /\ ~closed' /\ Dial(t, k)
    <2>1. Fit(call'[t], "dialing", k, NoSock, "none")
        BY DEF Fit, OnWire, Closing, Waiting
    <2>2. Landed(t) /\ pc'[t] = "dialing"
        BY <1>3, <2>1, SuspendLands DEF Dial, Inside, Thens
    <2>3. SentKept(t)
        BY <1>3, <2>2 DEF SentKept, SaveInv, TypeOK
    <2>4. Dials(t)
        BY <1>3, <2>2 DEF Dial, Dials
    <2> QED BY <1>3, <2>2, <2>3, <2>4 DEF Moves
<1> QED BY <1>1, <1>2, <1>3 DEF Connect

(* connect() puts closed down; it is torn if it begins during a close().   *)
Opens == /\ closed' = FALSE
         /\ torn' = (torn \/ \E u \in Task : call[u] = "close" /\ pc[u] # "idle")

LEMMA EnterConnectLands ==
  ASSUME TypeOK, NEW t \in Task, May(t), call'[t] # "close",
         try[t] = 0, then[t] = "none", pc[t] # "receiving",
         NEW q \in Seq(Task), EnterConnect(t, q)
  PROVE  Landed(t) /\ SentKept(t) /\ Moves(t) /\ waiters' \in Seq(Task) /\ Opens
<1>1. 0 \in 0 .. MaxReconnect
    BY Nav10Assumption
<1>2. Opens /\ ~closed' /\ Connect(t, 0, q)
    BY DEF EnterConnect, Opens
<1> QED BY <1>1, <1>2, ConnectLands

-----------------------------------------------------------------------------
(* What a landing keeps, and what each move keeps.                         *)

LEMMA LockKept ==
  ASSUME LockInv, NEW t \in Task, Landed(t), \A u \in Task \ {t} : call'[u] = call[u]
  PROVE  LockInv'
<1>1. ASSUME NEW u \in Task PROVE PastLock(u)' <=> holder' = u
    <2>1. CASE u = t
        BY <2>1 DEF Landed
    <2>2. CASE u # t
        <3>1. PastLock(u)' <=> PastLock(u)
            BY <2>2 DEF PastLock, Landed
        <3>2. holder' = u <=> holder = u
            BY <2>2, Nav10Assumption DEF Landed
        <3> QED BY <3>1, <3>2 DEF LockInv
    <2> QED BY <2>1, <2>2
<1> QED BY <1>1 DEF LockInv

LEMMA StepCore ==
  ASSUME IInv, NEW t \in Task, Landed(t), SentKept(t),
         call' \in [Task -> CallKinds], \A u \in Task \ {t} : call'[u] = call[u],
         left' \in [Task -> 0 .. Sections - 1], \A u \in Task \ {t} : left'[u] = left[u],
         LeftInv(t)', waiters' \in Seq(Task),
         ws' \in Sock \cup {NoSock},
         sock' \in [Sock -> [state : SockStates, inbox : Seq(Reply)]],
         session' \in Sessions,
         closed' \in BOOLEAN, skewed' \in BOOLEAN, torn' \in BOOLEAN, orphaned' \in BOOLEAN,
         cancels' \in 0 .. MaxCancels,
         AnswerInv', SessionInv'
  PROVE  IInv'
<1>1. TypeOK'
    BY DEF Landed, SentKept, TypeOK, PCs, Thens, Results
<1>2. LockInv'
    BY LockKept DEF IInv
<1>3. ASSUME NEW u \in Task PROVE Settled(u)' /\ SaveInv(u)' /\ LeftInv(u)'
    <2>1. CASE u = t
        BY <2>1 DEF Landed, SentKept
    <2>2. CASE u # t
        BY <2>2 DEF IInv, Landed, SentKept, Settled, SaveInv, LeftInv
    <2> QED BY <2>1, <2>2
<1> QED BY <1>1, <1>2, <1>3 DEF IInv

LEMMA MovesTyped ==
  ASSUME TypeOK, NEW t \in Task, Moves(t)
  PROVE  /\ ws' \in Sock \cup {NoSock}
         /\ sock' \in [Sock -> [state : SockStates, inbox : Seq(Reply)]]
         /\ session' \in Sessions
         /\ orphaned' \in BOOLEAN
<1>1. CASE Stays
    BY <1>1 DEF Stays, TypeOK
<1>2. CASE Shuts(t)
    <2>1. Empty("shut") \in [state : SockStates, inbox : Seq(Reply)]
        BY DEF Empty, SockStates
    <2> QED BY <1>2, <2>1 DEF Shuts, SessionGoes, AllShut, Sessions, TypeOK
<1>3. CASE Sends(t)
    <2>1. ws \in Sock /\ sock[ws] \in [state : SockStates, inbox : Seq(Reply)]
        BY <1>3 DEF Sends, Usable, TypeOK
    <2>2. ASSUME NEW m \in Reply, sock' = [sock EXCEPT ![ws].inbox = Append(@, m)]
          PROVE  sock' \in [Sock -> [state : SockStates, inbox : Seq(Reply)]]
        <3>1. Append(sock[ws].inbox, m) \in Seq(Reply)
            BY <2>1
        <3>2. [sock[ws] EXCEPT !.inbox = Append(@, m)] \in [state : SockStates, inbox : Seq(Reply)]
            BY <2>1, <3>1
        <3>3. sock' = [sock EXCEPT ![ws] = [sock[ws] EXCEPT !.inbox = Append(@, m)]]
            BY <2>2, <2>1 DEF TypeOK
        <3> QED BY <2>1, <3>2, <3>3 DEF TypeOK
    <2> QED BY <1>3, <2>2 DEF Sends, TypeOK
<1>4. CASE Dials(t)
    BY <1>4 DEF Dials, Sessions, TypeOK
<1> QED BY <1>1, <1>2, <1>3, <1>4 DEF Moves

LEMMA AnswerMoves ==
  ASSUME IInv, NEW t \in Task, Landed(t), Moves(t),
         skewed => skewed', pc[t] = "receiving" => skewed' \/ Shuts(t)
  PROVE  AnswerInv'
<1> SUFFICES ASSUME ~skewed'
             PROVE  /\ \A u \in Task : pc'[u] = "receiving" =>
                          /\ Len(sock'[on'[u]].inbox) <= 1
                          /\ \A i \in DOMAIN sock'[on'[u]].inbox : sock'[on'[u]].inbox[i].by = u
                    /\ ws' # NoSock /\ (\A u \in Task : pc'[u] = "receiving" => on'[u] # ws')
                          => sock'[ws'].inbox = <<>>
    BY DEF AnswerInv
<1>0. /\ ~skewed /\ AnswerInv /\ TypeOK /\ LockInv
      /\ \A u \in Task \ {t} : pc'[u] = pc[u] /\ on'[u] = on[u]
      /\ \A u \in Task : pc[u] = "receiving" => on[u] \in Sock
    BY DEF IInv, Landed, Settled, Fit, OnWire, TypeOK
<1>1. CASE Stays /\ pc'[t] # "receiving" /\ pc[t] # "receiving"
    BY <1>0, <1>1 DEF Stays, AnswerInv
<1>2. CASE Shuts(t) /\ pc'[t] # "receiving"
    <2>1. \A s \in Sock : sock'[s] = sock[s] \/ sock'[s].inbox = <<>>
        BY <1>0, <1>2 DEF Shuts, SessionGoes, AllShut, Empty, TypeOK
    <2>2. ws' # NoSock => sock'[ws'].inbox = <<>>
        BY <1>0, <1>2 DEF Shuts, Usable, Empty, TypeOK
    <2>3. ASSUME NEW u \in Task, pc'[u] = "receiving"
          PROVE  /\ Len(sock'[on'[u]].inbox) <= 1
                 /\ \A i \in DOMAIN sock'[on'[u]].inbox : sock'[on'[u]].inbox[i].by = u
        <3>1. on[u] \in Sock /\ on'[u] = on[u] /\ pc[u] = "receiving"
            BY <1>0, <1>2, <2>3
        <3>2. CASE sock'[on[u]] = sock[on[u]]
            BY <1>0, <3>1, <3>2 DEF AnswerInv
        <3>3. CASE sock'[on[u]].inbox = <<>>
            BY <3>1, <3>3
        <3> QED BY <2>1, <3>1, <3>2, <3>3
    <2> QED BY <2>2, <2>3
<1>3. CASE Sends(t) /\ pc[t] # "receiving"
    <2>1. \A u \in Task : pc[u] # "receiving"
        <3>1. holder' = t
            BY <1>3 DEF Sends, Landed, PastLock, Inside, OnWire
        <3>2. holder \in {NoTask, t}
            BY <3>1 DEF Landed
        <3> QED BY <1>0, <1>3, <3>2, Nav10Assumption DEF LockInv, PastLock, Inside, OnWire
    <2>2. ws \in Sock /\ sock[ws].inbox = <<>> /\ sock[ws] \in [state : SockStates, inbox : Seq(Reply)]
        BY <1>0, <1>3, <2>1 DEF Sends, Usable, AnswerInv, TypeOK
    <2>3. /\ Len(sock'[ws].inbox) <= 1
          /\ \A i \in DOMAIN sock'[ws].inbox : sock'[ws].inbox[i].by = t
        <3>1. CASE UNCHANGED sock
            BY <2>2, <3>1
        <3>2. ASSUME NEW m \in Reply, m.by = t, sock' = [sock EXCEPT ![ws].inbox = Append(@, m)]
              PROVE  <2>3!1 /\ <2>3!2
            <4>1. sock' = [sock EXCEPT ![ws] = [sock[ws] EXCEPT !.inbox = Append(@, m)]]
                BY <1>0, <2>2, <3>2 DEF TypeOK
            <4>2. sock'[ws].inbox = Append(<<>>, m)
                BY <1>0, <2>2, <4>1 DEF TypeOK
            <4> DEFINE box == Append(<<>>, m)
            <4>3. Len(box) = 1 /\ box[1] = m /\ DOMAIN box = 1 .. 1
                OBVIOUS
            <4>4. Len(box) <= 1
                BY <4>3
            <4> HIDE DEF box
            <4>5. \A i \in DOMAIN box : box[i].by = t
                BY <3>2, <4>3
            <4> QED BY <4>2, <4>4, <4>5 DEF box
        <3> QED BY <1>3, <3>1, <3>2 DEF Sends
    <2> QED BY <1>0, <1>3, <2>1, <2>3 DEF Sends
<1>4. CASE Dials(t)
    BY <1>0, <1>4 DEF Dials, AnswerInv
<1>5. pc[t] = "receiving" => Shuts(t)
    OBVIOUS
<1>6. CASE Shuts(t) /\ ~(pc'[t] # "receiving")
    <2>1. CASE Stays
        BY <1>6, <2>1 DEF Shuts, Stays, Moves, Dials, Sends, Closing
    <2> QED BY <1>6, <2>1 DEF Moves, Closing, Dials, Sends, Shuts
<1> QED BY <1>1, <1>2, <1>3, <1>4, <1>5, <1>6 DEF Moves, Closing

(* What a step may do to closed and torn.                                  *)
Marks(t) ==
    \/ /\ UNCHANGED <<closed, torn>>
       /\ call'[t] = "close" => call[t] = "close" /\ pc[t] # "idle"
    \/ call'[t] # "close" /\ Opens
    \/ call'[t] = "close" /\ closed' = TRUE /\ UNCHANGED torn
    \/ UNCHANGED closed /\ torn' = TRUE

LEMMA TornLater ==
  ASSUME TypeOK, NEW t \in Task, Marks(t)
  PROVE  /\ closed' \in BOOLEAN
         /\ torn' \in BOOLEAN
         /\ torn => torn'
BY DEF TypeOK, Marks, Opens

(* Whoever is in close(), the client is closed, or a connect() began.      *)
LEMMA ClosesKept ==
  ASSUME IInv, NEW t \in Task, \A u \in Task \ {t} : call'[u] = call[u] /\ pc'[u] = pc[u],
         Marks(t), ~torn', NEW u \in Task, call'[u] = "close", pc'[u] # "idle"
  PROVE  closed'
<1>1. ~torn
    BY TornLater DEF IInv
<1>2. call[u] = "close" /\ pc[u] # "idle" => closed
    BY <1>1 DEF IInv, SessionInv
<1>3. CASE u = t
    BY <1>2, <1>3 DEF Marks
<1>4. CASE u # t
    <2>1. call[u] = "close" /\ pc[u] # "idle" /\ closed
        BY <1>2, <1>4
    <2>2. ~Opens
        BY <2>1 DEF Opens
    <2> QED BY <2>1, <2>2 DEF Marks
<1> QED BY <1>3, <1>4

(* Steps that open nothing and leave the session to whoever has it.        *)
LEMMA SessionLeft ==
  ASSUME IInv, NEW t \in Task, Landed(t), \A u \in Task \ {t} : call'[u] = call[u],
         Marks(t), UNCHANGED <<session, orphaned>>,
         \A s \in Sock : sock'[s].state = "open" =>
             sock[s].state = "open" \/ session \in {"own", "external"},
         pc[t] \notin Closing \/ (pc[t] = "closing_ws" /\ (call[t] = "close" => torn')),
         pc'[t] # "closing_session",
         call[t] # "close" \/ pc[t] = "idle" => (call'[t] = "close" => pc'[t] = "closing_ws")
  PROVE  SessionInv'
<1>1. \A u \in Task \ {t} : pc'[u] = pc[u] /\ call'[u] = call[u]
    BY DEF Landed
<1>2. \A u \in Task : pc'[u] = "closing_session" <=> pc[u] = "closing_session"
    BY <1>1 DEF Closing
<1>3. /\ session' = "external" <=> ExternalSession
      /\ session' = "external" => \A u \in Task : pc'[u] # "closing_session"
      /\ session' = "closing" => \E u \in Task : pc'[u] = "closing_session"
      /\ session' # "external" =>
            \A s \in Sock : sock'[s].state = "open" => session' = "own" \/ orphaned'
    BY <1>2 DEF IInv, SessionInv
<1>4. ASSUME ~torn'
      PROVE  /\ ~orphaned'
             /\ \A u \in Task : call'[u] = "close" /\ pc'[u] # "idle" => closed'
             /\ session' = "own" => \A u \in Task : pc'[u] # "closing_session"
             /\ closed' /\ session' = "own" =>
                   \E u \in Task : call'[u] = "close" /\ pc'[u] = "closing_ws"
    <2>1. ~torn
        BY <1>4, TornLater DEF IInv
    <2>2. \A u \in Task : call'[u] = "close" /\ pc'[u] # "idle" => closed'
        BY <1>1, <1>4, ClosesKept
    <2>3. ASSUME closed', session' = "own"
          PROVE  \E u \in Task : call'[u] = "close" /\ pc'[u] = "closing_ws"
        <3>1. CASE UNCHANGED closed
            <4>1. PICK u \in Task : call[u] = "close" /\ pc[u] = "closing_ws"
                BY <2>1, <2>3, <3>1 DEF IInv, SessionInv
            <4>2. u # t
                BY <1>4, <4>1 DEF Closing
            <4> QED BY <1>1, <4>1, <4>2
        <3>2. CASE call'[t] = "close" /\ ~UNCHANGED closed
            <4>1. call[t] # "close" \/ pc[t] = "idle"
                BY <2>1, <2>3, <3>2 DEF IInv, SessionInv, TypeOK
            <4> QED BY <3>2, <4>1
        <3> QED BY <2>3, <3>1, <3>2 DEF Marks, Opens
    <2> QED BY <1>2, <2>1, <2>2, <2>3 DEF IInv, SessionInv
<1> QED BY <1>3, <1>4 DEF SessionInv

(* The session is closed, or being closed, or none of the client's own.    *)
LEMMA SessionShut ==
  ASSUME IInv, NEW t \in Task, Landed(t), \A u \in Task \ {t} : call'[u] = call[u],
         Marks(t), SessionGoes(t), pc[t] # "closing_session"
  PROVE  SessionInv'
<1>1. \A u \in Task \ {t} : pc'[u] = pc[u] /\ call'[u] = call[u]
    BY DEF Landed
<1>2. session' # "own" /\ UNCHANGED orphaned
    BY DEF SessionGoes
<1>3. /\ session' = "external" <=> ExternalSession
      /\ session' = "external" => \A u \in Task : pc'[u] # "closing_session"
      /\ session' = "closing" => \E u \in Task : pc'[u] = "closing_session"
    BY <1>1 DEF SessionGoes, IInv, SessionInv
<1>4. session' # "external" =>
          \A s \in Sock : sock'[s].state = "open" => session' = "own" \/ orphaned'
    BY DEF SessionGoes, AllShut, Empty, IInv, SessionInv
<1>5. ASSUME ~torn'
      PROVE  /\ ~orphaned'
             /\ \A u \in Task : call'[u] = "close" /\ pc'[u] # "idle" => closed'
    <2>1. ~torn
        BY <1>5, TornLater DEF IInv
    <2> QED BY <1>1, <1>2, <1>5, <2>1, ClosesKept DEF IInv, SessionInv
<1> QED BY <1>2, <1>3, <1>4, <1>5 DEF SessionInv

LEMMA SessionDials ==
  ASSUME IInv, NEW t \in Task, Landed(t), \A u \in Task \ {t} : call'[u] = call[u],
         Marks(t), Dials(t), pc[t] \notin Closing
  PROVE  SessionInv'
<1>1. \A u \in Task \ {t} : pc'[u] = pc[u] /\ call'[u] = call[u]
    BY DEF Landed
<1>2. \A u \in Task : pc'[u] = "closing_session" <=> pc[u] = "closing_session"
    BY <1>1 DEF Closing, Dials
<1>3. /\ session' = "external" <=> ExternalSession
      /\ session' = "external" => \A u \in Task : pc'[u] # "closing_session"
      /\ session' = "closing" => \E u \in Task : pc'[u] = "closing_session"
      /\ session' # "external" =>
            \A s \in Sock : sock'[s].state = "open" => session' = "own" \/ orphaned'
    BY <1>2 DEF IInv, SessionInv, Dials
<1>4. ASSUME ~torn'
      PROVE  /\ ~orphaned'
             /\ \A u \in Task : call'[u] = "close" /\ pc'[u] # "idle" => closed'
             /\ session' = "own" => \A u \in Task : pc'[u] # "closing_session"
    <2>1. ~torn
        BY <1>4, TornLater DEF IInv
    <2>2. \A u \in Task : call'[u] = "close" /\ pc'[u] # "idle" => closed'
        BY <1>1, <1>4, ClosesKept
    <2>3. ASSUME NEW u \in Task, pc[u] = "closing_session" PROVE FALSE
        <3>1. holder' = t
            BY DEF Dials, Landed, PastLock, Inside
        <3>2. holder \in {NoTask, t}
            BY <3>1 DEF Landed
        <3>3. u # t
            BY <2>3 DEF Closing
        <3>4. call[u] = "close"
            BY <2>3, <3>2, <3>3, Nav10Assumption DEF IInv, LockInv, PastLock, Closing
        <3>5. closed'
            BY <1>1, <2>2, <2>3, <3>3, <3>4
        <3> QED BY <3>5 DEF Dials
    <2> QED BY <1>2, <2>1, <2>2, <2>3 DEF IInv, SessionInv, Dials
<1> QED BY <1>3, <1>4 DEF SessionInv, Dials

LEMMA SessionMoves ==
  ASSUME IInv, NEW t \in Task, Landed(t), Moves(t), \A u \in Task \ {t} : call'[u] = call[u],
         Marks(t), pc[t] \notin Closing, call'[t] = "close" => Shuts(t)
  PROVE  SessionInv'
<1>1. CASE Stays /\ pc'[t] \in {"idle", "lock_send", "lock_connect", "pausing"}
    <2>1. CASE call'[t] # "close"
        BY <1>1, <2>1, SessionLeft DEF Stays
    <2>2. CASE Shuts(t)
        <3>1. ~Usable /\ SessionGoes(t)
            BY <1>1, <2>2 DEF Shuts
        <3> QED BY <3>1, SessionShut DEF Closing
    <2> QED BY <2>1, <2>2
<1>2. CASE Shuts(t)
    <2>1. CASE SessionGoes(t)
        BY <2>1, SessionShut DEF Closing
    <2>2. CASE /\ sock' = [sock EXCEPT ![ws] = Empty("shut")]
               /\ pc'[t] = "closing_ws"
               /\ UNCHANGED <<ws, session, orphaned>>
        <3>1. \A s \in Sock : sock'[s].state = "open" => sock[s].state = "open"
            BY <2>2 DEF Empty, IInv, TypeOK
        <3> QED BY <2>2, <3>1, SessionLeft
    <2> QED BY <1>2, <2>1, <2>2 DEF Shuts
<1>3. CASE Sends(t)
    <2>1. \A s \in Sock : sock'[s].state = sock[s].state
        <3>1. ASSUME NEW m \in Reply, sock' = [sock EXCEPT ![ws].inbox = Append(@, m)]
              PROVE  \A s \in Sock : sock'[s].state = sock[s].state
            BY <3>1 DEF IInv, TypeOK
        <3> QED BY <1>3, <3>1 DEF Sends
    <2>2. call'[t] # "close"
        BY <1>3 DEF Sends, Landed, Settled, Fit, Closing
    <2> QED BY <1>3, <2>1, <2>2, SessionLeft DEF Sends
<1>4. CASE Dials(t)
    BY <1>4, SessionDials
<1> QED BY <1>1, <1>2, <1>3, <1>4 DEF Moves

(* A step that begins outside a close keeps the invariant.                 *)
LEMMA MovesKeep ==
  ASSUME IInv, NEW t \in Task, Landed(t), SentKept(t), Moves(t),
         call' \in [Task -> CallKinds], \A u \in Task \ {t} : call'[u] = call[u],
         left' \in [Task -> 0 .. Sections - 1], \A u \in Task \ {t} : left'[u] = left[u],
         LeftInv(t)', waiters' \in Seq(Task),
         skewed' \in BOOLEAN, cancels' \in 0 .. MaxCancels,
         Marks(t), pc[t] \notin Closing, call'[t] = "close" => Shuts(t),
         skewed => skewed', pc[t] = "receiving" => skewed' \/ Shuts(t)
  PROVE  IInv'
<1>1. TypeOK
    BY DEF IInv
<1>2. AnswerInv'
    BY AnswerMoves
<1>3. SessionInv'
    BY SessionMoves
<1>4. closed' \in BOOLEAN /\ torn' \in BOOLEAN
    BY <1>1, TornLater
<1>5. /\ ws' \in Sock \cup {NoSock}
      /\ sock' \in [Sock -> [state : SockStates, inbox : Seq(Reply)]]
      /\ session' \in Sessions
      /\ orphaned' \in BOOLEAN
    BY <1>1, MovesTyped
<1> QED BY <1>2, <1>3, <1>4, <1>5, StepCore

-----------------------------------------------------------------------------
(* The actions.                                                            *)

LEMMA MayGoOn ==
  ASSUME IInv, NEW t \in Task, UNCHANGED call, pc[t] \in Closing \cup Inside
  PROVE  May(t)
<1>1. call' \in [Task -> CallKinds]
    BY DEF IInv, TypeOK
<1>2. PastLock(t) <=> holder = t
    BY DEF IInv, LockInv
<1>3. call[t] = "close" => pc[t] \in Closing \cup {"idle"}
    BY DEF IInv, Settled, Fit
<1> QED BY <1>1, <1>2, <1>3 DEF May, PastLock, Closing, Inside, OnWire

LEMMA SentSame ==
  ASSUME IInv, NEW t \in Task, UNCHANGED sent, pc'[t] # "receiving"
  PROVE  SentKept(t)
BY DEF SentKept, SaveInv, IInv, TypeOK

LEMMA BeginStep ==
  ASSUME IInv, NEW t \in Task, NEW c \in CallKinds \ {"close"},
         NEW n \in 0 .. Sections - 1, c # "read" => n = 0, Begin(t, c, n)
  PROVE  IInv'
<1>1. /\ pc[t] = "idle" /\ try[t] = 0 /\ then[t] = "none" /\ on[t] = NoSock /\ holder # t
    BY DEF Begin, IInv, Settled, Fit, OnWire, Closing, LockInv, PastLock, Inside
<1>2. /\ call' = [call EXCEPT ![t] = c] /\ left' = [left EXCEPT ![t] = n]
      /\ UNCHANGED <<skewed, cancels>>
    BY DEF Begin
<1>3. /\ TypeOK /\ waiters \in Seq(Task)
      /\ call' \in [Task -> CallKinds] /\ call'[t] = c
      /\ \A u \in Task \ {t} : call'[u] = call[u]
      /\ left' \in [Task -> 0 .. Sections - 1] /\ \A u \in Task \ {t} : left'[u] = left[u]
      /\ LeftInv(t)'
      /\ skewed' \in BOOLEAN /\ cancels' \in 0 .. MaxCancels
    BY <1>2 DEF IInv, TypeOK, LeftInv
<1>4. pc[t] \notin Closing /\ pc[t] # "receiving"
    BY <1>1 DEF Closing
<1>5. CASE holder = NoTask /\ EnterConnect(t, waiters)
    <2>1. May(t)
        BY <1>3, <1>5 DEF May
    <2>2. Landed(t) /\ SentKept(t) /\ Moves(t) /\ waiters' \in Seq(Task) /\ Opens
        BY <1>1, <1>3, <1>4, <1>5, <2>1, EnterConnectLands
    <2> QED BY <1>2, <1>3, <1>4, <2>2, MovesKeep DEF Marks
<1>6. CASE /\ pc' = [pc EXCEPT ![t] = "lock_connect"]
           /\ result' = [result EXCEPT ![t] = "none"]
           /\ waiters' = Append(waiters, t)
           /\ UNCHANGED <<try, then, on, holder, ws, sock, session, closed, sent, torn, orphaned>>
    <2>1. /\ pc' \in [Task -> PCs] /\ try' \in [Task -> 0 .. MaxReconnect]
          /\ then' \in [Task -> Thens] /\ on' \in [Task -> Sock \cup {NoSock}]
          /\ result' \in [Task -> Results] /\ holder' \in Task \cup {NoTask}
          /\ waiters' \in Seq(Task)
        BY <1>3, <1>6 DEF TypeOK, PCs, Thens, Results, Waiting
    <2>2. /\ pc'[t] = "lock_connect"
          /\ \A u \in Task \ {t} :
                pc'[u] = pc[u] /\ try'[u] = try[u] /\ then'[u] = then[u] /\ on'[u] = on[u]
        BY <1>3, <1>6 DEF TypeOK
    <2>3. Settled(t)'
        BY <1>1, <1>3, <1>6, <2>2 DEF Settled, Fit, OnWire, Closing, Waiting
    <2>4. PastLock(t)' <=> holder' = t
        BY <1>1, <1>6, <2>2 DEF PastLock, Inside, OnWire, Closing
    <2>5. Landed(t)
        BY <1>6, <2>1, <2>2, <2>3, <2>4 DEF Landed
    <2>6. SentKept(t)
        BY <1>6, <2>2, SentSame
    <2>7. Moves(t)
        BY <1>6, <2>2 DEF Moves, Stays
    <2> QED BY <1>2, <1>3, <1>4, <1>6, <2>1, <2>5, <2>6, <2>7, MovesKeep DEF Marks
<1> QED BY <1>5, <1>6 DEF Begin

LEMMA CloseClientStep ==
  ASSUME IInv, NEW t \in Task, CloseClient(t)
  PROVE  IInv'
<1>1. pc[t] = "idle" /\ holder # t /\ TypeOK
    BY DEF CloseClient, IInv, LockInv, PastLock, Inside, OnWire, Closing
<1>2. /\ call' \in [Task -> CallKinds] /\ call'[t] = "close"
      /\ \A u \in Task \ {t} : call'[u] = call[u]
    BY <1>1 DEF CloseClient, TypeOK, CallKinds
<1>3. May(t)
    BY <1>1, <1>2 DEF May
<1>4. Follows(call'[t], "done", 0)
    BY <1>2, Nav10Assumption DEF Follows, Thens
<1>5. Landed(t) /\ pc'[t] \in {"idle", "sleeping"} \cup Closing /\ Shuts(t)
    BY <1>1, <1>3, <1>4, CloseUnlockedLands DEF CloseClient
<1>6. SentKept(t)
    BY <1>5, SentSame DEF CloseClient, Closing
<1>7. /\ left' \in [Task -> 0 .. Sections - 1] /\ UNCHANGED left /\ LeftInv(t)'
      /\ waiters' \in Seq(Task)
      /\ skewed' \in BOOLEAN /\ cancels' \in 0 .. MaxCancels /\ UNCHANGED skewed
      /\ Marks(t)
    BY <1>1, <1>2 DEF CloseClient, TypeOK, Marks, LeftInv
<1>8. pc[t] \notin Closing /\ pc[t] # "receiving"
    BY <1>1 DEF Closing
<1> QED BY <1>2, <1>5, <1>6, <1>7, <1>8, MovesKeep DEF Moves

LEMMA GrantedStep ==
  ASSUME IInv, NEW t \in Task, Granted(t)
  PROVE  IInv'
<1>1. /\ TypeOK /\ holder = NoTask /\ UNCHANGED <<call, left, skewed, cancels>>
      /\ Tail(waiters) \in Seq(Task)
    BY DEF Granted, IInv, TypeOK
<1>2. /\ call' \in [Task -> CallKinds] /\ \A u \in Task : call'[u] = call[u]
      /\ left' \in [Task -> 0 .. Sections - 1] /\ UNCHANGED left /\ LeftInv(t)'
      /\ skewed' \in BOOLEAN /\ cancels' \in 0 .. MaxCancels
    BY <1>1 DEF TypeOK, IInv, LeftInv
<1>3. /\ pc[t] \in Waiting /\ pc[t] \notin Closing /\ pc[t] # "receiving"
    BY DEF Granted, Waiting, Closing
<1>4. /\ try[t] = 0 /\ then[t] = "none" /\ call[t] # "close"
      /\ pc[t] = "lock_send" => call[t] # "connect"
    BY <1>3 DEF IInv, Settled, Fit, Waiting, Closing
<1>5. May(t)
    BY <1>1, <1>2, <1>4 DEF May
<1>6. CASE pc[t] = "lock_connect" /\ EnterConnect(t, Tail(waiters))
    <2>1. Landed(t) /\ SentKept(t) /\ Moves(t) /\ waiters' \in Seq(Task) /\ Opens
        BY <1>1, <1>2, <1>3, <1>4, <1>5, <1>6, EnterConnectLands
    <2> QED BY <1>1, <1>2, <1>3, <1>4, <2>1, MovesKeep DEF Marks
<1>7. CASE /\ pc[t] = "lock_send" /\ UNCHANGED <<closed, torn>>
           /\ SendOnce(t, 0) /\ waiters' = Tail(waiters)
    <2>1. call'[t] \in {"read", "save"} /\ 0 \in 0 .. MaxReconnect
        BY <1>2, <1>4, <1>7, Nav10Assumption DEF CallKinds
    <2>2. Landed(t) /\ SentKept(t) /\ Moves(t)
        BY <1>1, <1>5, <1>7, <2>1, SendOnceLands
    <2> QED BY <1>1, <1>2, <1>3, <1>4, <1>7, <2>2, MovesKeep DEF Marks
<1> QED BY <1>6, <1>7 DEF Granted

(* The steps of a call under way that leave the caller's marks alone.      *)
LEMMA KeepsKeep ==
  ASSUME IInv, NEW t \in Task, Keeps, pc[t] \notin Closing \cup {"idle"},
         Landed(t), SentKept(t), Moves(t), waiters' \in Seq(Task),
         skewed' \in BOOLEAN, skewed => skewed', pc[t] = "receiving" => skewed' \/ Shuts(t)
  PROVE  IInv'
<1>1. /\ call' \in [Task -> CallKinds] /\ \A u \in Task : call'[u] = call[u]
      /\ left' \in [Task -> 0 .. Sections - 1] /\ UNCHANGED left /\ LeftInv(t)'
      /\ cancels' \in 0 .. MaxCancels /\ UNCHANGED <<closed, torn>>
    BY DEF Keeps, IInv, TypeOK, LeftInv
<1>2. call[t] # "close"
    BY DEF IInv, Settled, Fit
<1> QED BY <1>1, <1>2, MovesKeep DEF Marks

LEMMA AuthAcceptedStep ==
  ASSUME IInv, NEW t \in Task, AuthAccepted(t)
  PROVE  IInv'
<1>1. /\ TypeOK /\ pc[t] = "authing" /\ pc[t] \notin Closing \cup {"idle"} /\ pc[t] # "receiving"
      /\ try[t] \in 0 .. MaxReconnect /\ waiters \in Seq(Task)
      /\ Keeps /\ UNCHANGED <<skewed, call>> /\ skewed' \in BOOLEAN
    BY DEF AuthAccepted, Keeps, IInv, TypeOK, Closing
<1>2. /\ call[t] # "close" /\ then[t] = "none"
      /\ call[t] # "read" => try[t] = 0
    BY <1>1 DEF IInv, Settled, Fit, Closing
<1>3. May(t)
    BY <1>1, MayGoOn DEF Inside, OnWire
<1>4. Landed(t) /\ SentKept(t) /\ Moves(t) /\ waiters' \in Seq(Task)
    BY <1>1, <1>2, <1>3, ConnectReturnsLands DEF AuthAccepted
<1> QED BY <1>1, <1>4, KeepsKeep

LEMMA ConnectFailsStep ==
  ASSUME IInv, NEW t \in Task, ConnectFails(t)
  PROVE  IInv'
<1>1. /\ TypeOK /\ pc[t] \in {"dialing", "authing"} /\ pc[t] \notin Closing \cup {"idle"}
      /\ pc[t] # "receiving" /\ try[t] \in 0 .. MaxReconnect /\ waiters' \in Seq(Task)
      /\ Keeps /\ UNCHANGED <<skewed, call, sent>> /\ skewed' \in BOOLEAN
    BY DEF ConnectFails, Keeps, IInv, TypeOK, Closing
<1>2. call[t] # "close" /\ (call[t] # "read" => try[t] = 0)
    BY <1>1 DEF IInv, Settled, Fit, Closing
<1>3. May(t)
    BY <1>1, MayGoOn DEF Inside, OnWire
<1>4. PICK n \in {"next", "raise"} :
          CloseUnlocked(t, n, try[t]) /\ (n = "next" => try[t] > 0)
    BY DEF ConnectFails
<1>5. Follows(call'[t], n, try[t])
    BY <1>1, <1>2, <1>4 DEF Follows, Thens
<1>6. Landed(t) /\ pc'[t] \in {"idle", "sleeping"} \cup Closing /\ Shuts(t)
    BY <1>1, <1>3, <1>4, <1>5, CloseUnlockedLands
<1>7. SentKept(t)
    BY <1>1, <1>6, SentSame DEF Closing
<1> QED BY <1>1, <1>6, <1>7, KeepsKeep DEF Moves

LEMMA RequestLostStep ==
  ASSUME IInv, NEW t \in Task, RequestLost(t)
  PROVE  IInv'
<1>1. /\ TypeOK /\ pc[t] = "receiving" /\ pc[t] \notin Closing \cup {"idle"}
      /\ try[t] \in 0 .. MaxReconnect /\ waiters' \in Seq(Task)
      /\ Keeps /\ UNCHANGED <<call, sent, closed>>
      /\ skewed' = (skewed \/ closed \/ try[t] = MaxReconnect) /\ skewed' \in BOOLEAN
    BY DEF RequestLost, Keeps, IInv, TypeOK, Closing
<1>2. /\ call[t] \in {"read", "save"} /\ (call[t] # "read" => try[t] = 0)
    BY <1>1 DEF IInv, Settled, Fit, TypeOK, CallKinds
<1>3. May(t)
    BY <1>1, MayGoOn DEF Inside, OnWire
<1>4. /\ Landed(t)
      /\ pc'[t] \in {"idle", "sleeping"} \cup Closing
      /\ Shuts(t) \/ GivesUp(t, try[t])
    BY <1>1, <1>2, <1>3, RequestFailsLands DEF RequestLost
<1>5. SentKept(t)
    BY <1>1, <1>4, SentSame DEF Closing
<1>6. Moves(t) /\ (skewed' \/ Shuts(t))
    BY <1>1, <1>4 DEF Moves, GivesUp
<1> QED BY <1>1, <1>4, <1>5, <1>6, KeepsKeep

LEMMA ResumeStep ==
  ASSUME IInv, NEW t \in Task, Resume(t)
  PROVE  IInv'
<1>1. /\ TypeOK /\ pc[t] = "pausing" /\ pc[t] \notin Closing \cup {"idle"} /\ pc[t] # "receiving"
      /\ waiters \in Seq(Task)
      /\ Keeps /\ UNCHANGED <<skewed, call>> /\ skewed' \in BOOLEAN
      /\ call' \in [Task -> CallKinds]
    BY DEF Resume, Keeps, IInv, TypeOK, Closing
<1>2. /\ call[t] = "read" /\ try[t] = 0 /\ then[t] = "none"
    BY <1>1 DEF IInv, Settled, Fit, Closing
<1>3. holder # t
    BY <1>1 DEF IInv, LockInv, PastLock, Closing, Inside, OnWire
<1>4. PICK free \in BOOLEAN : free = (holder = NoTask) /\ AcquireForSend(t, free, waiters)
    BY DEF Resume
<1>5. Landed(t) /\ SentKept(t) /\ Moves(t) /\ waiters' \in Seq(Task)
    BY <1>1, <1>2, <1>3, <1>4, AcquireForSendLands
<1> QED BY <1>1, <1>5, KeepsKeep

LEMMA WakeStep ==
  ASSUME IInv, NEW t \in Task, Wake(t)
  PROVE  IInv'
<1>1. /\ TypeOK /\ pc[t] = "sleeping" /\ pc[t] \notin Closing \cup {"idle"} /\ pc[t] # "receiving"
      /\ try[t] \in 0 .. MaxReconnect /\ waiters \in Seq(Task)
      /\ Keeps /\ UNCHANGED <<skewed, call>> /\ skewed' \in BOOLEAN
    BY DEF Wake, Keeps, IInv, TypeOK, Closing
<1>2. try[t] > 0 /\ call[t] = "read"
    BY <1>1 DEF IInv, Settled, Fit
<1>3. May(t)
    BY <1>1, MayGoOn DEF Inside
<1>4. Landed(t) /\ SentKept(t) /\ Moves(t) /\ waiters' \in Seq(Task)
    BY <1>1, <1>2, <1>3, ConnectLands DEF Wake
<1> QED BY <1>1, <1>4, KeepsKeep

LEMMA DialSucceedsStep ==
  ASSUME IInv, NEW t \in Task, DialSucceeds(t)
  PROVE  IInv'
<1>1. /\ TypeOK /\ pc[t] = "dialing" /\ pc[t] \notin Closing /\ CanDial
      /\ try[t] \in 0 .. MaxReconnect /\ LeftInv(t)'
      /\ UNCHANGED <<call, left, waiters, session, sent, orphaned, closed, torn, cancels>>
      /\ skewed' = FALSE
    BY DEF DialSucceeds, Keeps, IInv, TypeOK, Closing, LeftInv
<1>2. PICK s \in Sock :
          /\ ws' = s
          /\ sock' = [sock EXCEPT ![s] = Empty("open")]
          /\ Suspend(t, "authing", try[t], s, "none")
    BY DEF DialSucceeds, Forgotten
<1>3. May(t)
    BY <1>1, MayGoOn DEF Inside
<1>4. /\ call[t] # "close" /\ (call[t] # "read" => try[t] = 0)
    BY <1>1 DEF IInv, Settled, Fit
<1>5. Fit(call'[t], "authing", try[t], s, "none")
    BY <1>1, <1>4, Nav10Assumption DEF Fit, OnWire, Closing, Waiting
<1>6. Landed(t) /\ pc'[t] = "authing" /\ on'[t] = s
    BY <1>1, <1>2, <1>3, <1>5, SuspendLands DEF Inside, OnWire, Thens
<1>7. SentKept(t)
    BY <1>1, <1>6, SentSame
<1>8. sock' \in [Sock -> [state : SockStates, inbox : Seq(Reply)]]
    <2>1. Empty("open") \in [state : SockStates, inbox : Seq(Reply)]
        BY DEF Empty, SockStates
    <2> QED BY <1>1, <1>2, <2>1 DEF TypeOK
<1>9. AnswerInv'
    <2>1. \A u \in Task : pc[u] # "receiving"
        BY <1>1 DEF IInv, LockInv, PastLock, Inside, OnWire
    <2>2. \A u \in Task : pc'[u] # "receiving"
        BY <1>6, <2>1 DEF Landed
    <2>3. sock'[ws'].inbox = <<>>
        BY <1>1, <1>2 DEF Empty, TypeOK
    <2> QED BY <2>2, <2>3 DEF AnswerInv
<1>10. SessionInv'
    <2>1. \A r \in Sock : sock'[r].state = "open" =>
              sock[r].state = "open" \/ session \in {"own", "external"}
        BY <1>1 DEF CanDial
    <2>2. Marks(t)
        BY <1>1, <1>4 DEF Marks
    <2> QED BY <1>1, <1>4, <1>6, <2>1, <2>2, SessionLeft
<1>11. /\ call' \in [Task -> CallKinds] /\ left' \in [Task -> 0 .. Sections - 1]
       /\ waiters' \in Seq(Task) /\ ws' \in Sock \cup {NoSock} /\ session' \in Sessions
       /\ closed' \in BOOLEAN /\ skewed' \in BOOLEAN /\ torn' \in BOOLEAN
       /\ orphaned' \in BOOLEAN /\ cancels' \in 0 .. MaxCancels
    BY <1>1, <1>2 DEF TypeOK
<1> QED BY <1>1, <1>6, <1>7, <1>8, <1>9, <1>10, <1>11, StepCore

LEMMA ReceiveStep ==
  ASSUME IInv, NEW t \in Task, Receive(t)
  PROVE  IInv'
<1>1. /\ TypeOK /\ pc[t] = "receiving" /\ pc[t] \notin Closing
      /\ UNCHANGED <<call, closed, skewed, torn, cancels, waiters, ws, session, orphaned, sent>>
      /\ sock[on[t]].inbox # <<>>
      /\ sock' = [sock EXCEPT ![on[t]].inbox = Tail(@)]
    BY DEF Receive, IInv, Closing
<1>2. /\ on[t] \in Sock /\ call[t] \in {"read", "save"} /\ then[t] = "none"
      /\ call[t] = "save" => left[t] = 0
    BY <1>1 DEF IInv, Settled, Fit, TypeOK, CallKinds, OnWire, Closing, LeftInv
<1>3. May(t)
    BY <1>1, MayGoOn DEF Inside, OnWire
<1>4. /\ Landed(t) /\ pc'[t] \in {"idle", "pausing"}
      /\ left' \in [Task -> 0 .. Sections - 1] /\ \A u \in Task \ {t} : left'[u] = left[u]
      /\ LeftInv(t)'
    <2> DEFINE r == Outcome(t, Head(sock[on[t]].inbox))
    <2>1. r \in Results
        BY DEF Outcome, Results
    <2>2. CASE Leave(t, r) /\ UNCHANGED left
        <3>1. Landed(t) /\ pc'[t] = "idle"
            BY <1>1, <1>3, <2>1, <2>2, LeaveLands
        <3> QED BY <1>1, <2>2, <3>1 DEF TypeOK, IInv, LeftInv
    <2>3. CASE /\ r = "ok" /\ left[t] > 0
               /\ left' = [left EXCEPT ![t] = @ - 1]
               /\ pc' = [pc EXCEPT ![t] = "pausing"]
               /\ on' = [on EXCEPT ![t] = NoSock]
               /\ try' = [try EXCEPT ![t] = 0]
               /\ holder' = NoTask
               /\ UNCHANGED <<then, result>>
        <3>0. call[t] = "read"
            BY <1>2, <2>3
        <3>1. /\ pc' \in [Task -> PCs] /\ then' \in [Task -> Thens]
              /\ on' \in [Task -> Sock \cup {NoSock}]
              /\ result' \in [Task -> Results] /\ holder' \in Task \cup {NoTask}
            BY <1>1, <2>3 DEF TypeOK, PCs, Thens, Results
        <3>2. try' \in [Task -> 0 .. MaxReconnect]
            BY <1>1, <2>3, Nav10Assumption DEF TypeOK
        <3>3. left' \in [Task -> 0 .. Sections - 1] /\ \A u \in Task \ {t} : left'[u] = left[u]
            BY <1>1, <2>3, Nav10Assumption DEF TypeOK
        <3>4. /\ pc'[t] = "pausing" /\ try'[t] = 0 /\ then'[t] = "none" /\ on'[t] = NoSock
              /\ \A u \in Task \ {t} :
                    pc'[u] = pc[u] /\ try'[u] = try[u] /\ then'[u] = then[u] /\ on'[u] = on[u]
            BY <1>1, <1>2, <2>3 DEF TypeOK
        <3>5. Settled(t)' /\ LeftInv(t)'
            BY <1>1, <3>0, <3>4 DEF Settled, Fit, OnWire, Closing, LeftInv
        <3>6. holder = t /\ (PastLock(t)' <=> holder' = t)
            BY <1>1, <2>3, <3>4, Nav10Assumption
               DEF IInv, LockInv, PastLock, Inside, OnWire, Closing
        <3> QED BY <2>3, <3>1, <3>2, <3>3, <3>4, <3>5, <3>6 DEF Landed
    <2> QED BY <2>2, <2>3 DEF Receive
<1>5. SentKept(t)
    BY <1>1, <1>4, SentSame
<1> DEFINE box == [sock[on[t]] EXCEPT !.inbox = Tail(@)]
<1>6. /\ sock' = [sock EXCEPT ![on[t]] = box]
      /\ box \in [state : SockStates, inbox : Seq(Reply)]
      /\ box.state = sock[on[t]].state /\ box.inbox = Tail(sock[on[t]].inbox)
      /\ sock[on[t]] \in [state : SockStates, inbox : Seq(Reply)]
    <2>1. sock[on[t]] \in [state : SockStates, inbox : Seq(Reply)]
        BY <1>1, <1>2 DEF TypeOK
    <2>2. Tail(sock[on[t]].inbox) \in Seq(Reply)
        BY <1>1, <2>1
    <2> QED BY <1>1, <1>2, <2>1, <2>2 DEF TypeOK
<1> HIDE DEF box
<1>7. /\ sock' \in [Sock -> [state : SockStates, inbox : Seq(Reply)]]
      /\ \A s \in Sock : sock'[s].state = sock[s].state
      /\ sock'[on[t]].inbox = Tail(sock[on[t]].inbox)
      /\ \A s \in Sock \ {on[t]} : sock'[s] = sock[s]
    BY <1>1, <1>2, <1>6 DEF TypeOK
<1>8. AnswerInv'
    <2> SUFFICES ASSUME ~skewed'
                 PROVE  /\ \A u \in Task : pc'[u] # "receiving"
                        /\ ws # NoSock => sock'[ws].inbox = <<>>
        BY <1>1 DEF AnswerInv
    <2>1. \A u \in Task \ {t} : pc[u] # "receiving"
        BY <1>1 DEF IInv, LockInv, PastLock, Inside, OnWire
    <2>2. \A u \in Task : pc'[u] # "receiving"
        BY <1>4, <2>1 DEF Landed
    <2>3. ASSUME ws # NoSock PROVE sock'[ws].inbox = <<>>
        <3>1. CASE on[t] = ws
            <4>1. Len(sock[ws].inbox) <= 1 /\ Len(sock[ws].inbox) \in Nat
                BY <1>1, <1>2, <3>1 DEF IInv, AnswerInv, TypeOK
            <4>2. Tail(sock[ws].inbox) = <<>>
                BY <1>1, <1>6, <3>1, <4>1
            <4> QED BY <1>7, <3>1, <4>2
        <3>2. CASE on[t] # ws
            <4>1. sock[ws].inbox = <<>>
                BY <1>1, <2>1, <2>3, <3>2 DEF IInv, AnswerInv
            <4> QED BY <1>1, <1>7, <2>3, <3>2, <4>1 DEF TypeOK
        <3> QED BY <3>1, <3>2
    <2> QED BY <1>1, <2>2, <2>3
<1>9. SessionInv'
    <2>1. Marks(t) /\ call'[t] # "close"
        BY <1>1, <1>2 DEF Marks
    <2> QED BY <1>1, <1>4, <1>7, <2>1, SessionLeft
<1>10. /\ call' \in [Task -> CallKinds] /\ waiters' \in Seq(Task)
       /\ ws' \in Sock \cup {NoSock} /\ session' \in Sessions
       /\ closed' \in BOOLEAN /\ skewed' \in BOOLEAN /\ torn' \in BOOLEAN
       /\ orphaned' \in BOOLEAN /\ cancels' \in 0 .. MaxCancels
    BY <1>1 DEF TypeOK
<1> QED BY <1>1, <1>4, <1>5, <1>7, <1>8, <1>9, <1>10, StepCore

(* A step of a task that closes: nothing it lands at awaits an answer.     *)
LEMMA AnswerClosing ==
  ASSUME IInv, NEW t \in Task, Landed(t), pc[t] # "receiving", pc'[t] # "receiving",
         skewed => skewed', ws' \in {ws, NoSock},
         UNCHANGED sock \/ (\A s \in Sock : sock'[s].inbox = <<>>)
  PROVE  AnswerInv'
<1> SUFFICES ASSUME ~skewed' PROVE AnswerInv'
    BY DEF AnswerInv
<1>1. /\ AnswerInv /\ ~skewed
      /\ \A u \in Task : pc'[u] = "receiving" => pc[u] = "receiving" /\ on'[u] = on[u]
      /\ \A u \in Task : pc[u] = "receiving" => pc'[u] = "receiving" /\ on[u] \in Sock
      /\ ws # NoSock => ws \in Sock
    BY DEF IInv, Landed, TypeOK, Settled, Fit, OnWire
<1>2. CASE UNCHANGED sock
    BY <1>1, <1>2 DEF AnswerInv
<1>3. CASE \A s \in Sock : sock'[s].inbox = <<>>
    BY <1>1, <1>3 DEF AnswerInv
<1> QED BY <1>2, <1>3

(* The session is gone from self._session; one that was not closed is left.*)
LEMMA SessionDropped ==
  ASSUME IInv, NEW t \in Task, Landed(t), \A u \in Task \ {t} : call'[u] = call[u],
         Marks(t), pc[t] = "closing_session", pc'[t] # "closing_ws", DropSession, UNCHANGED sock
  PROVE  SessionInv'
<1>1. \A u \in Task \ {t} : pc'[u] = pc[u] /\ call'[u] = call[u]
    BY DEF Landed
<1>2. session # "external" /\ session' = "none" /\ orphaned' = (orphaned \/ session = "own")
    BY DEF IInv, SessionInv, DropSession
<1>3. \A s \in Sock : sock'[s].state = "open" => orphaned'
    BY <1>2 DEF IInv, SessionInv
<1>4. ASSUME ~torn'
      PROVE  /\ ~orphaned'
             /\ \A u \in Task : call'[u] = "close" /\ pc'[u] # "idle" => closed'
    <2>1. ~torn
        BY <1>4, TornLater DEF IInv
    <2>2. session # "own" /\ ~orphaned
        BY <2>1 DEF IInv, SessionInv
    <2> QED BY <1>1, <1>2, <1>4, <2>2, ClosesKept
<1>5. session # "external" /\ ~ExternalSession
    BY <1>2 DEF IInv, SessionInv
<1> QED BY <1>2, <1>3, <1>4, <1>5 DEF SessionInv

(* What follows the close fits the call that closes.                       *)
LEMMA ThenFollows ==
  ASSUME IInv, NEW t \in Task, pc[t] \in Closing, UNCHANGED call
  PROVE  Follows(call'[t], then[t], try[t])
BY DEF IInv, TypeOK, Settled, Fit, Follows, Thens

LEMMA WebsocketClosedStep ==
  ASSUME IInv, NEW t \in Task, WebsocketClosed(t)
  PROVE  IInv'
<1>1. /\ TypeOK /\ pc[t] = "closing_ws" /\ pc[t] \in Closing /\ LeftInv(t)'
      /\ UNCHANGED <<call, left, closed, torn, cancels, skewed, waiters, sent>>
      /\ ws' = NoSock /\ CloseSession(t, then[t], try[t], sock)
    BY DEF WebsocketClosed, Keeps, IInv, Closing, LeftInv
<1>2. /\ Landed(t) /\ SessionGoes(t)
      /\ pc'[t] \in {"idle", "sleeping", "closing_session"}
    BY <1>1, MayGoOn, ThenFollows, CloseSessionLands
<1>3. SentKept(t)
    BY <1>1, <1>2, SentSame
<1>4. AnswerInv'
    <2>1. UNCHANGED sock \/ (\A s \in Sock : sock'[s].inbox = <<>>)
        BY <1>2 DEF SessionGoes, AllShut, Empty
    <2> QED BY <1>1, <1>2, <2>1, AnswerClosing
<1>5. SessionInv'
    <2>1. Marks(t)
        BY <1>1 DEF Marks
    <2> QED BY <1>1, <1>2, <2>1, SessionShut
<1>6. /\ sock' \in [Sock -> [state : SockStates, inbox : Seq(Reply)]]
      /\ session' \in Sessions /\ orphaned' \in BOOLEAN
    <2>1. Empty("shut") \in [state : SockStates, inbox : Seq(Reply)]
        BY DEF Empty, SockStates
    <2> QED BY <1>1, <1>2, <2>1 DEF SessionGoes, AllShut, Sessions, TypeOK
<1>7. /\ call' \in [Task -> CallKinds] /\ left' \in [Task -> 0 .. Sections - 1]
      /\ waiters' \in Seq(Task) /\ ws' \in Sock \cup {NoSock}
      /\ closed' \in BOOLEAN /\ skewed' \in BOOLEAN /\ torn' \in BOOLEAN
      /\ cancels' \in 0 .. MaxCancels
    BY <1>1 DEF TypeOK
<1> QED BY <1>1, <1>2, <1>3, <1>4, <1>5, <1>6, <1>7, StepCore

(* The end of a session's close, in time or by a cancellation.             *)
LEMMA SessionClosedKeeps ==
  ASSUME IInv, NEW t \in Task, pc[t] = "closing_session", DropSession, Marks(t),
         Landed(t), pc'[t] \in {"idle", "sleeping"},
         UNCHANGED <<call, left, waiters, ws, sock, sent>>,
         skewed' \in BOOLEAN, skewed => skewed', cancels' \in 0 .. MaxCancels
  PROVE  IInv'
<1>1. SentKept(t)
    BY SentSame
<1>2. AnswerInv'
    BY AnswerClosing
<1>3. SessionInv'
    BY SessionDropped
<1>4. closed' \in BOOLEAN /\ torn' \in BOOLEAN
    BY TornLater DEF IInv
<1>5. /\ call' \in [Task -> CallKinds] /\ left' \in [Task -> 0 .. Sections - 1] /\ LeftInv(t)'
      /\ waiters' \in Seq(Task) /\ ws' \in Sock \cup {NoSock}
      /\ sock' \in [Sock -> [state : SockStates, inbox : Seq(Reply)]]
      /\ session' \in Sessions /\ orphaned' \in BOOLEAN
    BY DEF IInv, TypeOK, LeftInv, DropSession, Sessions
<1> QED BY <1>1, <1>2, <1>3, <1>4, <1>5, StepCore

LEMMA SessionClosedStep ==
  ASSUME IInv, NEW t \in Task, SessionClosed(t)
  PROVE  IInv'
<1>1. /\ TypeOK /\ pc[t] = "closing_session" /\ pc[t] \in Closing
      /\ UNCHANGED <<call, left, closed, torn, cancels, skewed, waiters, ws, sock, sent>>
      /\ DropSession /\ AfterClose(t, then[t], try[t])
    BY DEF SessionClosed, Keeps, IInv, Closing
<1>2. Landed(t) /\ pc'[t] \in {"idle", "sleeping"}
    BY <1>1, MayGoOn, ThenFollows, AfterCloseLands
<1>3. skewed' \in BOOLEAN /\ cancels' \in 0 .. MaxCancels /\ Marks(t)
    BY <1>1 DEF TypeOK, Marks
<1> QED BY <1>1, <1>2, <1>3, SessionClosedKeeps

LEMMA CancelWaitingStep ==
  ASSUME IInv, NEW t \in Task, CancelWaiting(t)
  PROVE  IInv'
<1>1. /\ TypeOK /\ pc[t] \in Waiting \cup {"pausing"} /\ pc[t] \notin Closing
      /\ pc[t] # "receiving" /\ cancels' \in 0 .. MaxCancels
      /\ pc' = [pc EXCEPT ![t] = "idle"] /\ result' = [result EXCEPT ![t] = "cancelled"]
      /\ UNCHANGED <<call, try, left, then, on, holder, ws, sock, session,
                     closed, sent, skewed, torn, orphaned>>
    <2>1. pc[t] \in Waiting \cup {"pausing"}
        <3>1. CASE pc[t] = "pausing"
            BY <3>1
        <3>2. CASE pc[t] \in Waiting
            BY <3>2
        <3> QED BY <3>1, <3>2, Zenon DEF CancelWaiting
    <2>2. pc[t] \notin Closing /\ pc[t] # "receiving"
        BY <2>1 DEF Closing, Waiting
    <2>3. TypeOK
        BY DEF IInv
    <2>4. cancels' \in 0 .. MaxCancels
        <3>1. cancels < MaxCancels /\ cancels' = cancels + 1
            BY Zenon DEF CancelWaiting, Cancelled
        <3>2. cancels \in 0 .. MaxCancels
            BY <2>3 DEF TypeOK
        <3> QED BY <3>1, <3>2, Nav10Assumption
    <2>5. /\ pc' = [pc EXCEPT ![t] = "idle"] /\ result' = [result EXCEPT ![t] = "cancelled"]
          /\ UNCHANGED <<call, try, left, then, on, holder, ws, sock, session,
                         closed, sent, skewed, torn, orphaned>>
        BY Zenon DEF CancelWaiting
    <2> QED BY <2>1, <2>2, <2>3, <2>4, <2>5, Zenon
<1>2. waiters' \in Seq(Task)
    <2>1. CASE UNCHANGED waiters
        BY <1>1, <2>1 DEF TypeOK
    <2>2. ASSUME NEW i \in 1 .. Len(waiters),
                 waiters' = [j \in 1 .. Len(waiters) - 1 |->
                                IF j < i THEN waiters[j] ELSE waiters[j + 1]]
          PROVE  waiters' \in Seq(Task)
        <3>1. waiters \in Seq(Task) /\ Len(waiters) - 1 \in Nat
            BY <1>1, <2>2 DEF TypeOK
        <3>2. \A j \in 1 .. Len(waiters) - 1 : waiters'[j] \in Task
            BY <2>2, <3>1
        <3> QED BY <2>2, <3>1, <3>2
    <2> QED BY <2>1, <2>2 DEF CancelWaiting
<1>3. /\ try[t] = 0 /\ then[t] = "none" /\ on[t] = NoSock /\ call[t] # "close" /\ holder # t
    BY <1>1 DEF IInv, Settled, Fit, LockInv, PastLock, Waiting, Closing, OnWire, Inside
<1>4. Landed(t) /\ pc'[t] = "idle"
    <2>1. /\ pc' \in [Task -> PCs] /\ try' \in [Task -> 0 .. MaxReconnect]
          /\ then' \in [Task -> Thens] /\ on' \in [Task -> Sock \cup {NoSock}]
          /\ result' \in [Task -> Results] /\ holder' \in Task \cup {NoTask}
        BY <1>1 DEF TypeOK, PCs, Thens, Results
    <2>2. /\ pc'[t] = "idle"
          /\ \A u \in Task \ {t} :
                pc'[u] = pc[u] /\ try'[u] = try[u] /\ then'[u] = then[u] /\ on'[u] = on[u]
        BY <1>1 DEF TypeOK
    <2>3. Settled(t)'
        BY <1>1, <1>3, <2>2 DEF Settled, Fit, OnWire, Closing, Waiting
    <2>4. PastLock(t)' <=> holder' = t
        BY <1>1, <1>3, <2>2 DEF PastLock, Inside, OnWire, Closing
    <2> QED BY <1>1, <2>1, <2>2, <2>3, <2>4 DEF Landed
<1>5. SentKept(t)
    BY <1>1, <1>4, SentSame
<1>6. Moves(t) /\ Marks(t) /\ call'[t] # "close"
    BY <1>1, <1>3, <1>4 DEF Moves, Stays, Marks
<1>7. /\ call' \in [Task -> CallKinds] /\ left' \in [Task -> 0 .. Sections - 1] /\ LeftInv(t)'
      /\ skewed' \in BOOLEAN
    BY <1>1 DEF TypeOK, IInv, LeftInv
<1> QED BY <1>1, <1>2, <1>4, <1>5, <1>6, <1>7, MovesKeep

LEMMA CancelInsideStep ==
  ASSUME IInv, NEW t \in Task, CancelInside(t)
  PROVE  IInv'
<1>1. /\ TypeOK /\ cancels' \in 0 .. MaxCancels /\ LeftInv(t)'
      /\ UNCHANGED <<call, left, closed, waiters, sent>>
      /\ skewed' = (skewed \/ pc[t] = "receiving")
      /\ torn' = (torn \/ (call[t] = "close" /\ pc[t] \in Closing))
    BY Nav10Assumption DEF CancelInside, Cancelled, IInv, TypeOK, LeftInv
<1>2. /\ call' \in [Task -> CallKinds] /\ left' \in [Task -> 0 .. Sections - 1]
      /\ waiters' \in Seq(Task) /\ skewed' \in BOOLEAN
    BY <1>1 DEF TypeOK
<1>3. Marks(t)
    <2>1. pc[t] # "idle"
        BY DEF CancelInside
    <2> QED BY <1>1, <2>1 DEF Marks, TypeOK
<1>4. CASE pc[t] \in {"dialing", "authing"} /\ CloseUnlocked(t, "raise", try[t])
    <2>1. /\ pc[t] \notin Closing /\ pc[t] # "receiving"
          /\ call[t] # "close" /\ (call[t] # "read" => try[t] = 0)
        BY <1>4 DEF IInv, Settled, Fit, Closing
    <2>2. Follows(call'[t], "raise", try[t])
        BY <1>1, <2>1 DEF Follows, Thens, TypeOK
    <2>3. Landed(t) /\ pc'[t] \in {"idle", "sleeping"} \cup Closing /\ Shuts(t)
        BY <1>1, <1>4, <2>2, MayGoOn, CloseUnlockedLands DEF Inside, OnWire
    <2>4. SentKept(t)
        BY <1>1, <2>3, SentSame DEF Closing
    <2> QED BY <1>1, <1>2, <1>3, <2>1, <2>3, <2>4, MovesKeep DEF Moves
<1>5. CASE pc[t] \in {"receiving", "sleeping"} /\ Leave(t, "cancelled") /\ Stays
    <2>1. pc[t] \notin Closing /\ call[t] # "close"
        BY <1>5 DEF IInv, Settled, Fit, Closing
    <2>2. Landed(t) /\ pc'[t] = "idle"
        BY <1>1, <1>5, MayGoOn, LeaveLands DEF Inside, OnWire, Results
    <2>3. SentKept(t)
        BY <1>1, <2>2, SentSame
    <2> QED BY <1>1, <1>2, <1>3, <1>5, <2>1, <2>2, <2>3, MovesKeep DEF Moves
<1>6. CASE /\ pc[t] = "closing_ws" /\ ws' = NoSock /\ Leave(t, "cancelled")
           /\ UNCHANGED <<sock, session, orphaned>>
    <2>1. Landed(t) /\ pc'[t] = "idle"
        BY <1>1, <1>6, MayGoOn, LeaveLands DEF Closing, Results
    <2>2. SentKept(t)
        BY <1>1, <2>1, SentSame
    <2>3. AnswerInv'
        BY <1>1, <1>6, <2>1, AnswerClosing
    <2>4. SessionInv'
        BY <1>1, <1>3, <1>6, <2>1, SessionLeft DEF Closing
    <2>5. /\ ws' \in Sock \cup {NoSock} /\ session' \in Sessions
          /\ sock' \in [Sock -> [state : SockStates, inbox : Seq(Reply)]]
          /\ closed' \in BOOLEAN /\ torn' \in BOOLEAN /\ orphaned' \in BOOLEAN
        BY <1>1, <1>6 DEF TypeOK
    <2> QED BY <1>1, <1>2, <2>1, <2>2, <2>3, <2>4, <2>5, StepCore
<1>7. CASE /\ pc[t] = "closing_session" /\ DropSession /\ Leave(t, "cancelled")
           /\ UNCHANGED <<ws, sock>>
    <2>1. Landed(t) /\ pc'[t] = "idle"
        BY <1>1, <1>7, MayGoOn, LeaveLands DEF Closing, Results
    <2> QED BY <1>1, <1>2, <1>3, <1>7, <2>1, SessionClosedKeeps
<1> QED BY <1>4, <1>5, <1>6, <1>7 DEF CancelInside, Stays

LEMMA PeerVanishesStep ==
  ASSUME IInv, NEW s \in Sock, PeerVanishes(s)
  PROVE  IInv'
<1>1. /\ sock' = [sock EXCEPT ![s] = Empty("lost")]
      /\ UNCHANGED <<pc, call, try, left, then, on, holder, waiters, ws, session, closed,
                     result, sent, skewed, torn, orphaned, cancels>>
    BY DEF PeerVanishes
<1>2. TypeOK'
    <2>1. Empty("lost") \in [state : SockStates, inbox : Seq(Reply)]
        BY DEF Empty, SockStates
    <2> QED BY <1>1, <2>1 DEF IInv, TypeOK
<1>3. LockInv' /\ \A t \in Task : Settled(t)' /\ SaveInv(t)' /\ LeftInv(t)'
    BY <1>1 DEF IInv, LockInv, PastLock, Settled, SaveInv, LeftInv
<1>4. \A r \in Sock : sock'[r] = sock[r] \/ (sock'[r].inbox = <<>> /\ sock'[r].state # "open")
    BY <1>1 DEF IInv, TypeOK, Empty
<1>5. AnswerInv'
    <2> SUFFICES ASSUME ~skewed PROVE AnswerInv'
        BY <1>1 DEF AnswerInv
    <2>1. ASSUME NEW t \in Task, pc[t] = "receiving"
          PROVE  /\ Len(sock'[on[t]].inbox) <= 1
                 /\ \A i \in DOMAIN sock'[on[t]].inbox : sock'[on[t]].inbox[i].by = t
        <3>1. on[t] \in Sock
            BY <2>1 DEF IInv, TypeOK, Settled, Fit, OnWire
        <3>2. CASE sock'[on[t]] = sock[on[t]]
            BY <2>1, <3>2 DEF IInv, AnswerInv
        <3>3. CASE sock'[on[t]].inbox = <<>>
            BY <3>3
        <3> QED BY <1>4, <3>1, <3>2, <3>3
    <2>2. ws # NoSock => ws \in Sock
        BY DEF IInv, TypeOK
    <2>3. ws # NoSock /\ (\A t \in Task : pc[t] = "receiving" => on[t] # ws)
              => sock'[ws].inbox = <<>>
        BY <1>4, <2>2 DEF IInv, AnswerInv
    <2> QED BY <1>1, <2>1, <2>3 DEF AnswerInv
<1>6. SessionInv'
    BY <1>1, <1>4 DEF IInv, SessionInv
<1> QED BY <1>2, <1>3, <1>5, <1>6 DEF IInv

-----------------------------------------------------------------------------
(* The invariant.                                                          *)

LEMMA InitIInv == Init => IInv
<1> SUFFICES ASSUME Init PROVE IInv
    OBVIOUS
<1>1. TypeOK
    <2>1. Empty("shut") \in [state : SockStates, inbox : Seq(Reply)]
        BY DEF Empty, SockStates
    <2>2. 0 \in 0 .. MaxReconnect /\ 0 \in 0 .. Sections - 1 /\ 0 \in 0 .. MaxCancels
        BY Nav10Assumption
    <2>3. /\ pc \in [Task -> {"idle", "pausing"} \cup Waiting \cup Closing \cup Inside]
          /\ call \in [Task -> CallKinds]
          /\ then \in [Task -> {"none", "raise", "next", "dial", "done"}]
          /\ on \in [Task -> Sock \cup {NoSock}]
          /\ result \in [Task -> {"none", "ok", "rejected", "failed", "cancelled"}]
        BY DEF Init, CallKinds
    <2>4. /\ try \in [Task -> 0 .. MaxReconnect] /\ left \in [Task -> 0 .. Sections - 1]
          /\ cancels \in 0 .. MaxCancels /\ sent \in [Task -> Nat]
        BY <2>2 DEF Init
    <2>5. sock \in [Sock -> [state : SockStates, inbox : Seq(Reply)]]
        BY <2>1 DEF Init
    <2>6. waiters \in Seq(Task) /\ session \in Sessions
        BY DEF Init, Sessions
    <2> QED BY <2>3, <2>4, <2>5, <2>6 DEF TypeOK, Init
<1>2. \A t \in Task : pc[t] = "idle" /\ call[t] = "connect" /\ try[t] = 0 /\ left[t] = 0
                      /\ then[t] = "none" /\ on[t] = NoSock
    BY DEF Init
<1>3. LockInv
    BY <1>2, Nav10Assumption DEF Init, LockInv, PastLock, Inside, OnWire, Closing
<1>4. \A t \in Task : Settled(t) /\ SaveInv(t) /\ LeftInv(t)
    BY <1>2 DEF Settled, Fit, SaveInv, LeftInv, OnWire, Closing
<1>5. AnswerInv
    BY <1>2 DEF AnswerInv, Init
<1>6. SessionInv
    <2>1. \A s \in Sock : sock[s].state = "shut"
        BY DEF Init, Empty
    <2>2. session = (IF ExternalSession THEN "external" ELSE "none") /\ ~orphaned /\ ~closed
        BY DEF Init
    <2> QED BY <1>2, <2>1, <2>2, Nav10Assumption DEF SessionInv
<1> QED BY <1>1, <1>3, <1>4, <1>5, <1>6 DEF IInv

LEMMA CallStep ==
  ASSUME IInv, NEW t \in Task, BeginConnect(t) \/ BeginRead(t) \/ BeginSave(t)
  PROVE  IInv'
<1>1. 0 \in 0 .. Sections - 1
    BY Nav10Assumption
<1>2. CASE BeginConnect(t)
    BY <1>1, <1>2, BeginStep DEF BeginConnect, CallKinds
<1>3. CASE BeginRead(t)
    <2>1. PICK n \in 0 .. Sections - 1 : Begin(t, "read", n)
        BY <1>3 DEF BeginRead
    <2> QED BY <2>1, BeginStep DEF CallKinds
<1>4. CASE BeginSave(t)
    BY <1>1, <1>4, BeginStep DEF BeginSave, CallKinds
<1> QED BY <1>2, <1>3, <1>4

LEMMA ProgressStep ==
  ASSUME IInv, NEW t \in Task, Progress(t)
  PROVE  IInv'
BY GrantedStep, DialSucceedsStep, AuthAcceptedStep, ConnectFailsStep, ReceiveStep,
   RequestLostStep, ResumeStep, WakeStep, WebsocketClosedStep, SessionClosedStep
   DEF Progress

LEMMA StutterStep == IInv /\ UNCHANGED vars => IInv'
BY DEF vars, IInv, TypeOK, LockInv, PastLock, Settled, SaveInv, LeftInv,
       AnswerInv, SessionInv

LEMMA NextIInv == IInv /\ [Next]_vars => IInv'
<1> SUFFICES ASSUME IInv, [Next]_vars PROVE IInv'
    OBVIOUS
<1>1. CASE UNCHANGED vars
    BY <1>1, StutterStep
<1>2. ASSUME NEW t \in Task, BeginConnect(t) \/ BeginRead(t) \/ BeginSave(t)
      PROVE  IInv'
    BY <1>2, CallStep
<1>3. ASSUME NEW t \in Task, CloseClient(t) PROVE IInv'
    BY <1>3, CloseClientStep
<1>4. ASSUME NEW t \in Task, Progress(t) PROVE IInv'
    BY <1>4, ProgressStep
<1>5. ASSUME NEW t \in Task, CancelWaiting(t) PROVE IInv'
    BY <1>5, CancelWaitingStep
<1>6. ASSUME NEW t \in Task, CancelInside(t) PROVE IInv'
    BY <1>6, CancelInsideStep
<1>7. ASSUME NEW s \in Sock, PeerVanishes(s) PROVE IInv'
    BY <1>7, PeerVanishesStep
<1> QED BY <1>1, <1>2, <1>3, <1>4, <1>5, <1>6, <1>7 DEF Next

(* The strengthened invariant holds in every reachable state.              *)
THEOREM InvariantHolds == Spec => []IInv
<1>1. Init => IInv
    BY InitIInv
<1>2. IInv /\ [Next]_vars => IInv'
    BY NextIInv
<1> QED BY <1>1, <1>2, PTL DEF Spec

(* Tasks that connect, request and are cancelled while close() runs        *)
(* between any two of their awaits keep the lock to one at a time, give it *)
(* up when they leave, and bound their attempts (self._lock,               *)
(* _send_json_and_receive_text).                                           *)
THEOREM LockIsKept == Spec => []Inv
<1>1. IInv => Inv
    BY DEF IInv, Inv
<1> QED BY <1>1, InvariantHolds, PTL

(* Answers carry no number, and still no task takes another's: a request   *)
(* that ends without its answer takes its websocket down before the next   *)
(* request is sent, but for the cases that skewed names.                   *)
THEOREM AnswersAreOwn == Spec => []AnswersBelong
<1>1. IInv => AnswersBelong
    BY DEF IInv, AnswerInv, AnswersBelong
<1> QED BY <1>1, InvariantHolds, PTL

(* No save is sent twice, however its call ends.                           *)
THEOREM SavesAreSentOnce == Spec => []SaveSentOnce
<1>1. IInv => SaveSentOnce
    BY DEF IInv, SaveInv, SaveSentOnce
<1> QED BY <1>1, InvariantHolds, PTL

(* After a close() that no connect() follows, the tasks it met leave no    *)
(* websocket and no session of the client's own behind, in whatever order  *)
(* they run.                                                               *)
THEOREM ClosedIsClosed == Spec => []NothingLeftOpen
<1>1. IInv => NothingLeftOpen
    <2> SUFFICES ASSUME IInv, closed, Quiet, ~torn, session # "external"
                 PROVE  NothingOpen
        BY DEF NothingLeftOpen
    <2>1. SessionInv /\ session \in Sessions
        BY DEF IInv, TypeOK
    <2>2. ~orphaned
        BY <2>1 DEF SessionInv
    <2>3. session # "own"
        BY <2>1 DEF SessionInv, Quiet
    <2>4. session # "closing"
        BY <2>1 DEF SessionInv, Quiet
    <2>5. session = "none"
        BY <2>1, <2>3, <2>4 DEF Sessions
    <2>6. \A s \in Sock : sock[s].state # "open"
        BY <2>1, <2>2, <2>3 DEF SessionInv
    <2> QED BY <2>2, <2>5, <2>6 DEF NothingOpen
<1> QED BY <1>1, InvariantHolds, PTL

-----------------------------------------------------------------------------
(* The refinement.  Where a step that continues a call of k attempts can   *)
(* leave it: ended, still to send, or on the wire with one attempt more.   *)

Only(t) == \A u \in Task \ {t} : pc'[u] = pc[u] /\ try'[u] = try[u] /\ then'[u] = then[u]

Ends(t) == Only(t) /\ Phase(t)' = "idle"
Holds(t, k) == Only(t) /\ Phase(t)' = "pending" /\ Spent(t)' = k
Wires(t, k) == Only(t) /\ Phase(t)' = "wire" /\ Spent(t)' = k + 1

Fails(t, k) == Ends(t) \/ Holds(t, k + 1)
Goes(t, k) == Fails(t, k) \/ Holds(t, k) \/ Wires(t, k)

LEMMA SuspendGoes ==
  ASSUME TypeOK, NEW t \in Task, NEW w, NEW k, NEW s, NEW n, Suspend(t, w, k, s, n)
  PROVE  Only(t) /\ pc'[t] = w /\ try'[t] = k /\ then'[t] = n
BY DEF TypeOK, Suspend, Only

LEMMA LeaveEnds ==
  ASSUME TypeOK, NEW t \in Task, NEW r, Leave(t, r)
  PROVE  Ends(t)
BY DEF TypeOK, Leave, Only, Ends, Phase

LEMMA AfterCloseGoes ==
  ASSUME TypeOK, NEW t \in Task, NEW n, NEW k, AfterClose(t, n, k)
  PROVE  \/ Ends(t)
         \/ n = "dial" /\ Holds(t, k)
         \/ n = "next" /\ Holds(t, k + 1)
<1>1. CASE \E r \in {"ok", "failed"} : Leave(t, r)
    BY <1>1, LeaveEnds
<1>2. CASE n = "dial" /\ Suspend(t, "sleeping", k, NoSock, "none")
    <2>1. Only(t) /\ pc'[t] = "sleeping" /\ try'[t] = k /\ then'[t] = "none"
        BY <1>2, SuspendGoes
    <2> QED BY <1>2, <2>1 DEF Holds, Phase, Spent
<1>3. CASE n = "next" /\ Suspend(t, "sleeping", k + 1, NoSock, "none")
    <2>1. Only(t) /\ pc'[t] = "sleeping" /\ try'[t] = k + 1 /\ then'[t] = "none"
        BY <1>3, SuspendGoes
    <2> QED BY <1>3, <2>1 DEF Holds, Phase, Spent
<1> QED BY <1>1, <1>2, <1>3 DEF AfterClose

(* A close under way for the loop keeps the count of the attempt that      *)
(* follows or has failed.                                                  *)
Closes(t, n, k) ==
    \/ Ends(t)
    \/ n \in {"dial", "next"} /\ Holds(t, k)
    \/ n = "next" /\ Holds(t, k + 1)

LEMMA ClosingGoes ==
  ASSUME TypeOK, NEW t \in Task, NEW n \in Thens \ {"none"}, NEW k,
         NEW w \in Closing, Suspend(t, w, k, NoSock, n)
  PROVE  Closes(t, n, k)
<1>1. Only(t) /\ pc'[t] = w /\ try'[t] = k /\ then'[t] = n
    BY SuspendGoes
<1>2. w # "receiving" /\ w \notin {"idle", "pausing"}
    BY DEF Closing
<1>3. CASE n \in {"raise", "done"}
    BY <1>1, <1>2, <1>3 DEF Closes, Ends, Phase
<1>4. CASE n \in {"dial", "next"}
    BY <1>1, <1>2, <1>4 DEF Closes, Holds, Phase, Spent
<1> QED BY <1>3, <1>4 DEF Thens

LEMMA CloseSessionGoes ==
  ASSUME TypeOK, NEW t \in Task, NEW n \in Thens \ {"none"}, NEW k,
         CloseSession(t, n, k, sock)
  PROVE  Closes(t, n, k)
<1>1. CASE AfterClose(t, n, k)
    BY <1>1, AfterCloseGoes DEF Closes
<1>2. CASE Suspend(t, "closing_session", k, NoSock, n)
    BY <1>2, ClosingGoes DEF Closing
<1> QED BY <1>1, <1>2 DEF CloseSession

LEMMA CloseUnlockedGoes ==
  ASSUME TypeOK, NEW t \in Task, NEW n \in Thens \ {"none"}, NEW k,
         CloseUnlocked(t, n, k)
  PROVE  Closes(t, n, k)
<1>1. CASE Suspend(t, "closing_ws", k, NoSock, n)
    BY <1>1, ClosingGoes DEF Closing
<1>2. CASE CloseSession(t, n, k, sock)
    BY <1>2, CloseSessionGoes
<1> QED BY <1>1, <1>2 DEF CloseUnlocked

LEMMA NextAttemptGoes ==
  ASSUME TypeOK, NEW t \in Task, NEW k, NextAttempt(t, k + 1)
  PROVE  Fails(t, k)
<1>1. CASE Leave(t, "failed")
    BY <1>1, LeaveEnds DEF Fails
<1>2. CASE CloseUnlocked(t, "dial", k + 1)
    <2>1. Closes(t, "dial", k + 1)
        BY <1>2, CloseUnlockedGoes DEF Thens
    <2> QED BY <2>1 DEF Closes, Fails
<1> QED BY <1>1, <1>2 DEF NextAttempt

LEMMA RequestFailsGoes ==
  ASSUME TypeOK, NEW t \in Task, NEW k, RequestFails(t, k)
  PROVE  Fails(t, k)
<1>1. CASE CloseUnlocked(t, "raise", k)
    <2>1. Closes(t, "raise", k)
        BY <1>1, CloseUnlockedGoes DEF Thens
    <2> QED BY <2>1 DEF Closes, Fails
<1>2. CASE NextAttempt(t, k + 1)
    BY <1>2, NextAttemptGoes
<1> QED BY <1>1, <1>2 DEF RequestFails

LEMMA SendOnceGoes ==
  ASSUME TypeOK, NEW t \in Task, NEW k, SendOnce(t, k)
  PROVE  Goes(t, k)
<1>1. CASE RequestFails(t, k)
    BY <1>1, RequestFailsGoes DEF Goes
<1>2. CASE Suspend(t, "receiving", k, ws, "none")
    <2>1. Only(t) /\ pc'[t] = "receiving" /\ try'[t] = k
        BY <1>2, SuspendGoes
    <2> QED BY <2>1 DEF Goes, Wires, Phase, Spent
<1> QED BY <1>1, <1>2 DEF SendOnce

LEMMA AcquireForSendGoes ==
  ASSUME TypeOK, NEW t \in Task, try[t] = 0, then[t] = "none",
         NEW free, NEW q, AcquireForSend(t, free, q)
  PROVE  Goes(t, 0)
<1>1. CASE SendOnce(t, 0)
    BY <1>1, SendOnceGoes
<1>2. CASE pc' = [pc EXCEPT ![t] = "lock_send"] /\ UNCHANGED <<try, then>>
    <2>1. Only(t) /\ pc'[t] = "lock_send" /\ try'[t] = 0 /\ then'[t] = "none"
        BY <1>2 DEF TypeOK, Only
    <2> QED BY <2>1 DEF Goes, Holds, Phase, Spent
<1> QED BY <1>1, <1>2 DEF AcquireForSend

LEMMA ConnectGoes ==
  ASSUME TypeOK, NEW t \in Task, NEW k, k = 0 => try[t] = 0 /\ then[t] = "none",
         NEW q, Connect(t, k, q) \/ ConnectReturns(t, k, q)
  PROVE  Goes(t, k)
<1>1. CASE ConnectReturns(t, k, q)
    <2>1. CASE SendOnce(t, k)
        BY <2>1, SendOnceGoes
    <2>2. CASE Leave(t, "ok")
        BY <2>2, LeaveEnds DEF Goes, Fails
    <2>3. CASE k = 0 /\ AcquireForSend(t, TRUE, q)
        <3>1. PICK free \in BOOLEAN : AcquireForSend(t, free, q)
            BY <2>3
        <3> QED BY <2>3, <3>1, AcquireForSendGoes
    <2> QED BY <1>1, <2>1, <2>2, <2>3 DEF ConnectReturns
<1>2. CASE NextAttempt(t, k + 1)
    BY <1>2, NextAttemptGoes DEF Goes
<1>3. CASE Dial(t, k)
    <2>1. Only(t) /\ pc'[t] = "dialing" /\ try'[t] = k /\ then'[t] = "none"
        BY <1>3, SuspendGoes DEF Dial
    <2> QED BY <2>1 DEF Goes, Holds, Phase, Spent
<1> QED BY <1>1, <1>2, <1>3 DEF Connect

(* Each action, from what its await says of the call so far.               *)

Before(t, p, k) == Phase(t) = p /\ Spent(t) = k

Steps(t) ==
    \/ Ends(t)
    \/ \E k \in 0 .. MaxReconnect :
          \/ Before(t, "wire", k + 1) /\ Fails(t, k)
          \/ Before(t, "pending", k) /\ Goes(t, k)
    \/ Before(t, "idle", 0) /\ Goes(t, 0)

LEMMA CallSteps ==
  ASSUME IInv, NEW t \in Task,
         BeginConnect(t) \/ BeginRead(t) \/ BeginSave(t) \/ CloseClient(t)
  PROVE  Steps(t)
<1>1. TypeOK /\ Settled(t)
    BY DEF IInv
<1>2. ASSUME NEW c, NEW n, Begin(t, c, n) PROVE Steps(t)
    <2>1. pc[t] = "idle" /\ try[t] = 0 /\ then[t] = "none"
        BY <1>1, <1>2 DEF Begin, Settled, Fit, Closing
    <2>2. Before(t, "idle", 0)
        BY <2>1 DEF Before, Phase, Spent
    <2>3. CASE EnterConnect(t, waiters)
        BY <1>1, <2>1, <2>2, <2>3, ConnectGoes DEF EnterConnect, Steps
    <2>4. CASE pc' = [pc EXCEPT ![t] = "lock_connect"] /\ UNCHANGED <<try, then>>
        <3>1. Only(t) /\ pc'[t] = "lock_connect" /\ try'[t] = 0 /\ then'[t] = "none"
            BY <1>1, <2>1, <2>4 DEF TypeOK, Only
        <3>2. Goes(t, 0)
            BY <3>1 DEF Goes, Holds, Phase, Spent
        <3> QED BY <2>2, <3>2 DEF Steps
    <2> QED BY <1>2, <2>3, <2>4 DEF Begin
<1>3. CASE CloseClient(t)
    <2>1. Closes(t, "done", 0)
        BY <1>1, <1>3, CloseUnlockedGoes DEF CloseClient, Thens
    <2> QED BY <2>1 DEF Closes, Steps
<1> QED BY <1>2, <1>3 DEF BeginConnect, BeginRead, BeginSave

LEMMA ProgressSteps ==
  ASSUME IInv, NEW t \in Task, Progress(t)
  PROVE  Steps(t)
<1>0. /\ TypeOK /\ Settled(t) /\ try[t] \in 0 .. MaxReconnect
      /\ 0 \in 0 .. MaxReconnect
    BY Nav10Assumption DEF IInv, TypeOK
<1>1. ASSUME NEW k \in 0 .. MaxReconnect, Before(t, "pending", k), Goes(t, k)
      PROVE  Steps(t)
    BY <1>1 DEF Steps
<1>2. CASE Granted(t)
    <2>1. pc[t] \in Waiting
        BY <1>2 DEF Granted, Waiting
    <2>2. try[t] = 0 /\ then[t] = "none"
        BY <1>0, <2>1 DEF Settled, Fit, Waiting, Closing
    <2>3. Before(t, "pending", 0)
        BY <2>1, <2>2 DEF Before, Phase, Spent, Waiting
    <2>4. CASE EnterConnect(t, Tail(waiters))
        <3>1. Goes(t, 0)
            BY <1>0, <2>2, <2>4, ConnectGoes DEF EnterConnect
        <3> QED BY <1>0, <1>1, <2>3, <3>1
    <2>5. CASE SendOnce(t, 0)
        <3>1. Goes(t, 0)
            BY <1>0, <2>5, SendOnceGoes
        <3> QED BY <1>0, <1>1, <2>3, <3>1
    <2> QED BY <1>2, <2>4, <2>5 DEF Granted
<1>3. ASSUME pc[t] \in {"dialing", "authing", "sleeping"}
      PROVE  Before(t, "pending", try[t]) /\ then[t] = "none"
    <2>1. then[t] = "none"
        BY <1>0, <1>3 DEF Settled, Fit, Closing
    <2> QED BY <1>3, <2>1 DEF Before, Phase, Spent
<1>4. CASE DialSucceeds(t)
    <2>1. PICK s : Suspend(t, "authing", try[t], s, "none")
        BY <1>4 DEF DialSucceeds
    <2>2. Only(t) /\ pc'[t] = "authing" /\ try'[t] = try[t] /\ then'[t] = "none"
        BY <1>0, <2>1, SuspendGoes
    <2>3. Goes(t, try[t])
        BY <2>2 DEF Goes, Holds, Phase, Spent
    <2> QED BY <1>0, <1>1, <1>3, <1>4, <2>3 DEF DialSucceeds
<1>5. CASE AuthAccepted(t)
    <2>1. Goes(t, try[t])
        BY <1>0, <1>3, <1>5, ConnectGoes DEF AuthAccepted
    <2> QED BY <1>0, <1>1, <1>3, <1>5, <2>1 DEF AuthAccepted
<1>6. CASE ConnectFails(t)
    <2>1. CASE CloseUnlocked(t, "next", try[t])
        <3>1. Goes(t, try[t])
            BY <1>0, <2>1, CloseUnlockedGoes DEF Closes, Goes, Fails, Thens
        <3> QED BY <1>0, <1>1, <1>3, <1>6, <3>1 DEF ConnectFails
    <2>2. CASE CloseUnlocked(t, "raise", try[t])
        BY <1>0, <2>2, CloseUnlockedGoes DEF Closes, Steps, Thens
    <2> QED BY <1>6, <2>1, <2>2 DEF ConnectFails
<1>7. CASE Receive(t)
    <2>1. CASE pc' = [pc EXCEPT ![t] = "pausing"] /\ try' = [try EXCEPT ![t] = 0]
               /\ UNCHANGED then
        BY <1>0, <2>1 DEF TypeOK, Only, Ends, Phase, Steps
    <2>2. CASE \E r : Leave(t, r)
        BY <1>0, <2>2, LeaveEnds DEF Steps
    <2> QED BY <1>7, <2>1, <2>2 DEF Receive
<1>8. CASE RequestLost(t)
    <2>1. Before(t, "wire", try[t] + 1)
        BY <1>8 DEF RequestLost, Before, Phase, Spent
    <2>2. Fails(t, try[t])
        BY <1>0, <1>8, RequestFailsGoes DEF RequestLost
    <2> QED BY <1>0, <2>1, <2>2 DEF Steps
<1>9. CASE Resume(t)
    <2>1. pc[t] = "pausing" /\ try[t] = 0 /\ then[t] = "none"
        BY <1>0, <1>9 DEF Resume, Settled, Fit, Closing, Waiting
    <2>2. Before(t, "idle", 0)
        BY <2>1 DEF Before, Phase, Spent
    <2>3. Goes(t, 0)
        BY <1>0, <1>9, <2>1, AcquireForSendGoes DEF Resume
    <2> QED BY <2>2, <2>3 DEF Steps
<1>10. CASE Wake(t)
    <2>1. try[t] > 0
        BY <1>0, <1>10 DEF Wake, Settled, Fit
    <2>2. Goes(t, try[t])
        BY <1>0, <1>10, <2>1, ConnectGoes DEF Wake
    <2> QED BY <1>0, <1>1, <1>3, <1>10, <2>2 DEF Wake
<1>11. ASSUME pc[t] \in Closing, Closes(t, then[t], try[t])
       PROVE  Steps(t)
    <2>1. then[t] # "none"
        BY <1>0, <1>11 DEF Settled, Fit
    <2>2. CASE then[t] \in {"dial", "next"}
        <3>1. Before(t, "pending", try[t])
            BY <1>11, <2>2 DEF Before, Phase, Spent, Closing
        <3>2. Goes(t, try[t])
            BY <1>11, <2>2 DEF Closes, Goes, Fails
        <3> QED BY <1>0, <1>1, <3>1, <3>2
    <2>3. CASE then[t] \notin {"dial", "next"}
        BY <1>11, <2>3 DEF Closes, Steps
    <2> QED BY <2>2, <2>3
<1>12. CASE WebsocketClosed(t)
    <2>1. then[t] \in Thens \ {"none"} /\ pc[t] \in Closing
        BY <1>0, <1>12 DEF WebsocketClosed, Settled, Fit, Closing, TypeOK, Thens
    <2>2. Closes(t, then[t], try[t])
        BY <1>0, <1>12, <2>1, CloseSessionGoes DEF WebsocketClosed
    <2> QED BY <1>11, <2>1, <2>2
<1>13. CASE SessionClosed(t)
    <2>1. Closes(t, then[t], try[t])
        BY <1>0, <1>13, AfterCloseGoes DEF SessionClosed, Closes
    <2> QED BY <1>11, <1>13, <2>1 DEF SessionClosed, Closing
<1> QED BY <1>2, <1>4, <1>5, <1>6, <1>7, <1>8, <1>9, <1>10, <1>12, <1>13 DEF Progress

LEMMA CancelSteps ==
  ASSUME IInv, NEW t \in Task, CancelWaiting(t) \/ CancelInside(t)
  PROVE  Steps(t)
<1>0. TypeOK
    BY DEF IInv
<1>1. CASE CancelWaiting(t)
    <2>1. pc' = [pc EXCEPT ![t] = "idle"] /\ UNCHANGED <<try, then>>
        BY <1>1, Zenon DEF CancelWaiting
    <2> QED BY <1>0, <2>1 DEF TypeOK, Only, Ends, Phase, Steps
<1>2. CASE CloseUnlocked(t, "raise", try[t])
    BY <1>0, <1>2, CloseUnlockedGoes DEF Closes, Steps, Thens
<1>3. CASE Leave(t, "cancelled")
    BY <1>0, <1>3, LeaveEnds DEF Steps
<1> QED BY <1>1, <1>2, <1>3 DEF CancelInside

(* Such a step is a step of the abstract link, or none.                    *)

Phases == [t \in Task |-> Phase(t)]
Spents == [t \in Task |-> Spent(t)]

LEMMA WireIsFree ==
  ASSUME IInv, IInv', NEW t \in Task, Only(t), Phase(t)' = "wire", Phase(t) # "wire"
  PROVE  \A u \in Task : Phases[u] # "wire"
<1>1. pc'[t] = "receiving"
    BY DEF Phase
<1>2. ASSUME NEW u \in Task, Phases[u] = "wire" PROVE FALSE
    <2>1. pc[u] = "receiving" /\ u # t
        BY <1>2 DEF Phases, Phase
    <2>2. pc'[u] = "receiving"
        BY <2>1 DEF Only
    <2>3. PastLock(t)' /\ PastLock(u)'
        BY <1>1, <2>2 DEF PastLock, Inside, OnWire
    <2> QED BY <2>1, <2>3 DEF IInv, LockInv
<1> QED BY <1>2

LEMMA StepRefines ==
  ASSUME IInv, IInv', NEW t \in Task, Steps(t)
  PROVE  [Serial!Next]_<<Phases, Spents>>
<1>0. /\ MaxReconnect \in Nat /\ try[t] \in 0 .. MaxReconnect /\ try'[t] \in 0 .. MaxReconnect
      /\ Only(t)
    BY Nav10Assumption DEF IInv, TypeOK, Steps, Ends, Goes, Fails, Holds, Wires
<1>1. /\ Phases' = [Phases EXCEPT ![t] = Phase(t)']
      /\ Spents' = [Spents EXCEPT ![t] = Spent(t)']
      /\ Phases[t] = Phase(t) /\ Spents[t] = Spent(t)
    <2>1. \A u \in Task \ {t} : Phase(u)' = Phase(u) /\ Spent(u)' = Spent(u)
        BY <1>0 DEF Only, Phase, Spent
    <2> QED BY <2>1 DEF Phases, Spents
<1>2. /\ Phase(t) \in {"idle", "pending", "wire"}
      /\ Spent(t) \in 0 .. MaxReconnect + 1
      /\ Spent(t)' \in 0 .. MaxReconnect + 1
      /\ Phase(t) = "idle" => Spent(t) = 0
      /\ Phase(t)' = "idle" => Spent(t)' = 0
    BY <1>0 DEF Phase, Spent
<1>3. CASE Ends(t)
    <2>1. Phase(t)' = "idle" /\ Spent(t)' = 0
        BY <1>2, <1>3 DEF Ends
    <2>2. CASE Phase(t) = "idle"
        BY <1>1, <1>2, <2>1, <2>2 DEF Phases, Spents
    <2>3. CASE Phase(t) # "idle"
        <3>1. Serial!End(t)
            BY <1>1, <2>1, <2>3 DEF Serial!End, Phases, Spents
        <3> QED BY <3>1 DEF Serial!Next
    <2> QED BY <2>2, <2>3
<1>4. ASSUME NEW p, Phase(t)' = p, Spent(t)' = Spent(t) + 1
      PROVE  Serial!Spend(t, p)
    <2>1. Spent(t)' \in 1 .. 1 + MaxReconnect
        BY <1>0, <1>2, <1>4
    <2> QED BY <1>1, <1>4, <2>1 DEF Serial!Spend, Phases, Spents
<1>5. CASE Wires(t, Spent(t)) /\ Phase(t) # "wire"
    <2>1. Serial!WireFree
        BY <1>5, WireIsFree DEF Wires, Serial!WireFree, Phases
    <2>2. Serial!Spend(t, "wire")
        BY <1>4, <1>5 DEF Wires
    <2>3. Serial!Send(t)
        BY <2>1, <2>2 DEF Serial!Send
    <2> QED BY <2>3 DEF Serial!Next
<1>6. CASE Holds(t, Spent(t) + 1) /\ Phase(t) # "wire"
    <2>1. Serial!Spend(t, "pending")
        BY <1>4, <1>6 DEF Holds
    <2>2. Serial!Lose(t)
        BY <1>1, <1>6, <2>1 DEF Serial!Lose, Phases, Spents
    <2> QED BY <2>2 DEF Serial!Next
<1>7. CASE Holds(t, Spent(t))
    <2>1. Phase(t)' = "pending" /\ Spents' = Spents
        BY <1>1, <1>7 DEF Holds, Spents
    <2>2. CASE Phase(t) = "idle"
        <3>1. Serial!Begin(t)
            BY <1>1, <2>1, <2>2 DEF Serial!Begin, Phases, Spents
        <3> QED BY <3>1 DEF Serial!Next
    <2>3. CASE Phase(t) = "pending"
        BY <1>1, <2>1, <2>3 DEF Phases
    <2>4. CASE Phase(t) = "wire"
        <3>1. Serial!Answer(t)
            BY <1>1, <2>1, <2>4 DEF Serial!Answer, Phases, Spents
        <3> QED BY <3>1 DEF Serial!Next
    <2> QED BY <1>2, <2>2, <2>3, <2>4
<1>8. CASE Phase(t) # "wire" /\ Goes(t, Spent(t))
    BY <1>3, <1>5, <1>6, <1>7, <1>8 DEF Goes, Fails
<1>9. CASE \E k \in 0 .. MaxReconnect : Before(t, "wire", k + 1) /\ Fails(t, k)
    BY <1>3, <1>7, <1>9 DEF Before, Fails
<1>10. CASE \E k \in 0 .. MaxReconnect : Before(t, "pending", k) /\ Goes(t, k)
    BY <1>8, <1>10 DEF Before
<1>11. CASE Before(t, "idle", 0) /\ Goes(t, 0)
    BY <1>8, <1>11 DEF Before
<1> QED BY <1>3, <1>9, <1>10, <1>11 DEF Steps

LEMMA NextRefines ==
  ASSUME IInv, IInv', [Next]_vars
  PROVE  [Serial!Next]_<<Phases, Spents>>
<1>1. ASSUME NEW t \in Task, \/ BeginConnect(t) \/ BeginRead(t) \/ BeginSave(t)
                             \/ CloseClient(t) \/ Progress(t)
                             \/ CancelWaiting(t) \/ CancelInside(t)
      PROVE  [Serial!Next]_<<Phases, Spents>>
    BY <1>1, CallSteps, ProgressSteps, CancelSteps, StepRefines
<1>2. CASE UNCHANGED <<pc, try, then>>
    BY <1>2 DEF Phases, Spents, Phase, Spent
<1>3. CASE UNCHANGED vars
    BY <1>2, <1>3 DEF vars
<1>4. ASSUME NEW s \in Sock, PeerVanishes(s)
      PROVE  [Serial!Next]_<<Phases, Spents>>
    BY <1>2, <1>4 DEF PeerVanishes
<1> QED BY <1>1, <1>3, <1>4 DEF Next

(* The client that closes, dials, authenticates, sleeps and sends again    *)
(* implements the abstract serial link: one request on the wire at any     *)
(* time, at most 1 + max_reconnect_attempts of them for one request.       *)
THEOREM ImplementsSerialLink == Spec => SerialSpec
<1>1. Init => Serial!Init
    BY DEF Init, Serial!Init, Phase, Spent
<1>2. IInv /\ IInv' /\ [Next]_vars => [Serial!Next]_<<Phases, Spents>>
    BY NextRefines
<1> QED BY <1>1, <1>2, InvariantHolds, PTL DEF Spec, SerialSpec, Serial!Spec,
                                       Serial!abstractVars, Phases, Spents
=============================================================================
