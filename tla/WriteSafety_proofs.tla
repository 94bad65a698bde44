------------------------- MODULE WriteSafety_proofs -------------------------
(***************************************************************************)
(* Proofs about WriteSafety, for every set of registers and callers, every *)
(* interval and time to live.                                              *)
(***************************************************************************)
EXTENDS WriteSafety, TLAPS

(* Writes are numbered: a running write is not settled, and no write was   *)
(* accepted after it.                                                      *)
NumberInv ==
    /\ \A r \in Register : \A i \in done[r] : i <= calls
    /\ \A t \in Task : Active(t) =>
          /\ call[t].id <= calls
          /\ \A r \in Register : call[t].id \notin done[r]
          /\ \A i \in call[t].after : i <= calls
          /\ \A u \in Task : Active(u) =>
                /\ call[t].id \notin call[u].after
                /\ u # t => call[u].id # call[t].id
    /\ \A r \in Eeprom : \A x \in burns[r] :
          /\ \A i \in x.after : i <= calls
          /\ \A t \in Task : Active(t) => call[t].id \notin x.after

(* The throttle is no older than any settled write, and a write is         *)
(* accepted only when the writes settled before it are an interval old.    *)
ThrottleInv ==
    /\ \A r \in Eeprom : \A x \in burns[r] :
          /\ x.time <= now
          /\ x.id \in done[r] => lastWrite[r] # Never /\ x.time <= lastWrite[r]
    /\ \A t \in Task : Active(t) /\ call[t].reg \in Eeprom =>
          /\ \A x \in burns[call[t].reg] : x.id \in call[t].after => now - x.time >= Interval
          /\ call[t].stage = "stored" => \E x \in burns[call[t].reg] : x.id = call[t].id
    /\ \A r \in Eeprom : lastWrite[r] # Never => lastWrite[r] <= now

(* The controller's own timer is never behind the client's deadline.       *)
DeadlineInv ==
    /\ \A r \in Cyclic : deviceUntil[r] # Never => deviceUntil[r] <= now + DeviceTtl
    /\ \A r \in Cyclic : deadline[r] # Never =>
          deviceUntil[r] # Never /\ deadline[r] <= deviceUntil[r]
    /\ \A t \in Task : Active(t) /\ call[t].stage \in OnWire =>
          /\ call[t].sentAt <= now
          /\ now <= call[t].sentAt + Timeout
          /\ call[t].stage = "stored" /\ call[t].reg \in Cyclic =>
                /\ deviceUntil[call[t].reg] # Never
                /\ call[t].sentAt + DeviceTtl <= deviceUntil[call[t].reg]

(* A write that waits or sleeps has an attempt left.                       *)
AttemptInv ==
    \A t \in Task : Active(t) /\ call[t].stage \in {"queued", "backoff"} =>
        call[t].attempt < MaxRetries

IInv ==
    /\ TypeOK
    /\ AttemptInv
    /\ NumberInv
    /\ ThrottleInv
    /\ DeadlineInv
    /\ SettledWritesAreSpaced
    /\ ThrottleIsEarned

-----------------------------------------------------------------------------
LEMMA Bounds ==
    /\ Interval \in Nat /\ Interval > 0
    /\ Ttl \in Nat /\ DeviceTtl \in Nat /\ Timeout \in Nat /\ Ttl + Timeout <= DeviceTtl
    /\ MaxRetries \in Nat /\ MaxRetries > 0
    /\ Eeprom \cap Cyclic = {} /\ Never \notin Nat
BY WriteAssumption DEF WriteAssumption

LEMMA ActiveIsWriting ==
    ASSUME TypeOK, NEW t \in Task
    PROVE  Active(t) <=> call[t] \in Writing
BY DEF TypeOK, Active, Idle, Writing, Stages

LEMMA InitIInv == Init => IInv
<1> SUFFICES ASSUME Init PROVE IInv
    OBVIOUS
<1> USE DEF Init
<1>1. TypeOK
    BY DEF TypeOK, Times
<1>2. \A t \in Task : ~Active(t)
    BY DEF Active
<1>3. /\ AttemptInv /\ NumberInv /\ ThrottleInv /\ DeadlineInv
      /\ SettledWritesAreSpaced /\ ThrottleIsEarned
    BY <1>2 DEF AttemptInv, NumberInv, ThrottleInv, DeadlineInv, SettledWritesAreSpaced, ThrottleIsEarned,
                Register
<1> QED BY <1>1, <1>3 DEF IInv

(* A step that only changes what task t is doing, without settling the     *)
(* write or putting the request on the wire, keeps the invariant.          *)
LEMMA RaiseIInv ==
    ASSUME IInv, NEW t \in Task, Raise(t)
    PROVE  IInv'
<1> USE DEF Raise
<1>1. TypeOK'
    BY DEF IInv, TypeOK
<1>2. /\ ~Active(t)'
      /\ \A u \in Task : u # t => call'[u] = call[u] /\ (Active(u)' <=> Active(u))
    BY DEF IInv, TypeOK, Active
<1>3. NumberInv' /\ AttemptInv'
    BY <1>2 DEF IInv, NumberInv, AttemptInv
<1>4. ThrottleInv'
    BY <1>2 DEF IInv, ThrottleInv
<1>5. DeadlineInv'
    BY <1>2 DEF IInv, DeadlineInv
<1>6. SettledWritesAreSpaced' /\ ThrottleIsEarned'
    BY DEF IInv, SettledWritesAreSpaced, ThrottleIsEarned
<1> QED BY <1>1, <1>3, <1>4, <1>5, <1>6 DEF IInv

LEMMA TickIInv ==
    ASSUME IInv, Tick
    PROVE  IInv'
<1> USE Bounds DEF Tick
<1>1. TypeOK' /\ now' \in Nat /\ now' = now + 1
    BY DEF IInv, TypeOK
<1>2. \A t \in Task : Active(t)' <=> Active(t)
    BY DEF Active
<1>3. NumberInv' /\ AttemptInv'
    BY <1>2 DEF IInv, NumberInv, AttemptInv
<1>4. ThrottleInv'
    BY <1>1, <1>2, ActiveIsWriting DEF IInv, TypeOK, ThrottleInv, Times
<1>5. DeadlineInv'
    BY <1>1, <1>2, ActiveIsWriting DEF IInv, TypeOK, DeadlineInv, Times, Writing, OnWire
<1>6. SettledWritesAreSpaced' /\ ThrottleIsEarned'
    BY DEF IInv, SettledWritesAreSpaced, ThrottleIsEarned
<1> QED BY <1>1, <1>3, <1>4, <1>5, <1>6 DEF IInv

(* An active write stays the same write when its stage changes.            *)
SameWrite(t) ==
    /\ Active(t)
    /\ call'[t] \in Writing
    /\ call'[t].reg = call[t].reg
    /\ call'[t].id = call[t].id
    /\ call'[t].after = call[t].after
    /\ \A u \in Task : u # t => call'[u] = call[u]

LEMMA SameWriteActive ==
    ASSUME TypeOK, NEW t \in Task, SameWrite(t)
    PROVE  \A u \in Task : Active(u)' <=> Active(u)
BY DEF SameWrite, Active, Idle, Writing, Stages

LEMMA MoveIInv ==
    ASSUME IInv, NEW t \in Task, SameWrite(t), call' \in [Task -> Writing \cup {Idle}],
           \/ call'[t].stage = "backoff" /\ call'[t].attempt < MaxRetries
           \/ call'[t].stage = "sent" /\ call'[t].sentAt = now,
           UNCHANGED <<now, lastWrite, deadline, calls, done, burns, deviceUntil>>
    PROVE  IInv'
<1> USE Bounds
<1>1. TypeOK'
    BY DEF IInv, TypeOK
<1>2. \A u \in Task : Active(u)' <=> Active(u)
    BY SameWriteActive DEF IInv
<1>3. NumberInv' /\ AttemptInv'
    BY <1>2 DEF IInv, NumberInv, AttemptInv, SameWrite
<1>4. ThrottleInv'
    BY <1>2 DEF IInv, ThrottleInv, SameWrite
<1>5. DeadlineInv'
    BY <1>2 DEF IInv, TypeOK, DeadlineInv, SameWrite, OnWire
<1>6. SettledWritesAreSpaced' /\ ThrottleIsEarned'
    BY DEF IInv, SettledWritesAreSpaced, ThrottleIsEarned
<1> QED BY <1>1, <1>3, <1>4, <1>5, <1>6 DEF IInv

LEMMA SendIInv ==
    ASSUME IInv, NEW t \in Task, Send(t)
    PROVE  IInv'
<1>1. call[t] \in Writing /\ Active(t)
    BY ActiveIsWriting DEF IInv, Send
<1>2. /\ call' = [call EXCEPT ![t] = [call[t] EXCEPT !.stage = "sent", !.attempt = @ + 1,
                                                     !.sentAt = now]]
      /\ call[t].attempt + 1 \in 0 .. MaxRetries
    BY <1>1, Bounds DEF IInv, TypeOK, AttemptInv, Send, Writing
<1>3. call'[t] \in Writing /\ call' \in [Task -> Writing \cup {Idle}]
    BY <1>1, <1>2 DEF IInv, TypeOK, Writing, Stages
<1>4. SameWrite(t) /\ call'[t].stage = "sent" /\ call'[t].sentAt = now
    BY <1>1, <1>2, <1>3 DEF IInv, TypeOK, SameWrite, Writing
<1> QED BY <1>3, <1>4, MoveIInv DEF Send

LEMMA AttemptFailsIInv ==
    ASSUME IInv, NEW t \in Task, AttemptFails(t)
    PROVE  IInv'
<1>1. CASE Raise(t)
    BY <1>1, RaiseIInv
<1>2. CASE /\ call[t].attempt < MaxRetries
           /\ call' = [call EXCEPT ![t].stage = "backoff"]
           /\ UNCHANGED <<now, lastWrite, deadline, calls, done, burns, deviceUntil>>
    <2>1. call[t] \in Writing /\ Active(t)
        BY ActiveIsWriting DEF IInv, AttemptFails
    <2>2. call'[t] \in Writing /\ call' \in [Task -> Writing \cup {Idle}]
        BY <1>2, <2>1 DEF IInv, TypeOK, Writing, Stages
    <2>3. SameWrite(t) /\ call'[t].stage = "backoff" /\ call'[t].attempt < MaxRetries
        BY <1>2, <2>1, <2>2 DEF IInv, TypeOK, SameWrite, Writing
    <2> QED BY <1>2, <2>2, <2>3, MoveIInv
<1> QED BY <1>1, <1>2 DEF AttemptFails

LEMMA ResetIInv ==
    ASSUME IInv, NEW r \in Register, ResetWriteThrottle(r) \/ ResetCyclicWriteState(r)
    PROVE  IInv'
<1> USE Bounds DEF ResetWriteThrottle, ResetCyclicWriteState
<1>1. TypeOK'
    BY DEF IInv, TypeOK, Times, Register
<1>2. \A u \in Task : Active(u)' <=> Active(u)
    BY DEF Active
<1>3. \A s \in Register : done'[s] \subseteq done[s]
    BY DEF IInv, TypeOK
<1>4. NumberInv' /\ AttemptInv'
    BY <1>2, <1>3 DEF IInv, NumberInv, AttemptInv
<1>5. ThrottleInv'
    BY <1>2 DEF IInv, TypeOK, ThrottleInv, Register
<1>6. DeadlineInv'
    BY <1>2 DEF IInv, TypeOK, DeadlineInv
<1>7. SettledWritesAreSpaced' /\ ThrottleIsEarned'
    BY DEF IInv, TypeOK, SettledWritesAreSpaced, ThrottleIsEarned, Register
<1> QED BY <1>1, <1>4, <1>5, <1>6, <1>7 DEF IInv

LEMMA WriteRegisterIInv ==
    ASSUME IInv, NEW t \in Task, NEW r \in Register, WriteRegister(t, r)
    PROVE  IInv'
<1> USE Bounds DEF WriteRegister
<1> DEFINE new == [stage |-> "queued", reg |-> r, id |-> calls', after |-> done[r],
                   attempt |-> 0, sentAt |-> 0]
<1>1. /\ call' = [call EXCEPT ![t] = new]
      /\ calls' = calls + 1 /\ calls \in Nat
      /\ new \in Writing
    BY DEF IInv, TypeOK, Writing, Stages
<1>2. TypeOK'
    BY <1>1 DEF IInv, TypeOK
<1>3. /\ call'[t] = new
      /\ \A u \in Task : u # t => call'[u] = call[u] /\ (Active(u)' <=> Active(u))
      /\ Active(t)' /\ ~Active(t)
    BY <1>1 DEF IInv, TypeOK, Active, Idle, Writing, Stages
<1> HIDE DEF new
<1>4. new.id = calls + 1 /\ new.after = done[r] /\ new.reg = r /\ new.stage = "queued"
      /\ new.attempt = 0
    BY <1>1 DEF new
<1>5. NumberInv'
    <2>1. \A s \in Register : \A i \in done'[s] : i <= calls'
        BY <1>1 DEF IInv, TypeOK, NumberInv
    <2>2. \A u \in Task : Active(u)' =>
              /\ call'[u].id <= calls'
              /\ \A s \in Register : call'[u].id \notin done'[s]
              /\ \A i \in call'[u].after : i <= calls'
        BY <1>1, <1>3, <1>4, ActiveIsWriting DEF IInv, TypeOK, NumberInv, Writing
    <2>3. \A u, v \in Task : Active(u)' /\ Active(v)' =>
              /\ call'[u].id \notin call'[v].after
              /\ v # u => call'[v].id # call'[u].id
        BY <1>1, <1>3, <1>4, ActiveIsWriting DEF IInv, TypeOK, NumberInv, Writing
    <2>4. \A s \in Eeprom : \A x \in burns'[s] :
              /\ \A i \in x.after : i <= calls'
              /\ \A u \in Task : Active(u)' => call'[u].id \notin x.after
        BY <1>1, <1>3, <1>4 DEF IInv, TypeOK, NumberInv
    <2> QED BY <2>1, <2>2, <2>3, <2>4 DEF NumberInv
<1>6. ThrottleInv'
    <2>1. r \in Eeprom => \A x \in burns[r] : x.id \in done[r] => now - x.time >= Interval
        BY DEF IInv, TypeOK, ThrottleInv, Allowed, Times
    <2> QED BY <1>3, <1>4, <2>1 DEF IInv, ThrottleInv
<1>7. DeadlineInv'
    BY <1>3, <1>4 DEF IInv, DeadlineInv, OnWire
<1>8. AttemptInv'
    BY <1>3, <1>4 DEF IInv, AttemptInv
<1>9. SettledWritesAreSpaced' /\ ThrottleIsEarned'
    BY DEF IInv, SettledWritesAreSpaced, ThrottleIsEarned
<1> QED BY <1>2, <1>5, <1>6, <1>7, <1>8, <1>9 DEF IInv

LEMMA StoredIInv ==
    ASSUME IInv, NEW t \in Task, Stored(t)
    PROVE  IInv'
<1> USE Bounds
<1> DEFINE r == call[t].reg
           new == [id |-> call[t].id, after |-> call[t].after, time |-> now]
<1>1. call[t] \in Writing /\ Active(t) /\ r \in Register
    BY ActiveIsWriting DEF IInv, Stored, Writing
<1>2. call' = [call EXCEPT ![t] = [call[t] EXCEPT !.stage = "stored"]]
    BY DEF Stored
<1>3. call'[t] \in Writing /\ call' \in [Task -> Writing \cup {Idle}]
    BY <1>1, <1>2 DEF IInv, TypeOK, Writing, Stages
<1>4. SameWrite(t) /\ call'[t].stage = "stored" /\ call'[t].sentAt = call[t].sentAt
    BY <1>1, <1>2, <1>3 DEF IInv, TypeOK, SameWrite, Writing
<1>5. \A u \in Task : Active(u)' <=> Active(u)
    BY <1>4, SameWriteActive DEF IInv
<1>6. UNCHANGED <<now, lastWrite, deadline, calls, done>>
    BY DEF Stored
<1>7. new \in [id : Nat, after : SUBSET Nat, time : Nat]
    BY <1>1 DEF IInv, TypeOK, Writing
<1>8. AttemptInv'
    BY <1>4, <1>5 DEF IInv, AttemptInv, SameWrite
<1>9. CASE r \in Eeprom
    <2>1. burns' = [burns EXCEPT ![r] = @ \cup {new}] /\ UNCHANGED deviceUntil
        BY <1>9 DEF Stored
    <2>2. TypeOK'
        BY <1>3, <1>6, <1>7, <2>1 DEF IInv, TypeOK
    <2>3. \A s \in Eeprom : \A x \in burns'[s] : x \in burns[s] \/ (s = r /\ x = new)
        BY <1>9, <2>1 DEF IInv, TypeOK
    <2>4. new.id = call[t].id /\ new.after = call[t].after /\ new.time = now
        OBVIOUS
    <2>5. new \in burns'[r]
        BY <1>9, <2>1 DEF IInv, TypeOK
    <2>6. \A s \in Eeprom : burns[s] \subseteq burns'[s]
        BY <1>9, <2>1 DEF IInv, TypeOK
    <2> HIDE DEF new
    <2>7. NumberInv'
        BY <1>1, <1>4, <1>5, <1>6, <2>3, <2>4 DEF IInv, NumberInv, SameWrite
    <2>8. ThrottleInv'
        <3>1. \A s \in Eeprom : \A x \in burns'[s] :
                  /\ x.time <= now'
                  /\ x.id \in done'[s] => lastWrite'[s] # Never /\ x.time <= lastWrite'[s]
            BY <1>1, <1>6, <2>3, <2>4 DEF IInv, TypeOK, ThrottleInv, NumberInv
        <3>2. \A u \in Task : Active(u)' /\ call'[u].reg \in Eeprom =>
                  \A x \in burns'[call'[u].reg] : x.id \in call'[u].after =>
                      now' - x.time >= Interval
            BY <1>1, <1>4, <1>5, <1>6, <2>3, <2>4 DEF IInv, ThrottleInv, NumberInv, SameWrite
        <3>3. \A u \in Task :
                  Active(u)' /\ call'[u].reg \in Eeprom /\ call'[u].stage = "stored" =>
                      \E x \in burns'[call'[u].reg] : x.id = call'[u].id
            BY <1>4, <1>5, <2>4, <2>5, <2>6 DEF IInv, ThrottleInv, SameWrite
        <3> QED BY <1>6, <3>1, <3>2, <3>3 DEF IInv, ThrottleInv
    <2>9. DeadlineInv'
        BY <1>1, <1>4, <1>5, <1>6, <1>9, <2>1
           DEF IInv, DeadlineInv, SameWrite, OnWire, Stored
    <2>10. SettledWritesAreSpaced'
        <3> SUFFICES ASSUME NEW s \in Eeprom, NEW x \in burns'[s], NEW y \in burns'[s],
                            x.id \in y.after
                     PROVE  y.time - x.time >= Interval
            BY DEF SettledWritesAreSpaced
        <3>1. CASE x \in burns[s] /\ y \in burns[s]
            BY <3>1 DEF IInv, SettledWritesAreSpaced
        <3>2. CASE x \in burns[s] /\ s = r /\ y = new
            BY <1>1, <1>9, <2>4, <3>2 DEF IInv, ThrottleInv
        <3>3. CASE s = r /\ x = new
            BY <1>1, <2>3, <2>4, <3>3 DEF IInv, NumberInv
        <3> QED BY <2>3, <3>1, <3>2, <3>3
    <2>11. ThrottleIsEarned'
        BY <1>6, <2>6 DEF IInv, ThrottleIsEarned
    <2> QED BY <1>8, <2>2, <2>7, <2>8, <2>9, <2>10, <2>11 DEF IInv
<1>10. CASE r \in Cyclic
    <2>1. deviceUntil' = [deviceUntil EXCEPT ![r] = now + DeviceTtl] /\ UNCHANGED burns
        BY <1>10 DEF Stored
    <2>2. TypeOK'
        BY <1>3, <1>6, <1>10, <2>1 DEF IInv, TypeOK, Times
    <2>3. NumberInv'
        BY <1>4, <1>5, <1>6, <2>1 DEF IInv, NumberInv, SameWrite
    <2>4. ThrottleInv'
        BY <1>4, <1>5, <1>6, <1>10, <2>1 DEF IInv, ThrottleInv, SameWrite
    <2>5. DeadlineInv'
        <3>1. /\ deviceUntil'[r] = now + DeviceTtl
              /\ \A s \in Cyclic : s # r => deviceUntil'[s] = deviceUntil[s]
              /\ now \in Nat
            BY <1>10, <2>1 DEF IInv, TypeOK
        <3>2. \A s \in Cyclic : deviceUntil'[s] # Never => deviceUntil'[s] <= now' + DeviceTtl
            BY <1>6, <3>1 DEF IInv, DeadlineInv
        <3>3. \A s \in Cyclic : deadline'[s] # Never =>
                  deviceUntil'[s] # Never /\ deadline'[s] <= deviceUntil'[s]
            BY <1>6, <3>1 DEF IInv, TypeOK, DeadlineInv, Times
        <3>4. ASSUME NEW u \in Task, Active(u)', call'[u].stage \in OnWire
              PROVE  /\ call'[u].sentAt <= now'
                     /\ now' <= call'[u].sentAt + Timeout
                     /\ call'[u].stage = "stored" /\ call'[u].reg \in Cyclic =>
                           /\ deviceUntil'[call'[u].reg] # Never
                           /\ call'[u].sentAt + DeviceTtl <= deviceUntil'[call'[u].reg]
            <4>1. CASE u = t
                BY <1>1, <1>4, <1>6, <3>1, <4>1
                   DEF IInv, DeadlineInv, SameWrite, Stored, OnWire, Writing
            <4>2. CASE u # t
                <5>1. call'[u] = call[u] /\ Active(u) /\ call[u] \in Writing
                    BY <1>4, <1>5, <3>4, <4>2, ActiveIsWriting DEF SameWrite, IInv
                <5>2. /\ call[u].sentAt <= now /\ now <= call[u].sentAt + Timeout
                      /\ call[u].stage = "stored" /\ call[u].reg \in Cyclic =>
                            /\ deviceUntil[call[u].reg] # Never
                            /\ call[u].sentAt + DeviceTtl <= deviceUntil[call[u].reg]
                    BY <3>4, <5>1 DEF IInv, DeadlineInv
                <5> QED BY <1>6, <3>1, <5>1, <5>2 DEF IInv, TypeOK, Writing, Times
            <4> QED BY <4>1, <4>2
        <3> QED BY <3>2, <3>3, <3>4 DEF DeadlineInv
    <2>6. SettledWritesAreSpaced' /\ ThrottleIsEarned'
        BY <1>6, <2>1 DEF IInv, SettledWritesAreSpaced, ThrottleIsEarned
    <2> QED BY <1>8, <2>2, <2>3, <2>4, <2>5, <2>6 DEF IInv
<1> QED BY <1>1, <1>9, <1>10 DEF Register

LEMMA AcknowledgedIInv ==
    ASSUME IInv, NEW t \in Task, Acknowledged(t)
    PROVE  IInv'
<1> USE Bounds
<1> DEFINE r == call[t].reg
           id == call[t].id
<1>1. /\ call[t] \in Writing /\ Active(t) /\ call[t].stage = "stored"
      /\ r \in Register /\ id \in Nat /\ now \in Nat
    BY ActiveIsWriting DEF IInv, TypeOK, Acknowledged, Writing
<1>2. /\ call' = [call EXCEPT ![t] = Idle]
      /\ done' = [done EXCEPT ![r] = @ \cup {id}]
      /\ lastWrite' = [s \in Eeprom |-> IF s = r THEN now ELSE lastWrite[s]]
      /\ deadline' = [s \in Cyclic |-> IF s = r THEN now + Ttl ELSE deadline[s]]
      /\ UNCHANGED <<now, calls, burns, deviceUntil>>
    BY DEF Acknowledged, Record
<1>3. TypeOK'
    <2>1. lastWrite' \in [Eeprom -> Times] /\ deadline' \in [Cyclic -> Times]
        BY <1>1, <1>2 DEF IInv, TypeOK, Times
    <2> QED BY <1>1, <1>2, <2>1 DEF IInv, TypeOK
<1>4. /\ ~Active(t)'
      /\ \A u \in Task : u # t => call'[u] = call[u] /\ (Active(u)' <=> Active(u))
    BY <1>2 DEF IInv, TypeOK, Active
<1>5. \A s \in Register : \A i \in done'[s] : i \in done[s] \/ (s = r /\ i = id)
    BY <1>1, <1>2 DEF IInv, TypeOK
<1>6. NumberInv'
    <2>1. \A s \in Register : \A i \in done'[s] : i <= calls'
        BY <1>1, <1>2, <1>5 DEF IInv, NumberInv
    <2>2. \A u \in Task : Active(u)' =>
              /\ call'[u].id <= calls'
              /\ \A s \in Register : call'[u].id \notin done'[s]
              /\ \A i \in call'[u].after : i <= calls'
              /\ \A v \in Task : Active(v)' =>
                    /\ call'[u].id \notin call'[v].after
                    /\ v # u => call'[v].id # call'[u].id
        BY <1>1, <1>2, <1>4, <1>5 DEF IInv, NumberInv
    <2>3. \A s \in Eeprom : \A x \in burns'[s] :
              /\ \A i \in x.after : i <= calls'
              /\ \A u \in Task : Active(u)' => call'[u].id \notin x.after
        BY <1>2, <1>4 DEF IInv, NumberInv
    <2> QED BY <2>1, <2>2, <2>3 DEF NumberInv
<1>7. ThrottleInv'
    <2>1. \A s \in Eeprom : \A x \in burns'[s] :
              /\ x.time <= now'
              /\ x.id \in done'[s] => lastWrite'[s] # Never /\ x.time <= lastWrite'[s]
        BY <1>1, <1>2, <1>5 DEF IInv, ThrottleInv, Register
    <2>2. \A u \in Task : Active(u)' /\ call'[u].reg \in Eeprom =>
              /\ \A x \in burns'[call'[u].reg] : x.id \in call'[u].after =>
                    now' - x.time >= Interval
              /\ call'[u].stage = "stored" => \E x \in burns'[call'[u].reg] : x.id = call'[u].id
        BY <1>2, <1>4 DEF IInv, ThrottleInv
    <2>3. \A s \in Eeprom : lastWrite'[s] # Never => lastWrite'[s] <= now'
        BY <1>1, <1>2 DEF IInv, ThrottleInv
    <2> QED BY <2>1, <2>2, <2>3 DEF ThrottleInv
<1>8. DeadlineInv'
    <2>1. r \in Cyclic => deviceUntil[r] # Never /\ now + Ttl <= deviceUntil[r]
        <3> SUFFICES ASSUME r \in Cyclic
                     PROVE  deviceUntil[r] # Never /\ now + Ttl <= deviceUntil[r]
            OBVIOUS
        <3>1. /\ now <= call[t].sentAt + Timeout
              /\ deviceUntil[r] # Never
              /\ call[t].sentAt + DeviceTtl <= deviceUntil[r]
            BY <1>1 DEF IInv, DeadlineInv, OnWire
        <3>2. deviceUntil[r] \in Nat /\ call[t].sentAt \in Nat
            BY <1>1, <3>1 DEF IInv, TypeOK, Times, Writing
        <3> QED BY <1>1, <3>1, <3>2
    <2>2. \A s \in Cyclic : deadline'[s] # Never =>
              deviceUntil'[s] # Never /\ deadline'[s] <= deviceUntil'[s]
        BY <1>2, <2>1 DEF IInv, DeadlineInv
    <2> QED BY <1>2, <1>4, <2>2 DEF IInv, DeadlineInv
<1>9. AttemptInv'
    BY <1>4 DEF IInv, AttemptInv
<1>10. SettledWritesAreSpaced'
    BY <1>2 DEF IInv, SettledWritesAreSpaced
<1>11. ThrottleIsEarned'
    <2> SUFFICES ASSUME NEW s \in Eeprom, lastWrite'[s] # Never
                 PROVE  \E x \in burns'[s] : x.id \in done'[s] /\ x.time <= lastWrite'[s]
        BY DEF ThrottleIsEarned
    <2>1. CASE s = r
        <3>1. PICK x \in burns[r] : x.id = id
            BY <1>1, <2>1 DEF IInv, ThrottleInv
        <3>2. x.time <= now /\ id \in done'[r]
            BY <1>1, <1>2, <2>1, <3>1 DEF IInv, TypeOK, ThrottleInv
        <3> QED BY <1>2, <2>1, <3>1, <3>2
    <2>2. CASE s # r
        BY <1>1, <1>2, <2>2 DEF IInv, TypeOK, ThrottleIsEarned, Register
    <2> QED BY <2>1, <2>2
<1> QED BY <1>3, <1>6, <1>7, <1>8, <1>9, <1>10, <1>11 DEF IInv

-----------------------------------------------------------------------------
LEMMA StutterIInv == IInv /\ UNCHANGED vars => IInv'
BY DEF IInv, TypeOK, AttemptInv, NumberInv, ThrottleInv, DeadlineInv, SettledWritesAreSpaced,
       ThrottleIsEarned, Active, vars

(* The inductive invariant of the write path.                              *)
THEOREM InvariantHolds == Spec => []IInv
<1>1. Init => IInv
    BY InitIInv
<1>2. IInv /\ [Next]_vars => IInv'
    BY TickIInv, WriteRegisterIInv, SendIInv, StoredIInv, AcknowledgedIInv, AttemptFailsIInv,
       RaiseIInv, ResetIInv, StutterIInv DEF Next, Abandon
<1> QED BY <1>1, <1>2, PTL DEF Spec

(* Every variable keeps its type; no call is sent more than MaxRetries     *)
(* times.                                                                  *)
THEOREM TypeCorrect == Spec => []TypeOK
<1>1. IInv => TypeOK
    BY DEF IInv
<1> QED BY <1>1, InvariantHolds, PTL

(* Writes that do not overlap are stored at least an interval apart.       *)
THEOREM ThrottleHolds == Spec => []SettledWritesAreSpaced
<1>1. IInv => SettledWritesAreSpaced
    BY DEF IInv
<1> QED BY <1>1, InvariantHolds, PTL

(* The throttle never counts a write that was not acknowledged.            *)
THEOREM ThrottleCountsAcknowledged == Spec => []ThrottleIsEarned
<1>1. IInv => ThrottleIsEarned
    BY DEF IInv
<1> QED BY <1>1, InvariantHolds, PTL

(* The controller still holds every cyclic value reported as active.       *)
THEOREM ActiveValuesAreHeld == Spec => []ActiveIsHeld
<1>1. IInv => ActiveIsHeld
    BY Bounds DEF IInv, TypeOK, DeadlineInv, ActiveIsHeld, ActiveWrites, Times
<1> QED BY <1>1, InvariantHolds, PTL
=============================================================================
