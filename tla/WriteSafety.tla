----------------------------- MODULE WriteSafety -----------------------------
(***************************************************************************)
(* The write path of IdmModbusClient: write_register() validates, then     *)
(* awaits the connection and the lock, sends with retries, and only a      *)
(* write the controller acknowledged is recorded, in _last_eeprom_writes   *)
(* (the EEPROM throttle) or in _cyclic_write_deadlines (values that the    *)
(* controller drops unless they are written again).                        *)
(*                                                                         *)
(* The connection is abstracted to what ModbusConnection guarantees: one   *)
(* request on the wire, the lock kept across the retries of one call.      *)
(***************************************************************************)
EXTENDS Integers, FiniteSets

CONSTANTS
    Task,        \* concurrent callers
    Eeprom,      \* registers of WriteClass.EEPROM
    Cyclic,      \* registers of WriteClass.CYCLIC
    Interval,    \* eeprom_write_interval
    Ttl,         \* cyclic_write_ttl
    DeviceTtl,   \* how long the controller keeps a cyclic value
    Timeout,     \* longest wait for the answer to one request
    MaxRetries,  \* attempts per call
    MaxTime,     \* bound on the clock
    MaxCalls,    \* bound on the writes accepted in one behaviour
    Never        \* no entry in a dictionary

ASSUME WriteAssumption ==
    /\ {Interval, Ttl, DeviceTtl, Timeout, MaxRetries, MaxTime, MaxCalls} \subseteq Nat
    /\ Interval > 0 /\ MaxRetries > 0
    /\ Ttl + Timeout <= DeviceTtl
    /\ Eeprom \cap Cyclic = {}
    /\ Never \notin Nat

Register == Eeprom \cup Cyclic
Times == Nat \cup {Never}

VARIABLES
    now,          \* time.monotonic()
    lastWrite,    \* _last_eeprom_writes
    deadline,     \* _cyclic_write_deadlines
    call,         \* each caller's write
    calls,        \* writes accepted so far; the next one's number
    done,         \* per register, the acknowledged writes since the last reset
    burns,        \* the controller: every time it stored an EEPROM register
    deviceUntil   \* the controller: when it drops a cyclic value

vars == <<now, lastWrite, deadline, call, calls, done, burns, deviceUntil>>

(* stage: validated and awaiting the lock; request out; request out and    *)
(* stored by the controller; asleep between two attempts with the lock.    *)
Stages == {"queued", "sent", "stored", "backoff"}
OnWire == {"sent", "stored"}
Idle == [stage |-> "idle"]
Writing == [stage : Stages, reg : Register, id : Nat, after : SUBSET Nat,
            attempt : 0 .. MaxRetries, sentAt : Nat]

TypeOK ==
    /\ now \in Nat
    /\ lastWrite \in [Eeprom -> Times]
    /\ deadline \in [Cyclic -> Times]
    /\ call \in [Task -> Writing \cup {Idle}]
    /\ calls \in Nat
    /\ done \in [Register -> SUBSET Nat]
    /\ burns \in [Eeprom -> SUBSET [id : Nat, after : SUBSET Nat, time : Nat]]
    /\ deviceUntil \in [Cyclic -> Times]

Init ==
    /\ now = 0
    /\ lastWrite = [r \in Eeprom |-> Never]
    /\ deadline = [r \in Cyclic |-> Never]
    /\ call = [t \in Task |-> Idle]
    /\ calls = 0
    /\ done = [r \in Register |-> {}]
    /\ burns = [r \in Eeprom |-> {}]
    /\ deviceUntil = [r \in Cyclic |-> Never]

Active(t) == call[t] # Idle
LockFree(t) == \A u \in Task \ {t} : Active(u) => call[u].stage = "queued"

(* Time passes, but no request waits for its answer beyond the timeout.    *)
Tick ==
    /\ now < MaxTime
    /\ \A t \in Task : Active(t) /\ call[t].stage \in OnWire => now < call[t].sentAt + Timeout
    /\ now' = now + 1
    /\ UNCHANGED <<lastWrite, deadline, call, calls, done, burns, deviceUntil>>

OneShort(r) ==     \* mutant: the throttle is one second short
    ~(r \in Eeprom /\ lastWrite[r] # Never /\ now - lastWrite[r] < Interval - 1)

(* _validate_write_allowed(): a refused write changes nothing.             *)
Allowed(r) ==
    ~(r \in Eeprom /\ lastWrite[r] # Never /\ now - lastWrite[r] < Interval)

WriteRegister(t, r) ==
    /\ ~Active(t)
    /\ calls < MaxCalls
    /\ Allowed(r)
    /\ calls' = calls + 1
    /\ call' = [call EXCEPT ![t] =
          [stage |-> "queued", reg |-> r, id |-> calls', after |-> done[r],
           attempt |-> 0, sentAt |-> 0]]
    /\ UNCHANGED <<now, lastWrite, deadline, done, burns, deviceUntil>>

Send(t) ==
    /\ Active(t)
    /\ call[t].stage \in {"queued", "backoff"}
    /\ LockFree(t)
    /\ call' = [call EXCEPT ![t].stage = "sent", ![t].attempt = @ + 1, ![t].sentAt = now]
    /\ UNCHANGED <<now, lastWrite, deadline, calls, done, burns, deviceUntil>>

(* The controller stores the value; the caller does not know yet.          *)
Stored(t) ==
    /\ Active(t)
    /\ call[t].stage = "sent"
    /\ call' = [call EXCEPT ![t].stage = "stored"]
    /\ LET r == call[t].reg IN
          IF r \in Eeprom
          THEN /\ burns' = [burns EXCEPT ![r] = @ \cup
                      {[id |-> call[t].id, after |-> call[t].after, time |-> now]}]
               /\ UNCHANGED deviceUntil
          ELSE /\ deviceUntil' = [deviceUntil EXCEPT ![r] = now + DeviceTtl]
               /\ UNCHANGED burns
    /\ UNCHANGED <<now, lastWrite, deadline, calls, done>>

DeadlineFromDevice(t) ==   \* mutant: the deadline is the controller's time to live
    LET r == call[t].reg IN
        /\ lastWrite' = [s \in Eeprom |-> IF s = r THEN now ELSE lastWrite[s]]
        /\ deadline' = [s \in Cyclic |-> IF s = r THEN now + DeviceTtl ELSE deadline[s]]

(* _record_successful_write()                                              *)
Record(t) ==
    LET r == call[t].reg IN
        /\ lastWrite' = [s \in Eeprom |-> IF s = r THEN now ELSE lastWrite[s]]
        /\ deadline' = [s \in Cyclic |-> IF s = r THEN now + Ttl ELSE deadline[s]]

Acknowledged(t) ==
    /\ Active(t)
    /\ call[t].stage = "stored"
    /\ Record(t)
    /\ done' = [done EXCEPT ![call[t].reg] = @ \cup {call[t].id}]
    /\ call' = [call EXCEPT ![t] = Idle]
    /\ UNCHANGED <<now, calls, burns, deviceUntil>>

RecordsAnyway(t) ==    \* mutant: a failed write is recorded too
    /\ call' = [call EXCEPT ![t] = Idle]
    /\ Record(t)
    /\ UNCHANGED <<now, calls, done, burns, deviceUntil>>

(* The call raises: nothing is recorded.                                   *)
Raise(t) ==
    /\ call' = [call EXCEPT ![t] = Idle]
    /\ UNCHANGED <<now, lastWrite, deadline, calls, done, burns, deviceUntil>>

RetriesForEver(t) ==   \* mutant: the last attempt is not the last
    /\ Active(t)
    /\ call[t].stage \in OnWire
    /\ call' = [call EXCEPT ![t].stage = "backoff"]
    /\ UNCHANGED <<now, lastWrite, deadline, calls, done, burns, deviceUntil>>

(* No answer, or an answer that is an error but not Illegal Data Address:  *)
(* the next attempt, if there is one, sends the same value again.          *)
AttemptFails(t) ==
    /\ Active(t)
    /\ call[t].stage \in OnWire
    /\ \/ call[t].attempt = MaxRetries /\ Raise(t)
       \/ /\ call[t].attempt < MaxRetries
          /\ call' = [call EXCEPT ![t].stage = "backoff"]
          /\ UNCHANGED <<now, lastWrite, deadline, calls, done, burns, deviceUntil>>

(* The connection cannot be made, the controller rejects the address, or   *)
(* the caller is cancelled.                                                *)
Abandon(t) == Active(t) /\ Raise(t)

ResetWriteThrottle(r) ==
    /\ r \in Eeprom
    /\ lastWrite' = [lastWrite EXCEPT ![r] = Never]
    /\ done' = [done EXCEPT ![r] = {}]
    /\ UNCHANGED <<now, deadline, call, calls, burns, deviceUntil>>

ResetCyclicWriteState(r) ==
    /\ r \in Cyclic
    /\ deadline' = [deadline EXCEPT ![r] = Never]
    /\ UNCHANGED <<now, lastWrite, call, calls, done, burns, deviceUntil>>

Next ==
    \/ Tick
    \/ \E t \in Task :
          \/ \E r \in Register : WriteRegister(t, r)
          \/ Send(t) \/ Stored(t) \/ Acknowledged(t) \/ AttemptFails(t) \/ Abandon(t)
    \/ \E r \in Register : ResetWriteThrottle(r) \/ ResetCyclicWriteState(r)

Spec == Init /\ [][Next]_vars

-----------------------------------------------------------------------------
(* get_active_cyclic_writes() and get_expired_cyclic_writes()              *)
ActiveWrites == {r \in Cyclic : deadline[r] # Never /\ deadline[r] > now}
ExpiredWrites == {r \in Cyclic : deadline[r] # Never /\ deadline[r] <= now}

(* A write accepted after another write of the same EEPROM register had    *)
(* returned is stored at least the interval after it, whatever was lost,   *)
(* repeated or failed in between, unless the throttle was reset.           *)
SettledWritesAreSpaced ==
    \A r \in Eeprom : \A x, y \in burns[r] :
        x.id \in y.after => y.time - x.time >= Interval

(* The throttle only counts writes the controller acknowledged: a write    *)
(* that failed may be tried again at once.                                 *)
ThrottleIsEarned ==
    \A r \in Eeprom : lastWrite[r] # Never =>
        \E x \in burns[r] : x.id \in done[r] /\ x.time <= lastWrite[r]

(* A cyclic value reported as active is still held by the controller,      *)
(* although the deadline is counted from the answer and the controller     *)
(* counts from the request.                                                *)
ActiveIsHeld == \A r \in ActiveWrites : deviceUntil[r] # Never /\ deviceUntil[r] > now

(* eeprom_write_interval: "refusing a second write to the same EEPROM      *)
(* register within the interval" - for any two writes that both returned   *)
(* with no error, even if the second was called before the first had.      *)
SecondWriteRefused ==
    \A r \in Eeprom : \A x, y \in burns[r] :
        x.id < y.id /\ {x.id, y.id} \subseteq done[r] => y.time - x.time >= Interval
=============================================================================
