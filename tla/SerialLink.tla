----------------------------- MODULE SerialLink -----------------------------
(***************************************************************************)
(* What the connection core promises its callers, without locks, queues,   *)
(* sessions or flags: the controller sees one request at a time, and a     *)
(* call puts at most MaxRetries of them on the wire before it ends.        *)
(***************************************************************************)
EXTENDS Naturals

CONSTANTS Task, MaxRetries

VARIABLES
    phase,  \* "idle", "pending" in a call, "wire" while a request is out
    spent   \* the attempts the running call has spent

abstractVars == <<phase, spent>>

Init ==
    /\ phase = [t \in Task |-> "idle"]
    /\ spent = [t \in Task |-> 0]

WireFree == \A u \in Task : phase[u] # "wire"

Spend(t, where) ==
    \E n \in 1 .. MaxRetries :
        /\ n = spent[t] + 1
        /\ spent' = [spent EXCEPT ![t] = n]
        /\ phase' = [phase EXCEPT ![t] = where]

(* A call that cannot send yet begins without an attempt.                  *)
Begin(t) ==
    /\ phase[t] = "idle"
    /\ phase' = [phase EXCEPT ![t] = "pending"]
    /\ UNCHANGED spent

Send(t) == WireFree /\ Spend(t, "wire")

(* An attempt lost before it reached the wire: there was no session.       *)
Lose(t) == phase[t] # "wire" /\ Spend(t, "pending")

Answer(t) ==
    /\ phase[t] = "wire"
    /\ phase' = [phase EXCEPT ![t] = "pending"]
    /\ UNCHANGED spent

End(t) ==
    /\ phase[t] # "idle"
    /\ phase' = [phase EXCEPT ![t] = "idle"]
    /\ spent' = [spent EXCEPT ![t] = 0]

Next == \E t \in Task : Begin(t) \/ Send(t) \/ Lose(t) \/ Answer(t) \/ End(t)

Spec == Init /\ [][Next]_abstractVars
=============================================================================
