---------------------------- MODULE RegisterReads ----------------------------
(***************************************************************************)
(* read_batch() of IdmModbusClient and what it remembers between polls:    *)
(* grouped reads with a fallback to individual ones, the quarantine of     *)
(* registers whose grouped value was implausible, the failure counters and *)
(* the registers given up.  Concurrent polls share all of it and           *)
(* interleave at every request.                                            *)
(*                                                                         *)
(* A register is its address; all are one word wide, readable and of one   *)
(* type, so a group is a run of consecutive addresses.  An answer that is  *)
(* too short is rejected before it gets here, and decode_value() cannot    *)
(* raise on one that is not.  The log and the outcomes kept for            *)
(* diagnostics are left out: no branch of the code reads them.             *)
(***************************************************************************)
EXTENDS Naturals, FiniteSets

CONSTANTS
    Poller,         \* tasks that call read_batch()
    Register,       \* the addresses polled
    Unimplemented,  \* those the controller rejects: Illegal Data Address
    Lists,          \* the register lists that are polled
    Faulty,         \* those whose own reads can fail or be out of range
    Threshold       \* _PERMANENT_FAILURE_THRESHOLD

ASSUME ReadsAssumption ==
    /\ IsFiniteSet(Poller)
    /\ Register \subseteq Nat
    /\ Lists \subseteq SUBSET Register
    /\ Unimplemented \subseteq Register
    /\ Faulty \subseteq Register \ Unimplemented
    /\ Threshold \in Nat \ {0}

VARIABLES
    permFailed,   \* _permanently_failed_registers
    unsupported,  \* _unsupported_registers
    failures,     \* _register_failures; 0 for no entry
    unsafe,       \* _batch_unsafe_registers
    poll,         \* each poller's read_batch()
    streak,       \* per register, device errors since it last read valid
    learned       \* registers of the polls completed since the last reset

tracking == <<permFailed, unsupported, failures, unsafe>>
vars == <<tracking, poll, streak, learned>>

(* stage: awaiting the connection; awaiting the answer to the group with   *)
(* the lowest address; awaiting the answer to the lowest register of queue.*)
Idle == [stage |-> "idle"]
Polling == [
    stage   : {"connecting", "group", "single"},
    wanted  : SUBSET Register,         \* valid_regs
    groups  : SUBSET SUBSET Register,  \* groups not read yet
    queue   : SUBSET Register,         \* individual reads of this fallback
    later   : SUBSET Register,         \* individual_regs not read yet
    grouped : SUBSET Register,         \* results taken from a group
    single  : SUBSET Register,         \* results read individually
    omitted : SUBSET Register,         \* read individually, to no avail
    known   : SUBSET Register,         \* the quarantine when the poll began
    fresh   : BOOLEAN ]                \* no reset since the poll began

(* A register given up is still read by the polls already under way, and   *)
(* each of them reads it at most once.                                     *)
TypeOK ==
    /\ permFailed \subseteq Register
    /\ unsupported \subseteq Register
    /\ unsafe \subseteq Register
    /\ learned \subseteq Register
    /\ failures \in [Register -> 0 .. Threshold + Cardinality(Poller) - 1]
    /\ streak \in [Register -> 0 .. Threshold]
    /\ poll \in [Poller -> Polling \cup {Idle}]

Init ==
    /\ permFailed = {} /\ unsupported = {} /\ unsafe = {} /\ learned = {}
    /\ failures = [r \in Register |-> 0]
    /\ streak = [r \in Register |-> 0]
    /\ poll = [p \in Poller |-> Idle]

Active(p) == poll[p] # Idle
Lowest(S) == CHOOSE a \in S : \A b \in S : a <= b

(* _group_registers(): the maximal runs of consecutive addresses.          *)
Groups(S) == {G \in SUBSET S :
    /\ G # {}
    /\ \A a, b \in G : a .. b \subseteq G
    /\ \A a \in G, b \in S : b = a + 1 \/ a = b + 1 => b \in G}

(* They are sorted by address.                                             *)
FirstOf(groups) == CHOOSE G \in groups : \A H \in groups : Lowest(G) <= Lowest(H)
NextGroup(p) == FirstOf(poll[p].groups)

-----------------------------------------------------------------------------
(* What read_batch() awaits next: the rest of the fallback, then the next  *)
(* group, then the quarantined registers; else it returns.                 *)
Turn(rec) ==
    CASE rec.queue # {}  -> [rec EXCEPT !.stage = "single"]
      [] rec.queue = {} /\ rec.groups # {} -> [rec EXCEPT !.stage = "group"]
      [] rec.queue = {} /\ rec.groups = {} /\ rec.later # {} ->
             [rec EXCEPT !.stage = "single", !.queue = rec.later, !.later = {}]
      [] OTHER -> Idle

Continue(p, rec) ==
    /\ poll' = [poll EXCEPT ![p] = Turn(rec)]
    /\ learned' = IF Turn(rec) = Idle /\ rec.fresh THEN learned \cup rec.wanted ELSE learned

Begin(p, wanted) ==
    /\ wanted # {}
    /\ poll' = [poll EXCEPT ![p] =
          [stage |-> "connecting", wanted |-> wanted, groups |-> {}, queue |-> {},
           later |-> {}, grouped |-> {}, single |-> {}, omitted |-> {},
           known |-> unsafe, fresh |-> TRUE]]

PollsGivenUp(p, wanted) ==    \* mutant: registers given up are polled all the same
    /\ ~Active(p)
    /\ Begin(p, wanted)
    /\ UNCHANGED <<tracking, streak, learned>>

ReadBatch(p, wanted) ==
    /\ ~Active(p)
    /\ Begin(p, wanted \ permFailed)
    /\ UNCHANGED <<tracking, streak, learned>>

IgnoresQuarantine(p) ==    \* mutant: the quarantine is not consulted
    /\ Active(p)
    /\ poll[p].stage = "connecting"
    /\ Continue(p, [poll[p] EXCEPT !.groups = Groups(poll[p].wanted)])
    /\ UNCHANGED <<tracking, streak>>

(* _ensure_connected() has returned: the quarantine is consulted now.      *)
Connected(p) ==
    /\ Active(p)
    /\ poll[p].stage = "connecting"
    /\ Continue(p, [poll[p] EXCEPT !.groups = Groups(poll[p].wanted \ unsafe),
                                   !.later = poll[p].wanted \cap unsafe])
    /\ UNCHANGED <<tracking, streak>>

(* A transport failure, anywhere, ends the poll with an exception; so does *)
(* the cancellation of the caller.                                         *)
PollFails(p) ==
    /\ Active(p)
    /\ poll' = [poll EXCEPT ![p] = Idle]
    /\ UNCHANGED <<tracking, streak, learned>>

-----------------------------------------------------------------------------
(* _read_group()                                                           *)

AwaitsGroup(p) == Active(p) /\ poll[p].stage = "group"
WithoutGroup(p) == [poll[p] EXCEPT !.groups = @ \ {NextGroup(p)}]
ReadValid(S) == streak' = [r \in Register |-> IF r \in S THEN 0 ELSE streak[r]]

LosesSuspects(p, bad) ==    \* mutant: implausible values are not read again
    /\ AwaitsGroup(p)
    /\ NextGroup(p) \cap Unimplemented = {}
    /\ bad \subseteq NextGroup(p)
    /\ unsafe' = unsafe \cup bad
    /\ ReadValid(NextGroup(p) \ bad)
    /\ Continue(p, [WithoutGroup(p) EXCEPT !.grouped = @ \cup (NextGroup(p) \ bad)])
    /\ UNCHANGED <<permFailed, unsupported, failures>>

(* The group has its answer; a controller with the quirk answers for any   *)
(* register of it with a value out of range.  Those are quarantined and    *)
(* read again one by one.                                                  *)
GroupAnswers(p, bad) ==
    /\ AwaitsGroup(p)
    /\ NextGroup(p) \cap Unimplemented = {}
    /\ bad \subseteq NextGroup(p)
    /\ unsafe' = unsafe \cup bad
    /\ ReadValid(NextGroup(p) \ bad)
    /\ Continue(p, [WithoutGroup(p) EXCEPT !.queue = bad,
                                           !.grouped = @ \cup (NextGroup(p) \ bad)])
    /\ UNCHANGED <<permFailed, unsupported, failures>>

BlamesTheGroup(p) ==    \* mutant: a failed group counts against its members
    /\ AwaitsGroup(p)
    /\ failures' = [r \in Register |->
          IF r \in NextGroup(p) THEN failures[r] + 1 ELSE failures[r]]
    /\ Continue(p, [WithoutGroup(p) EXCEPT !.queue = NextGroup(p)])
    /\ UNCHANGED <<permFailed, unsupported, unsafe, streak>>

(* A device error, Illegal Data Address or a short answer: its members are *)
(* read one by one, and nothing is held against them.                      *)
GroupFails(p) ==
    /\ AwaitsGroup(p)
    /\ Continue(p, [WithoutGroup(p) EXCEPT !.queue = NextGroup(p)])
    /\ UNCHANGED <<tracking, streak>>

-----------------------------------------------------------------------------
(* _read_individual_fallback(): the answer for one register.               *)

Awaits(p, r) == Active(p) /\ poll[p].stage = "single" /\ r = Lowest(poll[p].queue)
Got(p, r) == Continue(p, [poll[p] EXCEPT !.queue = @ \ {r}, !.single = @ \cup {r}])
Omit(p, r) == Continue(p, [poll[p] EXCEPT !.queue = @ \ {r}, !.omitted = @ \cup {r}])

SingleValid(p, r) ==
    /\ Awaits(p, r)
    /\ r \notin Unimplemented
    /\ failures' = [failures EXCEPT ![r] = 0]
    /\ ReadValid({r})
    /\ Got(p, r)
    /\ UNCHANGED <<permFailed, unsupported, unsafe>>

(* Out of range even on its own: omitted, and no failure.                  *)
SingleSuspect(p, r) ==
    /\ Awaits(p, r)
    /\ r \in Faulty
    /\ Omit(p, r)
    /\ UNCHANGED <<tracking, streak>>

OnlyCounted(p, r) ==    \* mutant: Illegal Data Address is counted as any other error
    /\ Awaits(p, r)
    /\ r \in Unimplemented
    /\ failures' = [failures EXCEPT ![r] = @ + 1]
    /\ permFailed' = IF failures[r] + 1 >= Threshold THEN permFailed \cup {r} ELSE permFailed
    /\ Omit(p, r)
    /\ UNCHANGED <<unsupported, unsafe, streak>>

SingleIllegal(p, r) ==
    /\ Awaits(p, r)
    /\ r \in Unimplemented
    /\ permFailed' = permFailed \cup {r}
    /\ unsupported' = unsupported \cup {r}
    /\ Omit(p, r)
    /\ UNCHANGED <<failures, unsafe, streak>>

SingleFails(p, r) ==
    /\ Awaits(p, r)
    /\ r \in Faulty
    /\ failures' = [failures EXCEPT ![r] = @ + 1]
    /\ permFailed' = IF failures[r] + 1 >= Threshold THEN permFailed \cup {r} ELSE permFailed
    /\ streak' = [streak EXCEPT ![r] = IF @ < Threshold THEN @ + 1 ELSE @]
    /\ Omit(p, r)
    /\ UNCHANGED <<unsupported, unsafe>>

-----------------------------------------------------------------------------
Stale == poll' = [p \in Poller |->
            IF Active(p) THEN [poll[p] EXCEPT !.fresh = FALSE] ELSE Idle]

(* The quarantine is for the session: the reset leaves it alone.           *)
ResetFailedRegisters ==
    /\ permFailed' = {}
    /\ unsupported' = {}
    /\ failures' = [r \in Register |-> 0]
    /\ streak' = [r \in Register |-> 0]
    /\ learned' = {}
    /\ Stale
    /\ UNCHANGED unsafe

MarkBatchUnsafe(r) ==
    /\ unsafe' = unsafe \cup {r}
    /\ UNCHANGED <<permFailed, unsupported, failures, poll, streak, learned>>

Next ==
    \/ \E p \in Poller :
          \/ \E wanted \in Lists : ReadBatch(p, wanted)
          \/ Connected(p) \/ PollFails(p) \/ GroupFails(p)
          \/ \E bad \in SUBSET Register : GroupAnswers(p, bad)
          \/ \E r \in Register :
                \/ SingleValid(p, r) \/ SingleSuspect(p, r)
                \/ SingleIllegal(p, r) \/ SingleFails(p, r)
    \/ ResetFailedRegisters
    \/ \E r \in Register : MarkBatchUnsafe(r)

Spec == Init /\ [][Next]_vars

-----------------------------------------------------------------------------
(* get_unsupported_registers(): only addresses the controller rejected,    *)
(* never one that failed for another reason, and all of them are skipped.  *)
UnsupportedIsRejected == unsupported \subseteq Unimplemented \cap permFailed

(* A failing group never counts against the registers that are not at      *)
(* fault: each is read on its own and none is ever given up.               *)
HealthyNeverGivenUp ==
    \A r \in Register \ (Faulty \cup Unimplemented) : failures[r] = 0 /\ r \notin permFailed

(* Registers are given up, or called unsupported, only for what they did   *)
(* themselves, whatever polls and resets come together                     *)
(* (_read_individual_fallback, reset_failed_registers).                    *)
GivenUpForCause == HealthyNeverGivenUp /\ UnsupportedIsRejected

(* Whatever the groups, the quarantine and the fallbacks do to a poll,     *)
(* every register it was asked for is, from the connection to the return,  *)
(* in exactly one place: still to be read, in the result, or omitted after *)
(* a read of its own failed.  None is dropped and none is read twice.      *)
EveryRegisterAccounted ==
    \A p \in Poller : Active(p) /\ poll[p].stage # "connecting" =>
        LET rec == poll[p]
            parts == <<UNION rec.groups, rec.queue, rec.later,
                       rec.grouped, rec.single, rec.omitted>>
        IN  /\ rec.wanted = UNION {parts[i] : i \in 1 .. 6}
            /\ \A i, j \in 1 .. 6 : i # j => parts[i] \cap parts[j] = {}

(* A register in the quarantine when a poll began is never taken from a    *)
(* group by that poll, whatever resets and other polls do meanwhile.       *)
QuarantineKept ==
    \A p \in Poller : Active(p) =>
        poll[p].known \cap (poll[p].grouped \cup UNION poll[p].groups) = {}

(* Once a poll has run to its end, no unimplemented register it covered is *)
(* asked for by a later poll before the next reset.                        *)
UnimplementedIsLearned == learned \cap Unimplemented \subseteq permFailed

(* "A successful individual read resets the transient failure counter, so  *)
(* intermittent errors cannot permanently disable a working register":     *)
(* what is given up, other than for Illegal Data Address, has failed       *)
(* Threshold times with no valid read in between.                          *)
GivenUpAfterStreak ==
    \A r \in permFailed \ unsupported : streak[r] = Threshold
=============================================================================
