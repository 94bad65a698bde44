------------------------ MODULE RegisterReads_proofs ------------------------
(***************************************************************************)
(* Proofs about RegisterReads, for any number of polls, any registers and  *)
(* any threshold: how a list is cut into groups, and what a poll and the   *)
(* client remember of the registers.                                       *)
(***************************************************************************)
EXTENDS RegisterReads, FiniteSetTheorems, TLAPS

-----------------------------------------------------------------------------
(* The order of addresses.                                                 *)

LEMMA LowestIsLeast ==
  ASSUME NEW S \in SUBSET Nat, S # {}
  PROVE  Lowest(S) \in S /\ \A b \in S : Lowest(S) <= b
<1>1. \E x \in S : \A y \in S : <<y, x>> \notin OpToRel(<, Nat)
    BY WFMin, NatLessThanWellFounded
<1>2. ASSUME NEW x \in Nat, NEW y \in Nat, y < x
      PROVE  <<y, x>> \in OpToRel(<, Nat)
    BY <1>2 DEF OpToRel
<1>3. \E x \in S : \A y \in S : x <= y
    <2>1. PICK x \in S : \A y \in S : <<y, x>> \notin OpToRel(<, Nat)
        BY <1>1
    <2>2. ASSUME NEW y \in S PROVE ~(y < x)
        <3>1. x \in Nat /\ y \in Nat
            OBVIOUS
        <3> QED BY <1>2, <2>1, <3>1, Zenon
    <2> QED BY <2>2
<1> QED BY <1>3 DEF Lowest

(* A run of S that shares an address with a maximal run lies within it.    *)
LEMMA RunsAbsorb ==
  ASSUME NEW S \in SUBSET Nat, NEW G \in Groups(S), NEW H \in Groups(S), NEW x \in G \cap H
  PROVE  G \subseteq H
<1> DEFINE Above == {a \in G \ H : x < a}
           Gaps == {x - a : a \in {b \in G \ H : b < x}}
<1>1. Above = {}
    <2> SUFFICES ASSUME Above # {} PROVE FALSE
        OBVIOUS
    <2>1. PICK a \in Above : \A b \in Above : a <= b
        BY LowestIsLeast DEF Groups
    <2>0. a \in Nat /\ x \in Nat /\ x < a /\ a \in G /\ a \notin H
        BY DEF Groups
    <2>2. a - 1 \in G /\ a - 1 \in x .. a
        BY <2>0 DEF Groups
    <2>3. a - 1 \in H
        <3> SUFFICES ASSUME a - 1 \notin H PROVE FALSE
            OBVIOUS
        <3>1. x < a - 1
            BY <2>0, <2>2
        <3> QED BY <2>0, <2>1, <2>2, <3>1
    <2> QED BY <2>0, <2>2, <2>3 DEF Groups
<1>2. Gaps = {}
    <2> SUFFICES ASSUME Gaps # {} PROVE FALSE
        OBVIOUS
    <2>1. Gaps \in SUBSET Nat
        BY DEF Groups
    <2>2. PICK d \in Gaps : \A e \in Gaps : d <= e
        BY <2>1, LowestIsLeast
    <2>3. PICK a \in G \ H : a < x /\ d = x - a
        OBVIOUS
    <2>6. a \in Nat /\ x \in Nat
        BY DEF Groups
    <2>4. a + 1 \in G /\ a + 1 \in a .. x
        BY <2>3 DEF Groups
    <2>5. a + 1 \in H
        <3> SUFFICES ASSUME a + 1 \notin H PROVE FALSE
            OBVIOUS
        <3>1. a + 1 < x
            BY <2>3, <2>4 DEF Groups
        <3>2. x - (a + 1) \in Gaps
            BY <2>4, <3>1
        <3>3. d <= x - (a + 1)
            BY <2>2, <3>2, Zenon
        <3> QED BY <2>3, <2>6, <3>3
    <2> QED BY <2>3, <2>5 DEF Groups
<1>3. ASSUME NEW a \in G, a \notin H PROVE FALSE
    <2>1. a \in Nat /\ x \in Nat /\ a # x
        BY <1>3 DEF Groups
    <2>2. a \in Above \/ x - a \in Gaps
        BY <1>3, <2>1
    <2> QED BY <1>1, <1>2, <2>2
<1> QED BY <1>3

(* _group_registers() loses no register and puts none into two groups.     *)
LEMMA GroupsPartition ==
  ASSUME NEW S \in SUBSET Nat
  PROVE  /\ UNION Groups(S) = S
         /\ \A G \in Groups(S) : G # {} /\ G \subseteq S
         /\ \A G, H \in Groups(S) : G # H => G \cap H = {}
<1>1. ASSUME NEW x \in S PROVE x \in UNION Groups(S)
    <2> DEFINE G == {a \in S : a .. x \subseteq S /\ x .. a \subseteq S}
    <2>1. x \in G
        OBVIOUS
    <2>2. ASSUME NEW a \in G, NEW b \in G, NEW c \in a .. b PROVE c \in G
        <3>1. c \in S
            <4>1. CASE c <= x
                BY <2>2, <4>1
            <4>2. CASE x <= c
                BY <2>2, <4>2
            <4> QED BY <2>2, <4>1, <4>2
        <3>2. c .. x \subseteq S
            BY <2>2, <3>1
        <3>3. x .. c \subseteq S
            BY <2>2, <3>1
        <3> QED BY <3>1, <3>2, <3>3
    <2>3. ASSUME NEW a \in G, NEW b \in S, b = a + 1 \/ a = b + 1 PROVE b \in G
        <3>1. b .. x \subseteq S
            BY <2>3
        <3>2. x .. b \subseteq S
            BY <2>3
        <3> QED BY <3>1, <3>2
    <2>4. G \in Groups(S)
        BY <2>1, <2>2, <2>3 DEF Groups
    <2> QED BY <2>1, <2>4
<1>2. \A G, H \in Groups(S) : G # H => G \cap H = {}
    <2> SUFFICES ASSUME NEW G \in Groups(S), NEW H \in Groups(S), NEW x \in G \cap H
                 PROVE  G = H
        OBVIOUS
    <2> QED BY RunsAbsorb
<1> QED BY <1>1, <1>2 DEF Groups

-----------------------------------------------------------------------------
(* The inductive invariant.                                                *)

(* Each register a poll was asked for is in one place.                     *)
Partition(rec) ==
    LET waiting == UNION rec.groups
    IN  /\ rec.wanted = waiting \cup rec.queue \cup rec.later
                          \cup rec.grouped \cup rec.single \cup rec.omitted
        /\ waiting \cap (rec.queue \cup rec.later \cup rec.grouped \cup rec.single \cup rec.omitted) = {}
        /\ rec.queue \cap (rec.later \cup rec.grouped \cup rec.single \cup rec.omitted) = {}
        /\ rec.later \cap (rec.grouped \cup rec.single \cup rec.omitted) = {}
        /\ rec.grouped \cap (rec.single \cup rec.omitted) = {}
        /\ rec.single \cap rec.omitted = {}

Apart(groups) ==
    /\ \A G \in groups : G # {}
    /\ \A G, H \in groups : G # H => G \cap H = {}

ToRead(rec) == (UNION rec.groups) \cup rec.queue \cup rec.later

(* A poll past the connection, given the quarantine and the registers      *)
(* given up: what was in the quarantine at its beginning is not grouped,   *)
(* and a register that does not exist is given up where it was omitted.    *)
Sound(rec, quarantine, given) ==
    /\ Partition(rec)
    /\ Apart(rec.groups)
    /\ rec.wanted # {}
    /\ rec.known \subseteq quarantine
    /\ rec.known \cap (rec.grouped \cup UNION rec.groups) = {}
    /\ (rec.grouped \cup rec.single) \cap Unimplemented = {}
    /\ rec.fresh => rec.omitted \cap Unimplemented \subseteq given

Staged(rec) ==
    /\ rec.stage = "group" => rec.groups # {} /\ rec.queue = {}
    /\ rec.stage = "single" => rec.queue # {}

(* A poll that awaits the connection.                                      *)
Unstarted(rec, quarantine) ==
    /\ rec.wanted # {}
    /\ rec.known \subseteq quarantine
    /\ rec.groups = {} /\ rec.queue = {} /\ rec.later = {}
    /\ rec.grouped = {} /\ rec.single = {} /\ rec.omitted = {}

PollInv(p) ==
    Active(p) =>
        \/ poll[p].stage = "connecting" /\ Unstarted(poll[p], unsafe)
        \/ /\ poll[p].stage # "connecting"
           /\ Sound(poll[p], unsafe, permFailed)
           /\ Staged(poll[p])

(* The polls that have still to read register r.                           *)
Pending(r) == {p \in Poller : Active(p) /\
    r \in IF poll[p].stage = "connecting" THEN poll[p].wanted ELSE ToRead(poll[p])}

(* Once a register is given up only the polls that have it still to read   *)
(* can count a failure of it, each of them once.                           *)
CountInv ==
    \A r \in Register : failures[r] >= Threshold =>
        /\ r \in permFailed
        /\ failures[r] + Cardinality(Pending(r)) < Threshold + Cardinality(Poller)

(* The types, with no bound on the counters yet.                           *)
TypeInv ==
    /\ permFailed \subseteq Register
    /\ unsupported \subseteq Register
    /\ unsafe \subseteq Register
    /\ learned \subseteq Register
    /\ failures \in [Register -> Nat]
    /\ streak \in [Register -> 0 .. Threshold]
    /\ poll \in [Poller -> Polling \cup {Idle}]

IInv ==
    /\ TypeInv
    /\ GivenUpForCause
    /\ UnimplementedIsLearned
    /\ \A p \in Poller : PollInv(p)
    /\ CountInv

-----------------------------------------------------------------------------
(* Where a poll goes next.                                                 *)

LEMMA TurnSound ==
  ASSUME NEW rec \in Polling, NEW quarantine, NEW given, Sound(rec, quarantine, given)
  PROVE  \/ /\ Turn(rec) = Idle
            /\ ToRead(rec) = {}
         \/ /\ Turn(rec) \in Polling
            /\ Turn(rec) # Idle
            /\ Turn(rec).stage # "connecting"
            /\ Sound(Turn(rec), quarantine, given)
            /\ Staged(Turn(rec))
            /\ ToRead(Turn(rec)) = ToRead(rec)
<1>1. CASE rec.queue # {}
    <2> DEFINE new == [rec EXCEPT !.stage = "single"]
    <2>1. Turn(rec) = new
        BY <1>1 DEF Turn
    <2>2. /\ new \in Polling
          /\ new.stage = "single"
          /\ new.wanted = rec.wanted /\ new.groups = rec.groups /\ new.queue = rec.queue
          /\ new.later = rec.later /\ new.grouped = rec.grouped /\ new.single = rec.single
          /\ new.omitted = rec.omitted /\ new.known = rec.known /\ new.fresh = rec.fresh
        BY DEF Polling
    <2>3. new # Idle
        BY <2>2 DEF Idle
    <2> HIDE DEF new
    <2> QED BY <1>1, <2>1, <2>2, <2>3 DEF Sound, Partition, Staged, ToRead
<1>2. CASE rec.queue = {} /\ rec.groups # {}
    <2> DEFINE new == [rec EXCEPT !.stage = "group"]
    <2>1. Turn(rec) = new
        BY <1>2 DEF Turn
    <2>2. /\ new \in Polling
          /\ new.stage = "group"
          /\ new.wanted = rec.wanted /\ new.groups = rec.groups /\ new.queue = rec.queue
          /\ new.later = rec.later /\ new.grouped = rec.grouped /\ new.single = rec.single
          /\ new.omitted = rec.omitted /\ new.known = rec.known /\ new.fresh = rec.fresh
        BY DEF Polling
    <2>3. new # Idle
        BY <2>2 DEF Idle
    <2> HIDE DEF new
    <2> QED BY <1>2, <2>1, <2>2, <2>3 DEF Sound, Partition, Staged, ToRead
<1>3. CASE rec.queue = {} /\ rec.groups = {} /\ rec.later # {}
    <2> DEFINE new == [rec EXCEPT !.stage = "single", !.queue = rec.later, !.later = {}]
    <2>1. Turn(rec) = new
        BY <1>3 DEF Turn
    <2>2. /\ new \in Polling
          /\ new.stage = "single"
          /\ new.wanted = rec.wanted /\ new.groups = rec.groups /\ new.queue = rec.later
          /\ new.later = {} /\ new.grouped = rec.grouped /\ new.single = rec.single
          /\ new.omitted = rec.omitted /\ new.known = rec.known /\ new.fresh = rec.fresh
        BY DEF Polling
    <2>3. new # Idle
        BY <2>2 DEF Idle
    <2> HIDE DEF new
    <2> QED BY <1>3, <2>1, <2>2, <2>3 DEF Sound, Partition, Staged, ToRead
<1>4. CASE rec.queue = {} /\ rec.groups = {} /\ rec.later = {}
    BY <1>4 DEF Turn, ToRead
<1> QED BY <1>1, <1>2, <1>3, <1>4

(* A poll that goes on with what it has read and what it has left; the     *)
(* quarantine and the registers given up can only have grown meanwhile.    *)
LEMMA ContinueStep ==
  ASSUME IInv,
         NEW p \in Poller, Active(p),
         NEW rec \in Polling, Continue(p, rec),
         Sound(rec, unsafe', permFailed'),
         unsafe \subseteq unsafe', permFailed \subseteq permFailed'
  PROVE  /\ poll' \in [Poller -> Polling \cup {Idle}]
         /\ learned' \subseteq Register
         /\ UnimplementedIsLearned'
         /\ \A q \in Poller : PollInv(q)'
         /\ \A r \in Register :
               Pending(r)' \subseteq (Pending(r) \ {p}) \cup {q \in {p} : r \in ToRead(rec)}
<1>0. poll \in [Poller -> Polling \cup {Idle}]
    BY DEF IInv, TypeInv
<1>1. /\ poll'[p] = Turn(rec)
      /\ \A q \in Poller \ {p} : poll'[q] = poll[q]
    BY <1>0 DEF Continue
<1>2. Turn(rec) = Idle => ToRead(rec) = {}
    BY TurnSound DEF Sound, Idle
<1>3. Turn(rec) # Idle =>
          /\ Turn(rec) \in Polling
          /\ Turn(rec).stage # "connecting"
          /\ Sound(Turn(rec), unsafe', permFailed')
          /\ Staged(Turn(rec))
          /\ ToRead(Turn(rec)) = ToRead(rec)
    BY TurnSound
<1>4. poll' \in [Poller -> Polling \cup {Idle}]
    BY <1>0, <1>3 DEF Continue
<1>5. learned' \subseteq Register
    BY DEF Continue, Polling, IInv, TypeInv
<1>6. UnimplementedIsLearned'
    <2>1. CASE Turn(rec) = Idle /\ rec.fresh
        <3>1. rec.wanted \cap Unimplemented \subseteq permFailed'
            BY <1>2, <2>1 DEF Sound, Partition, ToRead
        <3> QED BY <2>1, <3>1 DEF Continue, IInv, UnimplementedIsLearned
    <2>2. CASE ~(Turn(rec) = Idle /\ rec.fresh)
        BY <2>2 DEF Continue, IInv, UnimplementedIsLearned
    <2> QED BY <2>1, <2>2
<1>7. ASSUME NEW q \in Poller PROVE PollInv(q)'
    <2>1. CASE q = p
        BY <1>1, <1>3, <2>1 DEF PollInv, Active
    <2>2. CASE q # p
        <3>1. PollInv(q) /\ poll'[q] = poll[q]
            BY <1>1, <2>2 DEF IInv
        <3> QED BY <3>1 DEF PollInv, Active, Unstarted, Sound
    <2> QED BY <2>1, <2>2
<1>8. ASSUME NEW r \in Register, NEW q \in Pending(r)'
      PROVE  q \in (Pending(r) \ {p}) \cup {s \in {p} : r \in ToRead(rec)}
    <2>1. CASE q = p
        BY <1>1, <1>3, <1>8, <2>1 DEF Pending, Active
    <2>2. CASE q # p
        BY <1>1, <1>8, <2>2 DEF Pending, Active
    <2> QED BY <2>1, <2>2
<1> QED BY <1>4, <1>5, <1>6, <1>7, <1>8

(* The counters of a step that counts no failure and gives no register     *)
(* back to a poll.                                                         *)
LEMMA CountKept ==
  ASSUME IInv,
         failures' \in [Register -> Nat],
         \A r \in Register : failures'[r] <= failures[r],
         permFailed \subseteq permFailed',
         \A r \in Register : Pending(r)' \subseteq Pending(r)
  PROVE  CountInv'
<1> SUFFICES ASSUME NEW r \in Register, failures'[r] >= Threshold
             PROVE  /\ r \in permFailed'
                    /\ failures'[r] + Cardinality(Pending(r))' < Threshold + Cardinality(Poller)
    BY DEF CountInv
<1>1. failures[r] \in Nat /\ failures'[r] \in Nat /\ Threshold \in Nat
    BY ReadsAssumption DEF IInv, TypeInv
<1>2. failures[r] >= Threshold
    BY <1>1
<1>3. r \in permFailed /\ failures[r] + Cardinality(Pending(r)) < Threshold + Cardinality(Poller)
    BY <1>2 DEF IInv, CountInv
<1>4. /\ Cardinality(Pending(r)) \in Nat
      /\ Cardinality(Pending(r)') \in Nat
      /\ Cardinality(Pending(r)') <= Cardinality(Pending(r))
    <2>1. IsFiniteSet(Pending(r))
        BY ReadsAssumption, FS_Subset DEF Pending
    <2>2. Pending(r)' \subseteq Pending(r)
        OBVIOUS
    <2> QED BY <2>1, <2>2, FS_Subset, FS_CardinalityType
<1>5. Cardinality(Poller) \in Nat
    BY ReadsAssumption, FS_CardinalityType
<1> QED BY <1>1, <1>3, <1>4, <1>5

LEMMA FirstGroup ==
  ASSUME NEW groups \in SUBSET SUBSET Register, groups # {}, Apart(groups)
  PROVE  /\ FirstOf(groups) \in groups
         /\ UNION (groups \ {FirstOf(groups)}) = (UNION groups) \ FirstOf(groups)
         /\ Apart(groups \ {FirstOf(groups)})
<1> DEFINE Heads == {Lowest(G) : G \in groups}
<1>1. \A G \in groups : Lowest(G) \in Nat
    BY LowestIsLeast, ReadsAssumption DEF Apart
<1>2. PICK a \in Heads : \A b \in Heads : a <= b
    <2>1. Heads \in SUBSET Nat /\ Heads # {}
        BY <1>1
    <2> HIDE DEF Heads
    <2> QED BY <2>1, LowestIsLeast
<1>3. PICK G \in groups : \A H \in groups : Lowest(G) <= Lowest(H)
    BY <1>2
<1>4. FirstOf(groups) \in groups
    BY <1>3 DEF FirstOf
<1> QED BY <1>4 DEF Apart

-----------------------------------------------------------------------------
(* The steps.                                                              *)

LEMMA InitIInv == Init => IInv
<1> SUFFICES ASSUME Init PROVE IInv
    OBVIOUS
<1>1. TypeInv
    BY ReadsAssumption DEF Init, TypeInv
<1>2. GivenUpForCause /\ UnimplementedIsLearned
    BY DEF Init, GivenUpForCause, HealthyNeverGivenUp, UnsupportedIsRejected,
           UnimplementedIsLearned
<1>3. \A p \in Poller : PollInv(p)
    BY DEF Init, PollInv, Active
<1>4. CountInv
    BY ReadsAssumption DEF Init, CountInv
<1> QED BY <1>1, <1>2, <1>3, <1>4 DEF IInv

(* What the actions in which a poll goes on have in common.                *)
LEMMA GoesOn ==
  ASSUME IInv,
         NEW p \in Poller, Active(p),
         NEW rec \in Polling, Continue(p, rec),
         Sound(rec, unsafe', permFailed'),
         unsafe \subseteq unsafe', unsafe' \subseteq Register,
         permFailed \subseteq permFailed', permFailed' \subseteq Register,
         unsupported' \subseteq Register,
         failures' \in [Register -> Nat], streak' \in [Register -> 0 .. Threshold],
         GivenUpForCause', CountInv'
  PROVE  IInv'
<1>1. TypeInv'
    BY ContinueStep DEF TypeInv
<1> QED BY <1>1, ContinueStep DEF IInv

LEMMA ReadBatchStep ==
  ASSUME IInv, NEW p \in Poller, NEW wanted \in Lists, ReadBatch(p, wanted)
  PROVE  IInv'
<1> DEFINE new == [stage |-> "connecting", wanted |-> wanted \ permFailed, groups |-> {},
                   queue |-> {}, later |-> {}, grouped |-> {}, single |-> {}, omitted |-> {},
                   known |-> unsafe, fresh |-> TRUE]
<1>1. new \in Polling /\ new # Idle
    BY ReadsAssumption DEF Polling, Idle, IInv, TypeInv
<1>2. /\ poll \in [Poller -> Polling \cup {Idle}]
      /\ poll' = [poll EXCEPT ![p] = new]
    BY DEF IInv, TypeInv, ReadBatch, Begin
<1>3. TypeInv'
    BY <1>1, <1>2 DEF IInv, TypeInv, ReadBatch, tracking
<1>4. GivenUpForCause' /\ UnimplementedIsLearned'
    BY DEF IInv, ReadBatch, tracking, GivenUpForCause, HealthyNeverGivenUp,
           UnsupportedIsRejected, UnimplementedIsLearned
<1>5. ASSUME NEW q \in Poller PROVE PollInv(q)'
    <2>1. CASE q = p
        <3>1. poll'[p] = new
            BY <1>2
        <3>2. Unstarted(poll'[p], unsafe')
            BY <3>1 DEF Unstarted, ReadBatch, Begin, tracking
        <3> QED BY <2>1, <3>1, <3>2 DEF PollInv
    <2>2. CASE q # p
        <3>1. PollInv(q) /\ poll'[q] = poll[q]
            BY <1>2, <2>2 DEF IInv
        <3> QED BY <3>1 DEF PollInv, Active, ReadBatch, tracking
    <2> QED BY <2>1, <2>2
<1>6. CountInv'
    <2> SUFFICES ASSUME NEW r \in Register, failures[r] >= Threshold
                 PROVE  Pending(r)' = Pending(r)
        BY DEF CountInv, ReadBatch, tracking, IInv
    <2>1. r \in permFailed /\ ~Active(p)
        BY DEF IInv, CountInv, ReadBatch
    <2>2. poll'[p] = new /\ r \notin new.wanted /\ \A q \in Poller \ {p} : poll'[q] = poll[q]
        BY <1>2, <2>1
    <2>3. poll'[p].stage = "connecting" /\ r \notin poll'[p].wanted
        BY <2>2
    <2> HIDE DEF new
    <2>4. p \notin Pending(r) /\ p \notin Pending(r)'
        BY <2>1, <2>3 DEF Pending
    <2>5. \A q \in Poller \ {p} : q \in Pending(r) <=> q \in Pending(r)'
        BY <2>2 DEF Pending, Active
    <2> QED BY <2>4, <2>5 DEF Pending
<1> QED BY <1>3, <1>4, <1>5, <1>6 DEF IInv

(* A poll in progress, and its record.                                     *)
LEMMA PollOf ==
  ASSUME IInv, NEW p \in Poller, Active(p)
  PROVE  /\ poll[p] \in Polling
         /\ PollInv(p)
BY DEF IInv, TypeInv, Active

LEMMA ConnectedStep ==
  ASSUME IInv, NEW p \in Poller, Connected(p)
  PROVE  IInv'
<1> DEFINE old == poll[p]
           rec == [old EXCEPT !.groups = Groups(old.wanted \ unsafe),
                              !.later = old.wanted \cap unsafe]
<1>1. /\ Active(p) /\ old \in Polling /\ old.stage = "connecting"
      /\ Unstarted(old, unsafe)
    BY PollOf DEF Connected, PollInv
<1>2. UNCHANGED <<permFailed, unsupported, failures, unsafe, streak>>
    BY DEF Connected, tracking
<1>3. /\ UNION Groups(old.wanted \ unsafe) = old.wanted \ unsafe
      /\ Groups(old.wanted \ unsafe) \in SUBSET SUBSET Register
      /\ Apart(Groups(old.wanted \ unsafe))
    <2>1. old.wanted \in SUBSET Register /\ old.wanted \ unsafe \in SUBSET Nat
        BY <1>1, ReadsAssumption DEF Polling
    <2> QED BY <2>1, GroupsPartition DEF Apart
<1>4. rec \in Polling
    BY <1>1, <1>3 DEF Polling
<1>5. Continue(p, rec)
    BY DEF Connected
<1>6. /\ rec.groups = Groups(old.wanted \ unsafe) /\ rec.later = old.wanted \cap unsafe
      /\ rec.wanted = old.wanted /\ rec.queue = {} /\ rec.grouped = {} /\ rec.single = {}
      /\ rec.omitted = {} /\ rec.known \subseteq unsafe
    BY <1>1 DEF Polling, Unstarted
<1> HIDE DEF rec
<1>7. Sound(rec, unsafe', permFailed')
    BY <1>1, <1>2, <1>3, <1>6 DEF Sound, Partition, Unstarted
<1>8. ToRead(rec) = old.wanted
    BY <1>3, <1>6 DEF ToRead
<1>9. CountInv'
    <2>1. \A r \in Register : Pending(r)' \subseteq Pending(r)
        <3>1. \A r \in ToRead(rec) : p \in Pending(r)
            BY <1>1, <1>8 DEF Pending
        <3> QED BY <1>1, <1>2, <1>4, <1>5, <1>7, <3>1, ContinueStep
    <2>2. failures' \in [Register -> Nat] /\ \A r \in Register : failures'[r] <= failures[r]
        BY <1>2 DEF IInv, TypeInv
    <2> QED BY <1>2, <2>1, <2>2, CountKept
<1>10. GivenUpForCause'
    BY <1>2 DEF IInv, GivenUpForCause, HealthyNeverGivenUp, UnsupportedIsRejected
<1>11. /\ unsafe' \subseteq Register /\ permFailed' \subseteq Register
       /\ unsupported' \subseteq Register
       /\ failures' \in [Register -> Nat] /\ streak' \in [Register -> 0 .. Threshold]
    BY <1>2 DEF IInv, TypeInv
<1> QED BY <1>1, <1>2, <1>4, <1>5, <1>7, <1>9, <1>10, <1>11, GoesOn

LEMMA PollFailsStep ==
  ASSUME IInv, NEW p \in Poller, PollFails(p)
  PROVE  IInv'
<1>1. /\ poll' = [poll EXCEPT ![p] = Idle]
      /\ UNCHANGED <<permFailed, unsupported, failures, unsafe, streak, learned>>
    BY DEF PollFails, tracking
<1>2. TypeInv'
    BY <1>1 DEF IInv, TypeInv
<1>3. GivenUpForCause' /\ UnimplementedIsLearned'
    BY <1>1 DEF IInv, GivenUpForCause, HealthyNeverGivenUp, UnsupportedIsRejected,
                UnimplementedIsLearned
<1>4. poll'[p] = Idle /\ \A q \in Poller \ {p} : poll'[q] = poll[q]
    BY <1>1 DEF IInv, TypeInv
<1>5. \A q \in Poller : PollInv(q)'
    BY <1>1, <1>4 DEF IInv, PollInv, Active
<1>6. CountInv'
    <2>1. \A r \in Register : Pending(r)' \subseteq Pending(r)
        BY <1>4 DEF Pending, Active
    <2>2. failures' \in [Register -> Nat] /\ \A r \in Register : failures'[r] <= failures[r]
        BY <1>1 DEF IInv, TypeInv
    <2> QED BY <1>1, <2>1, <2>2, CountKept
<1> QED BY <1>2, <1>3, <1>5, <1>6 DEF IInv

(* The two steps of _read_group(): the group leaves, some of it is to be   *)
(* read one by one, and the rest has been read.                            *)
LEMMA GroupRead ==
  ASSUME IInv, NEW p \in Poller, AwaitsGroup(p),
         NEW queue \in SUBSET NextGroup(p), NEW read, read = NextGroup(p) \ queue,
         read \cap Unimplemented = {},
         NEW rec, rec = [WithoutGroup(p) EXCEPT !.queue = queue, !.grouped = @ \cup read],
         Continue(p, rec),
         UNCHANGED <<permFailed, unsupported, failures>>,
         unsafe \subseteq unsafe', unsafe' \subseteq Register,
         streak' \in [Register -> 0 .. Threshold]
  PROVE  IInv'
<1> DEFINE old == poll[p]
           G == NextGroup(p)
<1>1. /\ Active(p) /\ old \in Polling /\ old.stage = "group"
      /\ Sound(old, unsafe, permFailed) /\ old.groups # {} /\ old.queue = {}
    BY PollOf DEF AwaitsGroup, PollInv, Staged
<1>2. /\ G \in old.groups
      /\ UNION (old.groups \ {G}) = (UNION old.groups) \ G
      /\ Apart(old.groups \ {G})
    BY <1>1, FirstGroup DEF NextGroup, Sound, Polling
<1>3. G \subseteq Register /\ G \subseteq UNION old.groups
    BY <1>1, <1>2 DEF Polling
<1>4. /\ rec \in Polling
      /\ rec.groups = old.groups \ {G} /\ rec.queue = queue /\ rec.later = old.later
      /\ rec.grouped = old.grouped \cup read /\ rec.single = old.single
      /\ rec.omitted = old.omitted /\ rec.wanted = old.wanted /\ rec.known = old.known
      /\ rec.fresh = old.fresh
    BY <1>1, <1>3 DEF Polling, WithoutGroup
<1> HIDE DEF old, G
<1>5. Sound(rec, unsafe', permFailed')
    <2>1. Partition(rec)
        <3>0. Partition(old)
            BY <1>1 DEF Sound
        <3>1. read \cup queue = G /\ read \cap queue = {}
            BY DEF G
        <3> QED BY <1>1, <1>2, <1>3, <1>4, <3>0, <3>1 DEF Partition
    <2>2. rec.known \subseteq unsafe' /\ rec.known \cap (rec.grouped \cup UNION rec.groups) = {}
        <3>1. read \subseteq UNION old.groups
            BY <1>3 DEF G
        <3> QED BY <1>1, <1>2, <1>4, <3>1 DEF Sound
    <2> QED BY <1>1, <1>2, <1>4, <2>1, <2>2 DEF Sound
<1>6. ToRead(rec) \subseteq ToRead(old)
    BY <1>2, <1>3, <1>4 DEF ToRead, G
<1>7. CountInv'
    <2>1. \A r \in Register : Pending(r)' \subseteq Pending(r)
        <3>1. \A r \in ToRead(rec) : p \in Pending(r)
            BY <1>1, <1>6 DEF Pending, old
        <3> QED BY <1>1, <1>4, <1>5, <3>1, ContinueStep
    <2>2. failures' \in [Register -> Nat] /\ \A r \in Register : failures'[r] <= failures[r]
        BY DEF IInv, TypeInv
    <2> QED BY <2>1, <2>2, CountKept
<1>8. GivenUpForCause'
    BY DEF IInv, GivenUpForCause, HealthyNeverGivenUp, UnsupportedIsRejected
<1>9. /\ permFailed' \subseteq Register /\ unsupported' \subseteq Register
      /\ failures' \in [Register -> Nat]
    BY DEF IInv, TypeInv
<1> QED BY <1>1, <1>4, <1>5, <1>7, <1>8, <1>9, GoesOn

LEMMA ReadValidType ==
  ASSUME IInv, NEW S, ReadValid(S)
  PROVE  streak' \in [Register -> 0 .. Threshold]
BY ReadsAssumption DEF IInv, TypeInv, ReadValid

LEMMA GroupAnswersStep ==
  ASSUME IInv, NEW p \in Poller, NEW bad \in SUBSET Register, GroupAnswers(p, bad)
  PROVE  IInv'
<1> DEFINE read == NextGroup(p) \ bad
<1>1. bad \in SUBSET NextGroup(p) /\ read \cap Unimplemented = {}
    BY DEF GroupAnswers
<1>2. unsafe \subseteq unsafe' /\ unsafe' \subseteq Register
    BY DEF GroupAnswers, IInv, TypeInv
<1>3. streak' \in [Register -> 0 .. Threshold]
    BY ReadValidType DEF GroupAnswers
<1>4. Continue(p, [WithoutGroup(p) EXCEPT !.queue = bad, !.grouped = @ \cup read])
    BY DEF GroupAnswers
<1> QED BY <1>1, <1>2, <1>3, <1>4, GroupRead DEF GroupAnswers

LEMMA GroupFailsStep ==
  ASSUME IInv, NEW p \in Poller, GroupFails(p)
  PROVE  IInv'
<1> DEFINE read == NextGroup(p) \ NextGroup(p)
<1>1. read = {}
    OBVIOUS
<1>2. [WithoutGroup(p) EXCEPT !.queue = NextGroup(p)]
        = [WithoutGroup(p) EXCEPT !.queue = NextGroup(p), !.grouped = @ \cup read]
    <2>1. poll[p] \in Polling
        BY PollOf DEF GroupFails, AwaitsGroup
    <2>2. WithoutGroup(p) \in Polling
        BY <2>1 DEF WithoutGroup, Polling
    <2> QED BY <1>1, <2>2 DEF Polling
<1>3. UNCHANGED <<permFailed, unsupported, failures, unsafe, streak>>
    BY DEF GroupFails, tracking
<1>4. unsafe \subseteq unsafe' /\ unsafe' \subseteq Register /\ streak' \in [Register -> 0 .. Threshold]
    BY <1>3 DEF IInv, TypeInv
<1> QED BY <1>1, <1>2, <1>3, <1>4, GroupRead DEF GroupFails

(* An individual read: the register leaves the queue, read or omitted.     *)
LEMMA SingleRead ==
  ASSUME IInv, NEW p \in Poller, NEW r \in Register, Awaits(p, r),
         \/ Got(p, r) /\ r \notin Unimplemented
         \/ Omit(p, r) /\ (r \in Unimplemented => r \in permFailed'),
         unsafe' = unsafe,
         permFailed \subseteq permFailed', permFailed' \subseteq Register,
         unsupported' \subseteq Register,
         failures' \in [Register -> Nat], streak' \in [Register -> 0 .. Threshold],
         GivenUpForCause'
  PROVE  /\ p \in Pending(r) \ Pending(r)'
         /\ \A s \in Register : Pending(s)' \subseteq Pending(s)
         /\ CountInv' => IInv'
<1> DEFINE old == poll[p]
           got == [old EXCEPT !.queue = @ \ {r}, !.single = @ \cup {r}]
           omit == [old EXCEPT !.queue = @ \ {r}, !.omitted = @ \cup {r}]
<1>1. /\ Active(p) /\ old \in Polling /\ old.stage = "single"
      /\ Sound(old, unsafe, permFailed) /\ old.queue # {}
    BY PollOf DEF Awaits, PollInv, Staged
<1>2. r \in old.queue
    <2>1. old.queue \in SUBSET Nat
        BY <1>1, ReadsAssumption DEF Polling
    <2> QED BY <1>1, <2>1, LowestIsLeast DEF Awaits
<1>3. /\ got \in Polling
      /\ got.groups = old.groups /\ got.queue = old.queue \ {r} /\ got.later = old.later
      /\ got.grouped = old.grouped /\ got.single = old.single \cup {r}
      /\ got.omitted = old.omitted /\ got.wanted = old.wanted /\ got.known = old.known
      /\ got.fresh = old.fresh
    BY <1>1 DEF Polling
<1>4. /\ omit \in Polling
      /\ omit.groups = old.groups /\ omit.queue = old.queue \ {r} /\ omit.later = old.later
      /\ omit.grouped = old.grouped /\ omit.single = old.single
      /\ omit.omitted = old.omitted \cup {r} /\ omit.wanted = old.wanted
      /\ omit.known = old.known /\ omit.fresh = old.fresh
    BY <1>1 DEF Polling
<1> HIDE DEF got, omit
<1>5. PICK rec \in Polling :
          /\ Continue(p, rec)
          /\ Sound(rec, unsafe', permFailed')
          /\ ToRead(rec) = ToRead(old) \ {r}
    <2>1. CASE Got(p, r) /\ r \notin Unimplemented
        <3>1. Partition(got)
            BY <1>1, <1>2, <1>3 DEF Sound, Partition
        <3>2. Sound(got, unsafe', permFailed')
            BY <1>1, <1>3, <2>1, <3>1 DEF Sound
        <3>3. ToRead(got) = ToRead(old) \ {r}
            BY <1>1, <1>2, <1>3 DEF ToRead, Sound, Partition
        <3> QED BY <1>3, <2>1, <3>2, <3>3 DEF Got, got
    <2>2. CASE Omit(p, r) /\ (r \in Unimplemented => r \in permFailed')
        <3>1. Partition(omit)
            BY <1>1, <1>2, <1>4 DEF Sound, Partition
        <3>2. Sound(omit, unsafe', permFailed')
            BY <1>1, <1>4, <2>2, <3>1 DEF Sound
        <3>3. ToRead(omit) = ToRead(old) \ {r}
            BY <1>1, <1>2, <1>4 DEF ToRead, Sound, Partition
        <3> QED BY <1>4, <2>2, <3>2, <3>3 DEF Omit, omit
    <2> QED BY <2>1, <2>2
<1>6. \A s \in ToRead(old) \cap Register : p \in Pending(s)
    BY <1>1 DEF Pending
<1>7. /\ \A s \in Register : Pending(s)' \subseteq Pending(s)
      /\ p \notin Pending(r)'
    BY <1>1, <1>5, <1>6, ContinueStep
<1>8. p \in Pending(r)
    BY <1>1, <1>2 DEF Pending, ToRead
<1>9. CountInv' => IInv'
    <2>1. unsafe' \subseteq Register /\ unsafe \subseteq unsafe'
        BY DEF IInv, TypeInv
    <2> QED BY <1>1, <1>5, <2>1, GoesOn
<1> QED BY <1>7, <1>8, <1>9

LEMMA SingleValidStep ==
  ASSUME IInv, NEW p \in Poller, NEW r \in Register, SingleValid(p, r)
  PROVE  IInv'
<1>1. UNCHANGED <<permFailed, unsupported, unsafe>>
    BY DEF SingleValid
<1>2. /\ failures' \in [Register -> Nat]
      /\ \A s \in Register : failures'[s] <= failures[s]
      /\ \A s \in Register : failures[s] = 0 => failures'[s] = 0
    BY DEF SingleValid, IInv, TypeInv
<1>3. streak' \in [Register -> 0 .. Threshold]
    BY ReadValidType DEF SingleValid
<1>4. permFailed' \subseteq Register /\ unsupported' \subseteq Register
    BY <1>1 DEF IInv, TypeInv
<1>5. GivenUpForCause'
    BY <1>1, <1>2 DEF IInv, GivenUpForCause, HealthyNeverGivenUp, UnsupportedIsRejected
<1>6. Awaits(p, r) /\ Got(p, r) /\ r \notin Unimplemented
    BY DEF SingleValid
<1>7. CountInv'
    BY <1>1, <1>2, <1>3, <1>4, <1>5, <1>6, SingleRead, CountKept
<1> QED BY <1>1, <1>2, <1>3, <1>4, <1>5, <1>6, <1>7, SingleRead

LEMMA SingleSuspectStep ==
  ASSUME IInv, NEW p \in Poller, NEW r \in Register, SingleSuspect(p, r)
  PROVE  IInv'
<1>1. UNCHANGED <<permFailed, unsupported, unsafe, failures, streak>>
    BY DEF SingleSuspect, tracking
<1>2. /\ failures' \in [Register -> Nat]
      /\ \A s \in Register : failures'[s] <= failures[s]
    BY <1>1 DEF IInv, TypeInv
<1>3. /\ streak' \in [Register -> 0 .. Threshold]
      /\ permFailed' \subseteq Register /\ unsupported' \subseteq Register
    BY <1>1 DEF IInv, TypeInv
<1>4. GivenUpForCause'
    BY <1>1 DEF IInv, GivenUpForCause, HealthyNeverGivenUp, UnsupportedIsRejected
<1>5. Awaits(p, r) /\ Omit(p, r) /\ r \notin Unimplemented
    BY ReadsAssumption DEF SingleSuspect
<1>6. CountInv'
    BY <1>1, <1>2, <1>3, <1>4, <1>5, SingleRead, CountKept
<1> QED BY <1>1, <1>2, <1>3, <1>4, <1>5, <1>6, SingleRead

LEMMA SingleIllegalStep ==
  ASSUME IInv, NEW p \in Poller, NEW r \in Register, SingleIllegal(p, r)
  PROVE  IInv'
<1>1. /\ UNCHANGED <<unsafe, failures, streak>>
      /\ permFailed' = permFailed \cup {r} /\ unsupported' = unsupported \cup {r}
    BY DEF SingleIllegal
<1>2. /\ failures' \in [Register -> Nat]
      /\ \A s \in Register : failures'[s] <= failures[s]
    BY <1>1 DEF IInv, TypeInv
<1>3. /\ streak' \in [Register -> 0 .. Threshold]
      /\ permFailed' \subseteq Register /\ unsupported' \subseteq Register
    BY <1>1 DEF IInv, TypeInv
<1>4. Awaits(p, r) /\ Omit(p, r) /\ r \in Unimplemented
    BY DEF SingleIllegal
<1>5. GivenUpForCause'
    BY <1>1, <1>4 DEF IInv, GivenUpForCause, HealthyNeverGivenUp, UnsupportedIsRejected
<1>6. CountInv'
    BY <1>1, <1>2, <1>3, <1>4, <1>5, SingleRead, CountKept
<1> QED BY <1>1, <1>2, <1>3, <1>4, <1>5, <1>6, SingleRead

(* The one step that counts: the register was still to be read by the poll *)
(* that counts its failure, and no longer is.                              *)
LEMMA SingleFailsStep ==
  ASSUME IInv, NEW p \in Poller, NEW r \in Register, SingleFails(p, r)
  PROVE  IInv'
<1>1. /\ UNCHANGED <<unsupported, unsafe>>
      /\ failures' = [failures EXCEPT ![r] = @ + 1]
      /\ permFailed' = IF failures[r] + 1 >= Threshold THEN permFailed \cup {r} ELSE permFailed
      /\ streak' = [streak EXCEPT ![r] = IF @ < Threshold THEN @ + 1 ELSE @]
      /\ Awaits(p, r) /\ Omit(p, r) /\ r \in Faulty /\ r \notin Unimplemented
    BY ReadsAssumption DEF SingleFails
<1>2. failures' \in [Register -> Nat] /\ failures'[r] = failures[r] + 1 /\ failures[r] \in Nat
    BY <1>1 DEF IInv, TypeInv
<1>3. \A s \in Register \ {r} : failures'[s] = failures[s]
    BY <1>1 DEF IInv, TypeInv
<1>4. streak' \in [Register -> 0 .. Threshold]
    BY <1>1, ReadsAssumption DEF IInv, TypeInv
<1>5. permFailed \subseteq permFailed' /\ permFailed' \subseteq Register /\ unsupported' \subseteq Register
    BY <1>1 DEF IInv, TypeInv
<1>6. GivenUpForCause'
    BY <1>1, <1>3, <1>5 DEF IInv, GivenUpForCause, HealthyNeverGivenUp, UnsupportedIsRejected
<1>7. /\ p \in Pending(r) \ Pending(r)'
      /\ \A s \in Register : Pending(s)' \subseteq Pending(s)
      /\ CountInv' => IInv'
    BY <1>1, <1>2, <1>4, <1>5, <1>6, SingleRead
<1>8. \A s \in Register :
          /\ IsFiniteSet(Pending(s))
          /\ Cardinality(Pending(s)) \in Nat /\ Cardinality(Pending(s)') \in Nat
          /\ Cardinality(Pending(s)') <= Cardinality(Pending(s))
    <2> TAKE s \in Register
    <2>1. IsFiniteSet(Pending(s))
        BY ReadsAssumption, FS_Subset DEF Pending
    <2>2. Pending(s)' \subseteq Pending(s)
        BY <1>7
    <2> QED BY <2>1, <2>2, FS_Subset, FS_CardinalityType
<1>9. /\ Cardinality(Poller) \in Nat /\ Threshold \in Nat
      /\ Cardinality(Pending(r)) <= Cardinality(Poller)
      /\ Cardinality(Pending(r)') + 1 <= Cardinality(Pending(r))
    <2>1. Cardinality(Poller) \in Nat /\ Cardinality(Pending(r)) <= Cardinality(Poller)
        BY ReadsAssumption, FS_Subset, FS_CardinalityType DEF Pending
    <2>2. /\ IsFiniteSet(Pending(r) \ {p})
          /\ Cardinality(Pending(r) \ {p}) = Cardinality(Pending(r)) - 1
        BY <1>7, <1>8, FS_RemoveElement
    <2>3. Pending(r)' \subseteq Pending(r) \ {p}
        BY <1>7
    <2>4. Cardinality(Pending(r)') <= Cardinality(Pending(r) \ {p})
        BY <2>2, <2>3, FS_Subset
    <2>5. Cardinality(Pending(r)) \in Nat /\ Cardinality(Pending(r)') \in Nat
        BY <1>8
    <2> QED BY <2>1, <2>2, <2>4, <2>5, ReadsAssumption
<1>10. CountInv'
    <2> SUFFICES ASSUME NEW s \in Register, failures'[s] >= Threshold
                 PROVE  /\ s \in permFailed'
                        /\ failures'[s] + Cardinality(Pending(s)') < Threshold + Cardinality(Poller)
        BY DEF CountInv
    <2>1. CASE s = r
        <3>1. CASE failures[r] >= Threshold
            <4>1. failures[r] + Cardinality(Pending(r)) < Threshold + Cardinality(Poller)
                BY <3>1 DEF IInv, CountInv
            <4>2. r \in permFailed'
                BY <1>1, <1>2, <1>9, <3>1
            <4> QED BY <1>2, <1>8, <1>9, <2>1, <4>1, <4>2
        <3>2. CASE ~(failures[r] >= Threshold)
            <4>1. failures'[r] = Threshold
                BY <1>2, <1>9, <2>1, <3>2
            <4>2. r \in permFailed'
                BY <1>1, <1>2, <1>9, <4>1
            <4>3. Cardinality(Pending(r)') \in Nat /\ Cardinality(Pending(r)) \in Nat
                BY <1>8
            <4> QED BY <1>9, <2>1, <4>1, <4>2, <4>3
        <3> QED BY <3>1, <3>2
    <2>2. CASE s # r
        <3>1. failures'[s] = failures[s] /\ failures[s] \in Nat
            BY <1>3, <2>2 DEF IInv, TypeInv
        <3>2. s \in permFailed /\ failures[s] + Cardinality(Pending(s)) < Threshold + Cardinality(Poller)
            BY <3>1 DEF IInv, CountInv
        <3> QED BY <1>5, <1>8, <1>9, <3>1, <3>2
    <2> QED BY <2>1, <2>2
<1> QED BY <1>7, <1>10

LEMMA ResetStep ==
  ASSUME IInv, ResetFailedRegisters
  PROVE  IInv'
<1>1. /\ permFailed' = {} /\ unsupported' = {} /\ learned' = {} /\ unsafe' = unsafe
      /\ failures' = [r \in Register |-> 0] /\ streak' = [r \in Register |-> 0]
      /\ poll' = [p \in Poller |-> IF Active(p) THEN [poll[p] EXCEPT !.fresh = FALSE] ELSE Idle]
    BY DEF ResetFailedRegisters, Stale
<1>2. ASSUME NEW p \in Poller, Active(p)
      PROVE  /\ poll'[p] \in Polling /\ poll'[p] # Idle
             /\ poll'[p].stage = poll[p].stage /\ poll'[p].wanted = poll[p].wanted
             /\ poll'[p].groups = poll[p].groups /\ poll'[p].queue = poll[p].queue
             /\ poll'[p].later = poll[p].later /\ poll'[p].grouped = poll[p].grouped
             /\ poll'[p].single = poll[p].single /\ poll'[p].omitted = poll[p].omitted
             /\ poll'[p].known = poll[p].known /\ poll'[p].fresh = FALSE
    <2>1. poll[p] \in Polling /\ poll'[p] = [poll[p] EXCEPT !.fresh = FALSE]
        BY <1>1, <1>2, PollOf
    <2> QED BY <2>1 DEF Polling, Idle
<1>3. \A p \in Poller : ~Active(p) => poll'[p] = Idle
    BY <1>1
<1>4. TypeInv'
    <2>1. poll' \in [Poller -> Polling \cup {Idle}]
        BY <1>1, <1>2, <1>3
    <2> QED BY <1>1, <2>1, ReadsAssumption DEF IInv, TypeInv
<1>5. GivenUpForCause' /\ UnimplementedIsLearned'
    BY <1>1 DEF GivenUpForCause, HealthyNeverGivenUp, UnsupportedIsRejected,
                UnimplementedIsLearned
<1>6. ASSUME NEW p \in Poller PROVE PollInv(p)'
    <2>1. CASE Active(p)
        <3> DEFINE old == poll[p]
                   new == poll'[p]
        <3>1. CASE old.stage = "connecting"
            <4>1. Unstarted(old, unsafe)
                BY <2>1, <3>1, PollOf DEF PollInv
            <4>2. Unstarted(new, unsafe)
                BY <1>2, <2>1, <4>1 DEF Unstarted
            <4> QED BY <1>1, <1>2, <2>1, <3>1, <4>2 DEF PollInv
        <3>2. CASE old.stage # "connecting"
            <4>1. Sound(old, unsafe, permFailed) /\ Staged(old)
                BY <2>1, <3>2, PollOf DEF PollInv
            <4>2. Partition(new)
                BY <1>2, <2>1, <4>1 DEF Sound, Partition
            <4>3. Sound(new, unsafe', permFailed') /\ Staged(new)
                BY <1>1, <1>2, <2>1, <4>1, <4>2 DEF Sound, Staged
            <4> QED BY <1>2, <2>1, <3>2, <4>3 DEF PollInv
        <3> QED BY <3>1, <3>2
    <2>2. CASE ~Active(p)
        BY <1>3, <2>2 DEF PollInv, Active
    <2> QED BY <2>1, <2>2
<1>7. CountInv'
    BY <1>1, ReadsAssumption DEF CountInv
<1> QED BY <1>4, <1>5, <1>6, <1>7 DEF IInv

LEMMA MarkStep ==
  ASSUME IInv, NEW r \in Register, MarkBatchUnsafe(r)
  PROVE  IInv'
<1>1. /\ unsafe' = unsafe \cup {r}
      /\ UNCHANGED <<permFailed, unsupported, failures, poll, streak, learned>>
    BY DEF MarkBatchUnsafe
<1>2. TypeInv' /\ GivenUpForCause' /\ UnimplementedIsLearned'
    BY <1>1 DEF IInv, TypeInv, GivenUpForCause, HealthyNeverGivenUp, UnsupportedIsRejected,
                UnimplementedIsLearned
<1>3. ASSUME NEW p \in Poller PROVE PollInv(p)'
    <2>1. PollInv(p)
        BY DEF IInv
    <2> QED BY <1>1, <2>1 DEF PollInv, Active, Unstarted, Sound
<1>4. CountInv'
    <2>1. \A s \in Register : Pending(s)' = Pending(s)
        BY <1>1 DEF Pending, Active
    <2>2. failures' \in [Register -> Nat] /\ \A s \in Register : failures'[s] <= failures[s]
        BY <1>1 DEF IInv, TypeInv
    <2> QED BY <1>1, <2>1, <2>2, CountKept
<1> QED BY <1>2, <1>3, <1>4 DEF IInv

LEMMA NextIInv == IInv /\ [Next]_vars => IInv'
<1> SUFFICES ASSUME IInv, [Next]_vars PROVE IInv'
    OBVIOUS
<1>1. CASE UNCHANGED vars
    <2>1. UNCHANGED <<permFailed, unsupported, failures, unsafe, poll, streak, learned>>
        BY <1>1 DEF vars, tracking
    <2>2. TypeInv' /\ GivenUpForCause' /\ UnimplementedIsLearned'
        BY <2>1 DEF IInv, TypeInv, GivenUpForCause, HealthyNeverGivenUp, UnsupportedIsRejected,
                    UnimplementedIsLearned
    <2>3. \A p \in Poller : PollInv(p)'
        BY <2>1 DEF IInv, PollInv, Active
    <2>4. CountInv'
        <3>1. \A r \in Register : Pending(r)' = Pending(r)
            BY <2>1 DEF Pending, Active
        <3> QED BY <2>1, <3>1 DEF IInv, CountInv
    <2> QED BY <2>2, <2>3, <2>4 DEF IInv
<1>2. ASSUME NEW p \in Poller, NEW wanted \in Lists, ReadBatch(p, wanted) PROVE IInv'
    BY <1>2, ReadBatchStep
<1>3. ASSUME NEW p \in Poller, Connected(p) \/ PollFails(p) \/ GroupFails(p) PROVE IInv'
    BY <1>3, ConnectedStep, PollFailsStep, GroupFailsStep
<1>4. ASSUME NEW p \in Poller, NEW bad \in SUBSET Register, GroupAnswers(p, bad) PROVE IInv'
    BY <1>4, GroupAnswersStep
<1>5. ASSUME NEW p \in Poller, NEW r \in Register,
             \/ SingleValid(p, r) \/ SingleSuspect(p, r)
             \/ SingleIllegal(p, r) \/ SingleFails(p, r)
      PROVE  IInv'
    BY <1>5, SingleValidStep, SingleSuspectStep, SingleIllegalStep, SingleFailsStep
<1>6. CASE ResetFailedRegisters
    BY <1>6, ResetStep
<1>7. ASSUME NEW r \in Register, MarkBatchUnsafe(r) PROVE IInv'
    BY <1>7, MarkStep
<1> QED BY <1>1, <1>2, <1>3, <1>4, <1>5, <1>6, <1>7 DEF Next

LEMMA IInvHolds == Spec => []IInv
BY InitIInv, NextIInv, PTL DEF Spec

-----------------------------------------------------------------------------
(* The results.                                                            *)

(* The variables keep their types.  A failure counter passes the threshold *)
(* by at most one for every other poll that was under way when the         *)
(* register was given up (_read_individual_fallback counts it once more).  *)
THEOREM TypeCorrect == Spec => []TypeOK
<1>1. IInv => TypeOK
    <2> SUFFICES ASSUME IInv, NEW r \in Register
                 PROVE  failures[r] \in 0 .. Threshold + Cardinality(Poller) - 1
        BY DEF IInv, TypeInv, TypeOK
    <2>1. failures[r] \in Nat /\ Threshold \in Nat /\ Cardinality(Poller) \in Nat
        BY ReadsAssumption, FS_CardinalityType DEF IInv, TypeInv
    <2>2. CASE failures[r] >= Threshold
        <3>1. Cardinality(Pending(r)) \in Nat
            BY ReadsAssumption, FS_Subset, FS_CardinalityType DEF Pending
        <3>2. failures[r] + Cardinality(Pending(r)) < Threshold + Cardinality(Poller)
            BY <2>2 DEF IInv, CountInv
        <3> QED BY <2>1, <3>1, <3>2
    <2>3. CASE ~(failures[r] >= Threshold)
        BY <2>1, <2>3
    <2> QED BY <2>2, <2>3
<1> QED BY <1>1, IInvHolds, PTL

(* Whatever polls, resets and failing groups come together, a register is  *)
(* given up, or called unsupported, only for what it did itself.           *)
THEOREM NoneGivenUpWithoutCause == Spec => []GivenUpForCause
BY IInvHolds, PTL DEF IInv

(* Between resets, a poll that ran to its end has taught the client every  *)
(* unimplemented register it covered: none is asked for again.             *)
THEOREM PollsLearn == Spec => []UnimplementedIsLearned
BY IInvHolds, PTL DEF IInv

(* A register in the quarantine when a poll began is in none of its groups *)
(* and in nothing it took from one.                                        *)
THEOREM QuarantineHolds == Spec => []QuarantineKept
<1>1. IInv => QuarantineKept
    BY DEF IInv, QuarantineKept, PollInv, Sound, Unstarted
<1> QED BY <1>1, IInvHolds, PTL

(* read_batch() drops no register it was asked for and reads none twice,   *)
(* however the groups, the quarantine and the fallbacks share them out.    *)
THEOREM NoneDropped == Spec => []EveryRegisterAccounted
<1>1. ASSUME IInv, NEW p \in Poller, Active(p), poll[p].stage # "connecting"
      PROVE  LET rec == poll[p]
                 parts == <<UNION rec.groups, rec.queue, rec.later,
                            rec.grouped, rec.single, rec.omitted>>
             IN  /\ rec.wanted = UNION {parts[i] : i \in 1 .. 6}
                 /\ \A i, j \in 1 .. 6 : i # j => parts[i] \cap parts[j] = {}
    <2> DEFINE rec == poll[p]
               parts == <<UNION rec.groups, rec.queue, rec.later,
                          rec.grouped, rec.single, rec.omitted>>
    <2>1. Partition(rec)
        BY <1>1 DEF IInv, PollInv, Sound
    <2>2. /\ parts[1] = UNION rec.groups /\ parts[2] = rec.queue /\ parts[3] = rec.later
          /\ parts[4] = rec.grouped /\ parts[5] = rec.single /\ parts[6] = rec.omitted
        OBVIOUS
    <2>3. \A i \in 1 .. 6 : i = 1 \/ i = 2 \/ i = 3 \/ i = 4 \/ i = 5 \/ i = 6
        OBVIOUS
    <2> HIDE DEF parts
    <2>4. rec.wanted = UNION {parts[i] : i \in 1 .. 6}
        <3>1. ASSUME NEW a \in rec.wanted PROVE \E i \in 1 .. 6 : a \in parts[i]
            <4>1. \/ a \in parts[1] \/ a \in parts[2] \/ a \in parts[3]
                  \/ a \in parts[4] \/ a \in parts[5] \/ a \in parts[6]
                BY <2>1, <2>2 DEF Partition
            <4> QED BY <4>1
        <3>2. ASSUME NEW i \in 1 .. 6 PROVE parts[i] \subseteq rec.wanted
            BY <2>1, <2>2, <2>3 DEF Partition
        <3> QED BY <3>1, <3>2
    <2>5. ASSUME NEW i \in 1 .. 6, NEW j \in 1 .. 6, i # j PROVE parts[i] \cap parts[j] = {}
        <3>1. CASE i = 1
            BY <2>1, <2>2, <2>3, <2>5, <3>1 DEF Partition
        <3>2. CASE i = 2
            BY <2>1, <2>2, <2>3, <2>5, <3>2 DEF Partition
        <3>3. CASE i = 3
            BY <2>1, <2>2, <2>3, <2>5, <3>3 DEF Partition
        <3>4. CASE i = 4
            BY <2>1, <2>2, <2>3, <2>5, <3>4 DEF Partition
        <3>5. CASE i = 5
            BY <2>1, <2>2, <2>3, <2>5, <3>5 DEF Partition
        <3>6. CASE i = 6
            BY <2>1, <2>2, <2>3, <2>5, <3>6 DEF Partition
        <3> QED BY <2>3, <3>1, <3>2, <3>3, <3>4, <3>5, <3>6
    <2> QED BY <2>4, <2>5 DEF parts
<1>2. IInv => EveryRegisterAccounted
    BY <1>1 DEF EveryRegisterAccounted
<1> QED BY <1>2, IInvHolds, PTL
=============================================================================
