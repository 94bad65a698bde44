------------------------ MODULE ModelDetection_proofs ------------------------
(***************************************************************************)
(* Proofs about ModelDetection, for any number of detections at a time,    *)
(* any controllers, circuits and zone modules, and a network that fails as *)
(* often as it likes.                                                      *)
(***************************************************************************)
EXTENDS ModelDetection, WellFoundedInduction, TLAPS

Gates == {One(k) : k \in {"flow_gate", "mode_gate", "flow_batch", "mode_batch"}}
Singles == Capabilities \cup
               {"power_limit", "booster", "consumption", "flow_sensor", "core", "firmware"}

-----------------------------------------------------------------------------
(* Probes and what they cover.                                             *)

LEMMA SlotFields ==
  ASSUME NEW k, NEW n
  PROVE  Slot(k, n).kind = k /\ Slot(k, n).n = n
BY DEF Slot

LEMMA SlotsRegistered ==
  /\ \A n \in 1 .. Circuits : Slot("flow", n) \in Registers /\ Slot("mode", n) \in Registers
  /\ \A n \in 1 .. Zones : Slot("zone", n) \in Registers
  /\ \A k \in Singles : One(k) \in Registers
  /\ One("flow") \in Registers /\ One("mode") \in Registers /\ One("zone") \in Registers
  /\ Registers \subseteq Probes /\ Gates \subseteq Probes
<1>1. \A n \in 1 .. Circuits : Slot("flow", n) \in Registers /\ Slot("mode", n) \in Registers
    BY DEF Registers, Slots
<1>2. \A n \in 1 .. Zones : Slot("zone", n) \in Registers
    BY DEF Registers, Slots
<1>3. \A k \in Singles : One(k) \in Registers
    BY DEF Registers, Singles
<1>4. 1 \in 1 .. Circuits /\ 1 \in 1 .. Zones
    BY DetectionAssumption
<1>5. One("flow") \in Registers /\ One("mode") \in Registers /\ One("zone") \in Registers
    BY <1>1, <1>2, <1>4 DEF One
<1> QED BY <1>1, <1>2, <1>3, <1>5 DEF Probes, Gates

(* A probe is one of these.                                                *)
LEMMA ProbeKinds ==
  ASSUME NEW p \in Probes
  PROVE  \/ p \in Gates
         \/ \E n \in 1 .. Circuits : p = Slot("flow", n) \/ p = Slot("mode", n)
         \/ \E n \in 1 .. Zones : p = Slot("zone", n)
         \/ \E k \in Singles : p = One(k)
BY DEF Probes, Gates, Registers, Slots, Singles

LEMMA ProbeTyped ==
  ASSUME NEW p \in Probes
  PROVE  /\ Base(p) \in Registers
         /\ Covered(p) \subseteq Registers
         /\ p.kind = "zone" => p.n \in 1 .. Zones /\ p = Slot("zone", p.n)
<1>0. \A k \in Singles : k \notin {"flow_gate", "mode_gate", "flow_batch", "mode_batch", "zone"}
    BY DEF Singles, Capabilities
<1>1. Slots("flow", Circuits) \subseteq Registers /\ Slots("mode", Circuits) \subseteq Registers
    BY DEF Registers
<1>2. CASE p \in Gates
    <2>1. p.kind \in {"flow_gate", "mode_gate", "flow_batch", "mode_batch"}
        BY <1>2, SlotFields DEF Gates, One
    <2> QED BY <1>1, <2>1, SlotsRegistered DEF Base, Covered
<1>3. ASSUME NEW n \in 1 .. Circuits, p = Slot("flow", n) \/ p = Slot("mode", n)
      PROVE  p.kind \in {"flow", "mode"} /\ p \in Registers
    BY <1>3, SlotFields, SlotsRegistered
<1>4. ASSUME NEW n \in 1 .. Zones, p = Slot("zone", n)
      PROVE  p.kind = "zone" /\ p.n = n /\ p \in Registers
    BY <1>4, SlotFields, SlotsRegistered
<1>5. ASSUME NEW k \in Singles, p = One(k)
      PROVE  p.kind = k /\ p \in Registers
    BY <1>5, SlotFields, SlotsRegistered DEF One
<1>6. CASE p \in Registers /\ p.kind \notin {"flow_gate", "mode_gate", "flow_batch", "mode_batch"}
           /\ (p.kind = "zone" => p.n \in 1 .. Zones /\ p = Slot("zone", p.n))
    BY <1>6 DEF Base, Covered
<1> QED BY <1>0, <1>2, <1>3, <1>4, <1>5, <1>6, ProbeKinds

LEMMA InOrderTyped ==
  /\ InOrder("flow", Circuits) \in Seq(Probes)
  /\ InOrder("mode", Circuits) \in Seq(Probes)
<1>1. Circuits \in Nat
    BY DetectionAssumption
<1>2. \A n \in 1 .. Circuits : Slot("flow", n) \in Probes /\ Slot("mode", n) \in Probes
    BY SlotsRegistered
<1> QED BY <1>1, <1>2 DEF InOrder

LEMMA ThenTyped ==
  ASSUME NEW p \in Probes, NEW a, NEW g
  PROVE  Then(p, a, g) \in Seq(Probes)
<1>1. /\ One("flow_batch") \in Probes /\ One("mode_batch") \in Probes
      /\ One("booster") \in Probes /\ One("consumption") \in Probes
      /\ One("flow_sensor") \in Probes
    BY SlotsRegistered DEF Gates, Singles
<1>2. p.kind = "zone" /\ MoreZones(p.n, g) => Slot("zone", p.n + 1) \in Probes
    <2> SUFFICES ASSUME p.kind = "zone", MoreZones(p.n, g)
                 PROVE  Slot("zone", p.n + 1) \in Probes
        OBVIOUS
    <2>1. p.n \in 1 .. Zones /\ p.n < Zones /\ Zones \in Nat
        BY ProbeTyped, DetectionAssumption DEF MoreZones
    <2>2. p.n + 1 \in 1 .. Zones
        BY <2>1
    <2> QED BY <2>2, SlotsRegistered
<1> QED BY <1>1, <1>2, InOrderTyped DEF Then

LEMMA FirstProbesTyped ==
  ASSUME NEW f \in BOOLEAN
  PROVE  FirstProbes(f) \in Seq(Probes) /\ FirstProbes(f) # <<>>
<1>1. /\ One("flow_gate") \in Probes /\ One("mode_gate") \in Probes /\ One("zone") \in Probes
      /\ One("solar") \in Probes /\ One("isc") \in Probes /\ One("pv") \in Probes
      /\ One("cascade") \in Probes /\ One("power_limit") \in Probes
      /\ One("core") \in Probes /\ One("firmware") \in Probes
    BY SlotsRegistered DEF Gates, Singles, Capabilities
<1> DEFINE nine == <<One("flow_gate"), One("mode_gate"), One("zone"), One("solar"), One("isc"),
                     One("pv"), One("cascade"), One("power_limit"), One("core")>>
<1>2. nine \in Seq(Probes) /\ Len(nine) = 9
    BY <1>1
<1> DEFINE rest == IF f THEN <<One("firmware")>> ELSE <<>>
<1>3. rest \in Seq(Probes)
    BY <1>1
<1>4. FirstProbes(f) = nine \o rest
    BY DEF FirstProbes
<1> HIDE DEF nine, rest
<1> QED BY <1>2, <1>3, <1>4

-----------------------------------------------------------------------------
(* The end of a probe, by what it leaves behind.                           *)

NewGot(d, p, a) ==
    [r \in Registers |-> IF r \in Covered(p)
                         THEN IF Heard(a) THEN controller.says[r] ELSE "none"
                         ELSE got[d][r]]
Rest(d, p, a) == Then(p, a, NewGot(d, p, a)) \o Tail(todo[d])
Skips(d, p, a) ==
    /\ Rest(d, p, a) # <<>>
    /\ Head(Rest(d, p, a)).kind = "core"
    /\ One("flow") \notin rejected'
Coming(d, p, a) == IF Skips(d, p, a) THEN Tail(Rest(d, p, a)) ELSE Rest(d, p, a)
Seventeen(d, p, a) ==
    IF p.kind = "core" THEN Signature17(NewGot(d, p, a), rejected') ELSE is17[d]

LEMMA AdvanceIs ==
  ASSUME NEW d \in Detector, NEW p, NEW a, Advance(d, p, a)
  PROVE  /\ rejected' = IF a = "rejected" THEN rejected \cup {Base(p)} ELSE rejected \ {Base(p)}
         /\ got' = [got EXCEPT ![d] = NewGot(d, p, a)]
         /\ is17' = [is17 EXCEPT ![d] = Seventeen(d, p, a)]
         /\ todo' = [todo EXCEPT ![d] = Coming(d, p, a)]
         /\ result' = [result EXCEPT ![d] =
                IF Coming(d, p, a) # <<>> THEN Pending ELSE IF suspect' THEN Raised
                ELSE Conclusion(NewGot(d, p, a), Seventeen(d, p, a))]
<1> DEFINE g == IF Heard(a)
             THEN [r \in Registers |-> IF r \in Covered(p) THEN controller.says[r] ELSE got[d][r]]
             ELSE [r \in Registers |-> IF r \in Covered(p) THEN "none" ELSE got[d][r]]
<1>1. g = NewGot(d, p, a)
    BY DEF NewGot
<1> HIDE DEF g
<1>2. /\ rejected' = Recorded(p, a)
      /\ got' = [got EXCEPT ![d] = g]
      /\ LET rest == Then(p, a, g) \o Tail(todo[d])
             skip == rest # <<>> /\ Head(rest).kind = "core" /\ One("flow") \notin rejected'
             next == IF skip THEN Tail(rest) ELSE rest
             seventeen == IF p.kind = "core" THEN Signature17(g, rejected') ELSE is17[d]
         IN  /\ is17' = [is17 EXCEPT ![d] = seventeen]
             /\ todo' = [todo EXCEPT ![d] = next]
             /\ result' = [result EXCEPT ![d] =
                   IF next # <<>> THEN Pending ELSE IF suspect' THEN Raised
                   ELSE Conclusion(g, seventeen)]
    BY Zenon DEF Advance, g
<1>3. rejected' = IF a = "rejected" THEN rejected \cup {Base(p)} ELSE rejected \ {Base(p)}
    BY <1>2 DEF Recorded
<1> QED BY <1>1, <1>2, <1>3, Zenon DEF Rest, Skips, Coming, Seventeen

(* Every probe ends with the controller's answer or with none.             *)
Ended(d, a) ==
    /\ Running(d)
    /\ Advance(d, Head(todo[d]), a)
    /\ suspect' \in BOOLEAN
    /\ link' \in {"closed", "open", "dead"}
    /\ faults' \in 0 .. MaxFaults
    /\ lossy' = (IF a = "none" THEN [lossy EXCEPT ![d] = TRUE] ELSE lossy)
    /\ silent' \in [Detector -> BOOLEAN]
    /\ UNCHANGED <<shared, net, controller>>

LEMMA SaysSomething ==
  ASSUME TypeOK, NEW p \in Probes
  PROVE  /\ controller.says \in [Registers -> Answers]
         /\ Says(p) \in Answers /\ Says(p) # "none"
         /\ Heard(Says(p)) => \A r \in Covered(p) \cup {Base(p)} : Heard(controller.says[r])
<1>1. controller.says \in [Registers -> Answers]
    BY DetectionAssumption DEF TypeOK
<1>2. Base(p) \in Registers /\ Covered(p) \subseteq Registers
    BY ProbeTyped
<1> QED BY <1>1, <1>2 DEF Says, Answers, Heard

LEMMA ProbeEnds ==
  ASSUME TypeOK, NEW d \in Detector, Answered(d) \/ Fails(d) \/ Lost(d) \/ Refused(d)
  PROVE  \E a \in {Says(Head(todo[d])), "none"} : Ended(d, a)
<1>0. /\ MaxFaults \in Nat /\ silent \in [Detector -> BOOLEAN] /\ faults \in 0 .. MaxFaults
      /\ link \in {"closed", "open", "dead"}
    BY DetectionAssumption DEF TypeOK
<1>1. CASE Answered(d)
    <2>1. Running(d)
        BY <1>1 DEF Answered
    <2>2. Head(todo[d]) \in Probes
        BY <2>1 DEF TypeOK, Running
    <2>3. Says(Head(todo[d])) # "none"
        BY <2>2, SaysSomething
    <2> QED BY <1>0, <1>1, <2>3 DEF Answered, Ended, network
<1>2. CASE Fails(d)
    <2>1. faults < MaxFaults /\ faults' = faults + 1
        BY <1>2 DEF Fails
    <2>2. faults' \in 0 .. MaxFaults
        BY <1>0, <2>1
    <2> QED BY <1>0, <1>2, <2>2 DEF Fails, Ended
<1>3. CASE Lost(d)
    BY <1>0, <1>3 DEF Lost, Ended, network
<1>4. CASE Refused(d)
    BY <1>0, <1>4 DEF Refused, Ended, network
<1> QED BY <1>1, <1>2, <1>3, <1>4

-----------------------------------------------------------------------------
(* Conclusions have their type.                                            *)

LEMMA HasLeast ==
  ASSUME NEW S \in SUBSET Nat, S # {}
  PROVE  \E x \in S : \A y \in S : x <= y
<1>1. PICK x \in S : \A y \in S : <<y, x>> \notin OpToRel(<, Nat)
    BY WFMin, NatLessThanWellFounded
<1>2. ASSUME NEW y \in S, y < x PROVE FALSE
    <2>1. <<y, x>> \in OpToRel(<, Nat)
        BY <1>2 DEF OpToRel
    <2> QED BY <1>1, <2>1, Zenon
<1> QED BY <1>2

LEMMA ZoneModulesLargest ==
  ASSUME NEW g
  PROVE  /\ ZoneModules(g) \in 0 .. Zones
         /\ ZoneModules(g) > 0 => Heard(g[Slot("zone", ZoneModules(g))])
         /\ \A n \in 1 .. Zones : Heard(g[Slot("zone", n)]) => n <= ZoneModules(g)
<1> DEFINE present == {n \in 1 .. Zones : Heard(g[Slot("zone", n)])}
<1>0. Zones \in Nat
    BY DetectionAssumption
<1>1. CASE present = {}
    <2>1. ZoneModules(g) = 0
        BY <1>1 DEF ZoneModules
    <2> QED BY <1>0, <1>1, <2>1
<1>2. CASE present # {}
    <2>1. PICK n \in present : \A m \in present : m <= n
        <3> DEFINE left == {Zones - n : n \in present}
        <3>1. left \subseteq Nat /\ left # {}
            BY <1>0, <1>2
        <3>2. PICK k \in left : \A l \in left : k <= l
            BY <3>1, HasLeast
        <3>3. PICK n \in present : k = Zones - n
            BY <3>2
        <3>4. ASSUME NEW m \in present PROVE m <= n
            <4>1. Zones - m \in left /\ n \in Nat /\ m \in Nat
                BY <1>0
            <4>2. Zones - n <= Zones - m
                BY <3>2, <3>3, <4>1
            <4> QED BY <1>0, <4>1, <4>2
        <3> QED BY <3>4
    <2>2. ZoneModules(g) = CHOOSE i \in present : \A m \in present : m <= i
        BY <1>2 DEF ZoneModules
    <2>3. ZoneModules(g) \in present /\ \A m \in present : m <= ZoneModules(g)
        BY <2>1, <2>2
    <2> QED BY <1>0, <2>3
<1> QED BY <1>1, <1>2

LEMMA ConclusionTyped ==
  ASSUME NEW g, NEW seventeen
  PROVE  Conclusion(g, seventeen) \in Infos
<1>1. ZoneModules(g) \in 0 .. Zones /\ 0 \in 0 .. Zones
    BY ZoneModulesLargest, DetectionAssumption
<1>2. ActiveCircuits(g) \subseteq 1 .. Circuits
    BY DEF ActiveCircuits
<1>3. Features(g) \subseteq Capabilities
    BY DEF Features
<1>4. \A m \in Families \cup {"unknown"}, c \in SUBSET (1 .. Circuits), z \in 0 .. Zones,
         f \in SUBSET Capabilities :
         [model |-> m, circuits |-> c, zones |-> z, features |-> f] \in Infos
    BY DEF Infos
<1>5. CASE seventeen
    BY <1>1, <1>3, <1>4, <1>5 DEF Conclusion, Families
<1>6. CASE ~seventeen
    BY <1>1, <1>2, <1>3, <1>4, <1>6 DEF Conclusion, Families
<1> QED BY <1>5, <1>6

-----------------------------------------------------------------------------
(* Type correctness.                                                       *)

LEMMA GotTyped ==
  ASSUME TypeOK, NEW d \in Detector, NEW p, NEW a
  PROVE  NewGot(d, p, a) \in [Registers -> Answers \cup {"none"}]
BY DetectionAssumption DEF NewGot, TypeOK

LEMMA ComingTyped ==
  ASSUME TypeOK, NEW d \in Detector, Running(d), NEW a
  PROVE  /\ Head(todo[d]) \in Probes
         /\ Rest(d, Head(todo[d]), a) \in Seq(Probes)
         /\ Coming(d, Head(todo[d]), a) \in Seq(Probes)
<1>1. todo[d] \in Seq(Probes) /\ todo[d] # <<>>
    BY DEF TypeOK, Running
<1>2. Head(todo[d]) \in Probes /\ Tail(todo[d]) \in Seq(Probes)
    BY <1>1
<1>3. Then(Head(todo[d]), a, NewGot(d, Head(todo[d]), a)) \in Seq(Probes)
    BY <1>2, ThenTyped
<1>4. Rest(d, Head(todo[d]), a) \in Seq(Probes)
    BY <1>2, <1>3 DEF Rest
<1> QED BY <1>2, <1>4 DEF Coming, Skips

LEMMA EndedTyped ==
  ASSUME TypeOK, NEW d \in Detector, NEW a, Ended(d, a)
  PROVE  TypeOK'
<1> DEFINE p == Head(todo[d])
<1>1. p \in Probes /\ Coming(d, p, a) \in Seq(Probes)
    BY ComingTyped DEF Ended
<1>2. Base(p) \in Registers
    BY <1>1, ProbeTyped
<1>3. /\ rejected' = IF a = "rejected" THEN rejected \cup {Base(p)} ELSE rejected \ {Base(p)}
      /\ got' = [got EXCEPT ![d] = NewGot(d, p, a)]
      /\ is17' = [is17 EXCEPT ![d] = Seventeen(d, p, a)]
      /\ todo' = [todo EXCEPT ![d] = Coming(d, p, a)]
      /\ result' = [result EXCEPT ![d] =
             IF Coming(d, p, a) # <<>> THEN Pending ELSE IF suspect' THEN Raised
             ELSE Conclusion(NewGot(d, p, a), Seventeen(d, p, a))]
    BY AdvanceIs DEF Ended
<1>4. NewGot(d, p, a) \in [Registers -> Answers \cup {"none"}]
    BY GotTyped
<1>5. Conclusion(NewGot(d, p, a), Seventeen(d, p, a)) \in Infos
    BY ConclusionTyped
<1>6. Seventeen(d, p, a) \in BOOLEAN
    BY DEF Seventeen, Signature17, TypeOK, Heard
<1> HIDE DEF p
<1>7. todo' \in [Detector -> Seq(Probes)] /\ rejected' \subseteq Registers
    BY <1>1, <1>2, <1>3 DEF TypeOK
<1>8. /\ got' \in [Detector -> [Registers -> Answers \cup {"none"}]]
      /\ is17' \in [Detector -> BOOLEAN]
    BY <1>3, <1>4, <1>6 DEF TypeOK
<1>9. result' \in [Detector -> Infos \cup {Pending, Raised}]
    BY <1>3, <1>5 DEF TypeOK
<1>10. lossy' \in [Detector -> BOOLEAN]
    BY DEF Ended, TypeOK
<1> QED BY <1>7, <1>8, <1>9, <1>10 DEF Ended, TypeOK

LEMMA DetectTyped ==
  ASSUME TypeOK, NEW d \in Detector, NEW f \in ReadFirmware, Detect(d, f)
  PROVE  TypeOK'
<1>1. FirstProbes(f) \in Seq(Probes)
    BY FirstProbesTyped, DetectionAssumption
<1>2. todo' \in [Detector -> Seq(Probes)]
    BY <1>1 DEF Detect, TypeOK
<1>3. got' \in [Detector -> [Registers -> Answers \cup {"none"}]]
    BY DEF Detect, TypeOK, Nothing
<1>4. /\ is17' \in [Detector -> BOOLEAN] /\ lossy' \in [Detector -> BOOLEAN]
      /\ silent' \in [Detector -> BOOLEAN]
      /\ result' \in [Detector -> Infos \cup {Pending, Raised}]
    BY DEF Detect, TypeOK
<1>5. shared' \in [Detector -> BOOLEAN]
    BY DEF Detect, TypeOK, Running
<1>6. /\ rejected' \subseteq Registers /\ suspect' \in BOOLEAN
      /\ link' \in {"closed", "open", "dead"}
    BY DEF Detect, TypeOK
<1> QED BY <1>2, <1>3, <1>4, <1>5, <1>6 DEF Detect, TypeOK, network

LEMMA RefusedTyped ==
  ASSUME TypeOK, NEW d \in Detector, DetectRefused(d)
  PROVE  TypeOK'
BY DEF DetectRefused, TypeOK, network

LEMMA FlipsTyped ==
  ASSUME TypeOK, NetworkFlips
  PROVE  TypeOK'
<1>1. faults < MaxFaults /\ faults' = faults + 1 /\ faults \in 0 .. MaxFaults
    BY DEF NetworkFlips, TypeOK
<1>2. faults' \in 0 .. MaxFaults
    BY <1>1, DetectionAssumption
<1>3. net' \in {"up", "down"} /\ link' \in {"closed", "open", "dead"}
    BY DEF NetworkFlips, TypeOK
<1> QED BY <1>2, <1>3 DEF NetworkFlips, TypeOK, run

LEMMA InitTyped == Init => TypeOK
<1> SUFFICES ASSUME Init PROVE TypeOK
    OBVIOUS
<1>1. todo \in [Detector -> Seq(Probes)] /\ got \in [Detector -> [Registers -> Answers \cup {"none"}]]
    BY DEF Init, Nothing
<1>2. /\ is17 \in [Detector -> BOOLEAN] /\ lossy \in [Detector -> BOOLEAN]
      /\ shared \in [Detector -> BOOLEAN] /\ silent \in [Detector -> BOOLEAN]
      /\ result \in [Detector -> Infos \cup {Pending, Raised}]
    BY DEF Init
<1>3. faults \in 0 .. MaxFaults
    BY DetectionAssumption DEF Init
<1> QED BY <1>1, <1>2, <1>3 DEF Init, TypeOK

LEMMA NextTyped == TypeOK /\ [Next]_vars => TypeOK'
<1> SUFFICES ASSUME TypeOK, [Next]_vars PROVE TypeOK'
    OBVIOUS
<1>1. ASSUME NEW d \in Detector, Answered(d) \/ Fails(d) \/ Lost(d) \/ Refused(d)
      PROVE  TypeOK'
    BY <1>1, ProbeEnds, EndedTyped
<1>2. CASE UNCHANGED vars
    BY <1>2 DEF vars, run, network, TypeOK
<1> QED BY <1>1, <1>2, DetectTyped, RefusedTyped, FlipsTyped DEF Next

(* Every detection keeps to the probes that the register map allows, its   *)
(* answers and its conclusions have their types, and a zone beyond the     *)
(* last is never asked for (detect_model).                                 *)
THEOREM TypeCorrect == Spec => []TypeOK
<1> QED BY InitTyped, NextTyped, PTL DEF Spec

-----------------------------------------------------------------------------
(* What is heard is what the controller says, and an address is recorded   *)
(* as rejected only if a request for it, or for its block, was.            *)

Block(r) == IF r = One("flow") THEN Slots("flow", Circuits)
            ELSE IF r = One("mode") THEN Slots("mode", Circuits) ELSE {r}

BlockRejected(r) == \E q \in Block(r) : controller.says[q] = "rejected"

Knows(g) == \A r \in Registers : Heard(g[r]) => g[r] = controller.says[r]

AnswersInv ==
    /\ \A d \in Detector : Knows(got[d])
    /\ \A r \in rejected : BlockRejected(r)

LEMMA BlockCovers ==
  ASSUME NEW p \in Probes
  PROVE  Covered(p) \cup {Base(p)} \subseteq Block(Base(p))
<1>0. One("flow") # One("mode")
    BY SlotFields DEF One
<1>1. One("flow") \in Slots("flow", Circuits) /\ One("mode") \in Slots("mode", Circuits)
    BY DetectionAssumption DEF One, Slots
<1>2. CASE p.kind \in {"flow_gate", "flow_batch"}
    <2>1. Base(p) = One("flow") /\ Covered(p) \subseteq Slots("flow", Circuits)
        BY <1>2 DEF Base, Covered
    <2> QED BY <1>1, <2>1 DEF Block
<1>3. CASE p.kind \in {"mode_gate", "mode_batch"}
    <2>1. Base(p) = One("mode") /\ Covered(p) \subseteq Slots("mode", Circuits)
        BY <1>3 DEF Base, Covered
    <2> QED BY <1>0, <1>1, <2>1 DEF Block
<1>4. CASE p.kind \notin {"flow_gate", "flow_batch", "mode_gate", "mode_batch"}
    <2>1. Base(p) = p /\ Covered(p) = {p}
        BY <1>4 DEF Base, Covered
    <2> QED BY <1>1, <2>1 DEF Block
<1> QED BY <1>2, <1>3, <1>4

LEMMA RejectionsKnown ==
  ASSUME TypeOK, AnswersInv, NEW d \in Detector, NEW a, Ended(d, a),
         a \in {Says(Head(todo[d])), "none"}
  PROVE  /\ \A r \in rejected' : BlockRejected(r)
         /\ Knows(NewGot(d, Head(todo[d]), a))
<1> DEFINE p == Head(todo[d])
<1>1. p \in Probes
    BY ComingTyped DEF Ended
<1>2. rejected' = IF a = "rejected" THEN rejected \cup {Base(p)} ELSE rejected \ {Base(p)}
    BY AdvanceIs DEF Ended
<1>3. a = "rejected" => BlockRejected(Base(p))
    <2> SUFFICES ASSUME Says(p) = "rejected" PROVE BlockRejected(Base(p))
        OBVIOUS
    <2>1. \E r \in Covered(p) \cup {Base(p)} : controller.says[r] = "rejected"
        BY DEF Says
    <2> QED BY <1>1, <2>1, BlockCovers DEF BlockRejected
<1>4. Knows(NewGot(d, p, a))
    BY DEF Knows, NewGot, Heard, AnswersInv
<1> HIDE DEF p
<1>5. \A r \in rejected' : BlockRejected(r)
    BY <1>2, <1>3 DEF AnswersInv
<1> QED BY <1>4, <1>5 DEF p

(* A controller of another family gives no cause for the 1.x signature.    *)
LEMMA NoFalseSeventeen ==
  ASSUME TypeOK, \A c \in Controllers : TellsApart(c),
         NEW g, Knows(g), NEW rej, \A r \in rej : BlockRejected(r), Signature17(g, rej)
  PROVE  controller.family = "navigator_17"
<1> SUFFICES ASSUME controller.family # "navigator_17" PROVE FALSE
    OBVIOUS
<1>1. \/ \A n \in 1 .. Circuits : controller.says[Slot("flow", n)] # "rejected"
      \/ \A n \in 1 .. Circuits : controller.says[Slot("mode", n)] # "rejected"
      \/ controller.says[One("zone")] # "rejected"
    BY DEF TellsApart, TypeOK
<1>2. BlockRejected(One("flow")) /\ BlockRejected(One("mode")) /\ BlockRejected(One("zone"))
    BY DEF Signature17
<1>3. One("flow") # One("mode") /\ One("zone") # One("flow") /\ One("zone") # One("mode")
    BY SlotFields DEF One
<1>4. \E n \in 1 .. Circuits : controller.says[Slot("flow", n)] = "rejected"
    BY <1>2 DEF BlockRejected, Block, Slots
<1>5. \E n \in 1 .. Circuits : controller.says[Slot("mode", n)] = "rejected"
    BY <1>2, <1>3 DEF BlockRejected, Block, Slots
<1>6. controller.says[One("zone")] = "rejected"
    BY <1>2, <1>3 DEF BlockRejected, Block
<1> QED BY <1>1, <1>4, <1>5, <1>6

(* Answers that are known lead to no more than what is there.              *)
Honest(i) ==
    /\ i.model = "navigator_17" => controller.family = "navigator_17"
    /\ controller.family # "navigator_17" => i.model \in PassesFor(controller.family)
    /\ i.circuits \subseteq Installed
    /\ i.zones <= ZoneModules(controller.says)
    /\ i.features \subseteq Features(controller.says)

LEMMA ConclusionHonest ==
  ASSUME TypeOK, \A c \in Controllers : TellsApart(c),
         NEW g, Knows(g), NEW seventeen \in BOOLEAN,
         seventeen => controller.family = "navigator_17"
  PROVE  Honest(Conclusion(g, seventeen))
<1>0. /\ \A n \in 1 .. Circuits : Slot("flow", n) \in Registers /\ Slot("mode", n) \in Registers
      /\ \A n \in 1 .. Zones : Slot("zone", n) \in Registers
      /\ \A k \in Singles : One(k) \in Registers
    BY SlotsRegistered
<1>1. ActiveCircuits(g) \subseteq Installed
    BY <1>0 DEF ActiveCircuits, Installed, Knows, Heard
<1>2. ZoneModules(g) <= ZoneModules(controller.says)
    <2>1. ZoneModules(g) \in 0 .. Zones /\ ZoneModules(controller.says) \in 0 .. Zones
        BY ZoneModulesLargest
    <2>2. CASE ZoneModules(g) > 0
        <3>1. ZoneModules(g) \in 1 .. Zones
            BY <2>1, <2>2, DetectionAssumption
        <3>2. Heard(g[Slot("zone", ZoneModules(g))])
            BY <2>2, ZoneModulesLargest
        <3>3. Heard(controller.says[Slot("zone", ZoneModules(g))])
            BY <1>0, <3>1, <3>2 DEF Knows
        <3> QED BY <3>1, <3>3, ZoneModulesLargest
    <2>3. CASE ~(ZoneModules(g) > 0)
        BY <2>1, <2>3, DetectionAssumption
    <2> QED BY <2>2, <2>3
<1>3. Features(g) \subseteq Features(controller.says)
    BY <1>0 DEF Features, Knows, Heard, Singles
<1>4. CASE seventeen
    <2>1. Conclusion(g, seventeen) =
            [model |-> "navigator_17", circuits |-> {}, zones |-> 0,
             features |-> Features(g) \cap {"pv"}]
        BY <1>4 DEF Conclusion
    <2>2. 0 <= ZoneModules(controller.says)
        BY ZoneModulesLargest, DetectionAssumption
    <2>3. /\ Conclusion(g, seventeen).circuits = {}
          /\ Conclusion(g, seventeen).zones = 0
          /\ Conclusion(g, seventeen).features = Features(g) \cap {"pv"}
        BY <2>1
    <2>4. controller.family = "navigator_17"
        BY <1>4
    <2>5. Conclusion(g, seventeen).features \subseteq Features(controller.says)
        BY <1>3, <2>3
    <2>6. Conclusion(g, seventeen).circuits \subseteq Installed
        BY <2>3
    <2>7. Conclusion(g, seventeen).zones <= ZoneModules(controller.says)
        BY <2>2, <2>3
    <2> QED BY <2>4, <2>5, <2>6, <2>7 DEF Honest
<1>5. CASE ~seventeen
    <2> DEFINE c == controller.says
    <2>1. Conclusion(g, seventeen) =
            [model |-> IF HasNavigator10Indicators(g) THEN "navigator_10"
                       ELSE IF ZoneModules(g) > 0 THEN "navigator_pro"
                       ELSE IF ActiveCircuits(g) # {} THEN "navigator_20" ELSE "unknown",
             circuits |-> ActiveCircuits(g), zones |-> ZoneModules(g),
             features |-> Features(g)]
        BY <1>5 DEF Conclusion
    <2>2. HasNavigator10Indicators(g) => HasNavigator10Indicators(c)
        BY <1>0 DEF HasNavigator10Indicators, Knows, Heard, Singles
    <2>3. ZoneModules(g) > 0 => ZoneModules(c) > 0
        BY <1>2, ZoneModulesLargest, DetectionAssumption
    <2>4. ActiveCircuits(g) # {} => ActiveCircuits(c) # {}
        BY <1>1 DEF Installed
    <2>5. controller.family # "navigator_17" =>
              /\ controller.family \in Families
              /\ controller.family = IF HasNavigator10Indicators(c) THEN "navigator_10"
                                     ELSE IF ZoneModules(c) > 0 THEN "navigator_pro"
                                     ELSE IF ActiveCircuits(c) # {} THEN "navigator_20"
                                     ELSE "unknown"
        BY DetectionAssumption DEF TellsApart, TypeOK, Conclusion
    <2> HIDE DEF c
    <2>6. controller.family # "navigator_17" =>
              Conclusion(g, seventeen).model \in PassesFor(controller.family)
        BY <2>1, <2>2, <2>3, <2>4, <2>5 DEF PassesFor, Families
    <2>7. /\ Conclusion(g, seventeen).model # "navigator_17"
          /\ Conclusion(g, seventeen).circuits = ActiveCircuits(g)
          /\ Conclusion(g, seventeen).zones = ZoneModules(g)
          /\ Conclusion(g, seventeen).features = Features(g)
        BY <2>1
    <2> QED BY <1>1, <1>2, <1>3, <2>6, <2>7 DEF Honest
<1> QED BY <1>4, <1>5

(* The invariant of what a detection reports.                              *)
HonestInv ==
    /\ TypeOK
    /\ AnswersInv
    /\ \A d \in Detector : is17[d] => controller.family = "navigator_17"
    /\ \A d \in Detector : Concluded(d) => Honest(result[d])

LEMMA EndedHonest ==
  ASSUME \A c \in Controllers : TellsApart(c), HonestInv,
         NEW d \in Detector, NEW a \in {Says(Head(todo[d])), "none"}, Ended(d, a)
  PROVE  HonestInv'
<1> DEFINE p == Head(todo[d])
<1>1. TypeOK /\ TypeOK' /\ UNCHANGED controller
    BY EndedTyped DEF HonestInv, Ended
<1>2. /\ got' = [got EXCEPT ![d] = NewGot(d, p, a)]
      /\ is17' = [is17 EXCEPT ![d] = Seventeen(d, p, a)]
      /\ result' = [result EXCEPT ![d] =
             IF Coming(d, p, a) # <<>> THEN Pending ELSE IF suspect' THEN Raised
             ELSE Conclusion(NewGot(d, p, a), Seventeen(d, p, a))]
    BY AdvanceIs DEF Ended
<1>3. (\A r \in rejected' : BlockRejected(r)) /\ Knows(NewGot(d, p, a))
    BY <1>1, RejectionsKnown DEF HonestInv
<1> HIDE DEF p
<1>4. Seventeen(d, p, a) => controller.family = "navigator_17"
    BY <1>1, <1>3, NoFalseSeventeen DEF Seventeen, HonestInv
<1>5. Seventeen(d, p, a) \in BOOLEAN
    BY DEF Seventeen, Signature17, HonestInv, TypeOK, Heard
<1>6. Honest(Conclusion(NewGot(d, p, a), Seventeen(d, p, a)))
    BY <1>1, <1>3, <1>4, <1>5, ConclusionHonest
<1>7. AnswersInv'
    <2>1. \A u \in Detector : Knows(got'[u])
        BY <1>1, <1>2, <1>3 DEF HonestInv, AnswersInv, TypeOK
    <2> QED BY <1>1, <1>3, <2>1 DEF AnswersInv, Knows, BlockRejected
<1>8. \A u \in Detector : is17'[u] => controller.family = "navigator_17"
    BY <1>1, <1>2, <1>4 DEF HonestInv, TypeOK
<1>9. ASSUME NEW u \in Detector, result'[u] \notin {Pending, Raised}
      PROVE  Honest(result'[u])
    BY <1>1, <1>2, <1>6, <1>9 DEF HonestInv, TypeOK, Concluded
<1>10. \A i : Honest(i) <=> Honest(i)'
    BY <1>1 DEF Honest, Installed
<1>11. \A u \in Detector : Concluded(u)' => Honest(result'[u])
    BY <1>9 DEF Concluded
<1> QED BY <1>1, <1>7, <1>8, <1>10, <1>11 DEF HonestInv

LEMMA HonestNext ==
  ASSUME \A c \in Controllers : TellsApart(c), HonestInv, [Next]_vars
  PROVE  HonestInv'
<1>1. TypeOK /\ TypeOK'
    BY NextTyped DEF HonestInv
<1>2. ASSUME NEW d \in Detector, Answered(d) \/ Fails(d) \/ Lost(d) \/ Refused(d)
      PROVE  HonestInv'
    BY <1>1, <1>2, ProbeEnds, EndedHonest
<1>3. ASSUME UNCHANGED <<got, is17, result, rejected, controller>>
      PROVE  HonestInv'
    BY <1>1, <1>3 DEF HonestInv, AnswersInv, Knows, BlockRejected, Concluded, Honest, Installed
<1>4. ASSUME NEW d \in Detector, NEW f \in ReadFirmware, Detect(d, f)
      PROVE  HonestInv'
    <2>1. \A r \in Registers : ~Heard(Nothing[r])
        BY DEF Nothing, Heard
    <2>2. AnswersInv'
        BY <1>1, <1>4, <2>1 DEF Detect, HonestInv, AnswersInv, Knows, TypeOK, network, BlockRejected
    <2>3. \A u \in Detector : is17'[u] => is17[u]
        BY <1>1, <1>4 DEF Detect, TypeOK
    <2>4. \A u \in Detector : Concluded(u)' => Concluded(u) /\ result'[u] = result[u]
        BY <1>1, <1>4 DEF Detect, TypeOK, Concluded
    <2>5. UNCHANGED controller
        BY <1>4 DEF Detect, network
    <2> QED BY <1>1, <2>2, <2>3, <2>4, <2>5 DEF HonestInv, Honest, Installed
<1>5. ASSUME NEW d \in Detector, DetectRefused(d)
      PROVE  HonestInv'
    <2>1. UNCHANGED <<got, is17, rejected, controller>>
        BY <1>5 DEF DetectRefused, network
    <2>2. \A u \in Detector : Concluded(u)' => Concluded(u) /\ result'[u] = result[u]
        BY <1>1, <1>5 DEF DetectRefused, TypeOK, Concluded
    <2> QED BY <1>1, <2>1, <2>2 DEF HonestInv, AnswersInv, Knows, BlockRejected, Honest, Installed
<1>6. CASE NetworkFlips
    BY <1>3, <1>6 DEF NetworkFlips, run
<1>7. CASE UNCHANGED vars
    BY <1>3, <1>7 DEF vars, run, network
<1> QED BY <1>2, <1>4, <1>5, <1>6, <1>7 DEF Next

LEMMA HonestInit == Init => HonestInv
<1> SUFFICES ASSUME Init PROVE HonestInv
    OBVIOUS
<1>1. TypeOK
    BY InitTyped
<1>2. AnswersInv
    BY DEF Init, AnswersInv, Knows, Nothing, Heard
<1>3. \A d \in Detector : ~is17[d] /\ ~Concluded(d)
    BY DEF Init, Concluded
<1> QED BY <1>1, <1>2, <1>3 DEF HonestInv

-----------------------------------------------------------------------------
(* What the probes still to make will settle, if all are answered.         *)

Ahead(q) == {q[i] : i \in 1 .. Len(q)}

LEMMA AheadOfTail ==
  ASSUME NEW q \in Seq(Probes), q # <<>>
  PROVE  Ahead(q) = {Head(q)} \cup Ahead(Tail(q))
<1>1. /\ Len(Tail(q)) = Len(q) - 1 /\ Len(q) \in Nat /\ Len(q) > 0
      /\ Head(q) = q[1]
      /\ \A i \in 1 .. Len(q) - 1 : Tail(q)[i] = q[i + 1]
    OBVIOUS
<1>2. ASSUME NEW i \in 1 .. Len(q) PROVE q[i] \in {Head(q)} \cup Ahead(Tail(q))
    <2>1. CASE i = 1
        BY <1>1, <2>1
    <2>2. CASE i # 1
        <3>1. i - 1 \in 1 .. Len(q) - 1 /\ (i - 1) + 1 = i
            BY <1>1, <2>2
        <3> QED BY <1>1, <3>1 DEF Ahead
    <2> QED BY <2>1, <2>2
<1>3. ASSUME NEW i \in 1 .. Len(Tail(q)) PROVE Tail(q)[i] \in Ahead(q)
    <2>1. i + 1 \in 1 .. Len(q) /\ i \in 1 .. Len(q) - 1
        BY <1>1
    <2> QED BY <1>1, <2>1 DEF Ahead
<1>4. Head(q) \in Ahead(q)
    <2>1. 1 \in 1 .. Len(q)
        BY <1>1
    <2> QED BY <1>1, <2>1 DEF Ahead
<1> QED BY <1>2, <1>3, <1>4 DEF Ahead

LEMMA AheadOfBoth ==
  ASSUME NEW s \in Seq(Probes), NEW q \in Seq(Probes)
  PROVE  Ahead(s \o q) = Ahead(s) \cup Ahead(q)
<1>1. /\ Len(s \o q) = Len(s) + Len(q) /\ Len(s) \in Nat /\ Len(q) \in Nat
      /\ \A i \in 1 .. Len(s) + Len(q) :
            (s \o q)[i] = IF i <= Len(s) THEN s[i] ELSE q[i - Len(s)]
    OBVIOUS
<1>2. ASSUME NEW i \in 1 .. Len(s \o q) PROVE (s \o q)[i] \in Ahead(s) \cup Ahead(q)
    <2>1. CASE i <= Len(s)
        <3>1. i \in 1 .. Len(s)
            BY <1>1, <2>1
        <3> QED BY <1>1, <2>1, <3>1 DEF Ahead
    <2>2. CASE ~(i <= Len(s))
        <3>1. i - Len(s) \in 1 .. Len(q)
            BY <1>1, <2>2
        <3> QED BY <1>1, <2>2, <3>1 DEF Ahead
    <2> QED BY <2>1, <2>2
<1>3. ASSUME NEW i \in 1 .. Len(s) PROVE s[i] \in Ahead(s \o q)
    <2>1. i \in 1 .. Len(s) + Len(q) /\ i <= Len(s)
        BY <1>1
    <2>2. (s \o q)[i] = s[i]
        BY <1>1, <2>1
    <2> QED BY <1>1, <2>1, <2>2 DEF Ahead
<1>4. ASSUME NEW i \in 1 .. Len(q) PROVE q[i] \in Ahead(s \o q)
    <2>1. i + Len(s) \in 1 .. Len(s) + Len(q) /\ ~(i + Len(s) <= Len(s)) /\ (i + Len(s)) - Len(s) = i
        BY <1>1
    <2>2. (s \o q)[i + Len(s)] = q[i]
        BY <1>1, <2>1
    <2> QED BY <1>1, <2>1, <2>2 DEF Ahead
<1> QED BY <1>2, <1>3, <1>4 DEF Ahead

LEMMA AheadOfOne ==
  ASSUME NEW p \in Probes
  PROVE  Ahead(<<p>>) = {p}
<1>1. Len(<<p>>) = 1 /\ <<p>>[1] = p
    OBVIOUS
<1> QED BY <1>1 DEF Ahead

LEMMA AheadInOrder ==
  /\ Ahead(InOrder("flow", Circuits)) = Slots("flow", Circuits)
  /\ Ahead(InOrder("mode", Circuits)) = Slots("mode", Circuits)
<1>1. Len(InOrder("flow", Circuits)) = Circuits /\ Len(InOrder("mode", Circuits)) = Circuits
    BY DetectionAssumption DEF InOrder
<1> QED BY <1>1 DEF Ahead, InOrder, Slots

(* What follows the answer to p, by its kind.                              *)
Chain == {"power_limit", "booster", "consumption", "flow_sensor"}

Brings(p) ==
    IF p.kind \in {"flow_gate", "flow_batch"} THEN Slots("flow", Circuits)
    ELSE IF p.kind \in {"mode_gate", "mode_batch"} THEN Slots("mode", Circuits)
    ELSE IF p.kind = "zone" THEN {Slot("zone", j) : j \in p.n .. Zones}
    ELSE IF p.kind = "power_limit" THEN {One(k) : k \in Chain}
    ELSE IF p.kind = "booster" THEN {One(k) : k \in Chain \ {"power_limit"}}
    ELSE IF p.kind = "consumption" THEN {One("consumption"), One("flow_sensor")}
    ELSE {p}

(* The answer for r is in, or will not be asked for.                       *)
Known(g, r) == Heard(controller.says[r]) => g[r] = controller.says[r]

Spared(g, r) ==
    \/ r \in {One("booster"), One("consumption"), One("flow_sensor")}
          /\ g[One("power_limit")] = "value"
    \/ r \in {One("consumption"), One("flow_sensor")} /\ g[One("booster")] = "value"
    \/ r = One("flow_sensor") /\ ~Heard(controller.says[One("consumption")])

Relevant == Registers \ {One("core"), One("firmware")}

Due(q, g) ==
    \A r \in Relevant : (\E p \in Ahead(q) : r \in Brings(p)) \/ Known(g, r) \/ Spared(g, r)

ZonesInOrder(q, g) ==
    \A n \in 1 .. Zones : Slot("zone", n) \in Ahead(q) =>
        \A j \in 1 .. n - 1 : Known(g, Slot("zone", j))

CoreLast(q) ==
    \A i, j \in 1 .. Len(q) : i < j /\ q[i].kind = "core" => q[j].kind = "firmware"

-----------------------------------------------------------------------------
(* An answered probe keeps the plan.                                       *)

LEMMA AnsweredKnown ==
  ASSUME TypeOK, NEW d \in Detector, NEW p \in Probes, Covered(p) = {p}, Base(p) = p,
         p \in Registers
  PROVE  /\ Says(p) = controller.says[p]
         /\ Known(NewGot(d, p, Says(p)), p)
         /\ Heard(controller.says[p]) => NewGot(d, p, Says(p))[p] = controller.says[p]
<1>1. Says(p) = controller.says[p]
    BY DEF Says
<1> QED BY <1>1 DEF Known, NewGot

LEMMA GotElsewhere ==
  ASSUME NEW d \in Detector, NEW p, NEW a, NEW r \in Registers \ Covered(p)
  PROVE  NewGot(d, p, a)[r] = got[d][r]
BY DEF NewGot

LEMMA CoveredBrought ==
  ASSUME NEW p \in Probes
  PROVE  Covered(p) \subseteq Brings(p)
<1>1. CASE p.kind \in {"flow_gate", "flow_batch", "mode_gate", "mode_batch"}
    BY <1>1 DEF Covered, Brings
<1>2. CASE p.kind = "zone"
    <2>1. p.n \in 1 .. Zones /\ p = Slot("zone", p.n)
        BY <1>2, ProbeTyped
    <2>2. p.n \in p.n .. Zones
        BY <2>1, DetectionAssumption
    <2> QED BY <1>2, <2>1, <2>2 DEF Covered, Brings
<1>3. CASE p.kind \notin {"flow_gate", "flow_batch", "mode_gate", "mode_batch", "zone"}
    <2>1. Covered(p) = {p}
        BY <1>3 DEF Covered
    <2>2. p.kind \in Chain => p = One(p.kind)
        <3>1. ASSUME NEW n, p = Slot("flow", n) \/ p = Slot("mode", n) \/ p = Slot("zone", n)
              PROVE  p.kind \notin Chain
            BY <3>1, SlotFields DEF Chain
        <3>2. ASSUME NEW k, p = One(k) PROVE p.kind = k
            BY <3>2, SlotFields DEF One
        <3> QED BY <3>1, <3>2, ProbeKinds DEF Gates
    <2> QED BY <1>3, <2>1, <2>2 DEF Brings, Chain
<1> QED BY <1>1, <1>2, <1>3

(* What p settles is settled, spared, or brought by what its answer calls  *)
(* for.                                                                    *)
Handled(d, p, r) ==
    \/ \E x \in Ahead(Then(p, Says(p), NewGot(d, p, Says(p)))) : r \in Brings(x)
    \/ Known(NewGot(d, p, Says(p)), r)
    \/ Spared(NewGot(d, p, Says(p)), r)

LEMMA SingleProbe ==
  ASSUME NEW p \in Probes,
         p.kind \notin {"flow_gate", "flow_batch", "mode_gate", "mode_batch"}
  PROVE  /\ p \in Registers /\ Covered(p) = {p} /\ Base(p) = p
         /\ p.kind = "zone" => p.n \in 1 .. Zones /\ p = Slot("zone", p.n)
         /\ p.kind \in Singles => p = One(p.kind)
<1>1. ASSUME NEW n, p = Slot("flow", n) \/ p = Slot("mode", n) \/ p = Slot("zone", n)
      PROVE  p.kind \notin Singles
    BY <1>1, SlotFields DEF Singles, Capabilities
<1>2. ASSUME NEW k, p = One(k) PROVE p.kind = k
    BY <1>2, SlotFields DEF One
<1>3. p \notin Gates
    BY SlotFields DEF Gates, One
<1>4. p.kind \in Singles => p = One(p.kind)
    BY <1>1, <1>2, <1>3, ProbeKinds
<1>5. p \in Registers
    BY <1>3, ProbeKinds, SlotsRegistered
<1>6. Covered(p) = {p} /\ Base(p) = p
    BY DEF Covered, Base
<1> QED BY <1>4, <1>5, <1>6, ProbeTyped

LEMMA CircuitsHandled ==
  ASSUME TypeOK, NEW d \in Detector, NEW p \in Probes,
         p.kind \in {"flow_gate", "flow_batch", "mode_gate", "mode_batch"},
         NEW r \in Brings(p)
  PROVE  Handled(d, p, r)
<1> DEFINE a == Says(p)
           g == NewGot(d, p, Says(p))
<1>0. One("flow_batch") \in Probes /\ One("mode_batch") \in Probes
    BY SlotsRegistered DEF Gates
<1>1. Brings(One("flow_batch")) = Slots("flow", Circuits)
    BY SlotFields DEF Brings, One
<1>2. Brings(One("mode_batch")) = Slots("mode", Circuits)
    BY SlotFields DEF Brings, One
<1>3. \A x \in Slots("flow", Circuits) \cup Slots("mode", Circuits) : x \in Brings(x)
    BY SlotFields DEF Brings, Slots, Chain
<1>4. CASE p.kind \in {"flow_gate", "flow_batch"} /\ Then(p, a, g) = InOrder("flow", Circuits)
    BY <1>3, <1>4, AheadInOrder DEF Handled, Brings
<1>5. CASE p.kind \in {"mode_gate", "mode_batch"} /\ Then(p, a, g) = InOrder("mode", Circuits)
    <2>1. r \in Slots("mode", Circuits)
        BY <1>5 DEF Brings
    <2> QED BY <1>3, <1>5, <2>1, AheadInOrder DEF Handled
<1>6. CASE p.kind = "flow_gate" /\ Then(p, a, g) = <<One("flow_batch")>>
    BY <1>0, <1>1, <1>6, AheadOfOne DEF Handled, Brings
<1>7. CASE p.kind = "mode_gate" /\ Then(p, a, g) = <<One("mode_batch")>>
    BY <1>0, <1>2, <1>7, AheadOfOne DEF Handled, Brings
<1>8. CASE p.kind \in {"flow_batch", "mode_batch"} /\ Heard(a)
    <2>1. r \in Covered(p)
        BY <1>8 DEF Brings, Covered
    <2>2. r \in Registers
        BY <2>1, ProbeTyped
    <2>3. g[r] = controller.says[r]
        BY <1>8, <2>1, <2>2 DEF NewGot
    <2> QED BY <2>3 DEF Handled, Known
<1>9. /\ p.kind = "flow_gate" => Then(p, a, g) =
            IF Heard(a) THEN <<One("flow_batch")>> ELSE InOrder("flow", Circuits)
      /\ p.kind = "mode_gate" => Then(p, a, g) =
            IF Heard(a) THEN <<One("mode_batch")>> ELSE InOrder("mode", Circuits)
      /\ p.kind = "flow_batch" /\ ~Heard(a) => Then(p, a, g) = InOrder("flow", Circuits)
      /\ p.kind = "mode_batch" /\ ~Heard(a) => Then(p, a, g) = InOrder("mode", Circuits)
    BY DEF Then
<1> QED BY <1>4, <1>5, <1>6, <1>7, <1>8, <1>9

LEMMA MissedSame ==
  ASSUME NEW g, NEW h, NEW n \in 1 .. Zones,
         \A j \in 1 .. n : Heard(g[Slot("zone", j)]) <=> Heard(h[Slot("zone", j)])
  PROVE  MissedInRow(n, g) = MissedInRow(n, h)
<1>1. ASSUME NEW i \in 1 .. n, NEW j \in i .. n PROVE j \in 1 .. n
    BY DetectionAssumption
<1>2. {i \in 1 .. n : \A j \in i .. n : ~Heard(g[Slot("zone", j)])}
        = {i \in 1 .. n : \A j \in i .. n : ~Heard(h[Slot("zone", j)])}
    BY <1>1
<1> QED BY <1>2 DEF MissedInRow

LEMMA ZonesHandled ==
  ASSUME TypeOK, \A c \in Controllers : TellsApart(c), controller.family # "navigator_17",
         NEW d \in Detector, Knows(got[d]), NEW p \in Probes, p.kind = "zone",
         \A j \in 1 .. p.n - 1 : Known(got[d], Slot("zone", j)),
         NEW r \in Brings(p)
  PROVE  Handled(d, p, r)
<1> DEFINE a == Says(p)
           g == NewGot(d, p, Says(p))
           S == controller.says
<1>0. /\ Zones \in Nat /\ p \in Registers /\ Covered(p) = {p} /\ Base(p) = p
      /\ p.n \in 1 .. Zones /\ p = Slot("zone", p.n)
    BY SingleProbe, DetectionAssumption
<1>1. a = S[p] /\ Known(g, p) /\ (Heard(S[p]) => g[p] = S[p])
    BY <1>0, AnsweredKnown
<1>2. ~Heard(S[p]) => ~Heard(g[p])
    BY <1>0, <1>1 DEF NewGot, Heard
<1>3. PICK j \in p.n .. Zones : r = Slot("zone", j)
    BY DEF Brings
<1>4. CASE j = p.n
    BY <1>0, <1>1, <1>3, <1>4 DEF Handled
<1>5. CASE j # p.n /\ MoreZones(p.n, g)
    <2>1. Then(p, a, g) = <<Slot("zone", p.n + 1)>>
        BY <1>5 DEF Then
    <2>2. p.n + 1 \in 1 .. Zones /\ j \in p.n + 1 .. Zones
        BY <1>0, <1>5 DEF MoreZones
    <2>3. Slot("zone", p.n + 1) \in Probes
        BY <2>2, SlotsRegistered
    <2>4. r \in Brings(Slot("zone", p.n + 1))
        BY <1>3, <2>2, SlotFields DEF Brings
    <2> QED BY <2>1, <2>3, <2>4, AheadOfOne DEF Handled
<1>6. CASE j # p.n /\ ~MoreZones(p.n, g)
    <2>1. p.n < Zones /\ p.n < j /\ j \in 1 .. Zones
        BY <1>0, <1>6
    <2>2. \A i \in 1 .. p.n : Heard(g[Slot("zone", i)]) <=> Heard(S[Slot("zone", i)])
        <3> SUFFICES ASSUME NEW i \in 1 .. p.n
                     PROVE  Heard(g[Slot("zone", i)]) <=> Heard(S[Slot("zone", i)])
            OBVIOUS
        <3>1. CASE i = p.n
            BY <1>0, <1>1, <1>2, <3>1
        <3>2. CASE i # p.n
            <4>1. i \in 1 .. p.n - 1 /\ i \in 1 .. Zones
                BY <1>0, <3>2
            <4>2. Slot("zone", i) \in Registers /\ Slot("zone", i) # p
                BY <1>0, <3>2, <4>1, SlotFields, SlotsRegistered
            <4>3. g[Slot("zone", i)] = got[d][Slot("zone", i)]
                BY <1>0, <4>2, GotElsewhere
            <4> QED BY <4>1, <4>2, <4>3 DEF Known, Knows
        <3> QED BY <3>1, <3>2
    <2>3. MissedInRow(p.n, g) = MissedInRow(p.n, S)
        BY <1>0, <2>2, MissedSame
    <2>4. ~(MissedInRow(p.n, S) < EmptyStop)
        BY <1>6, <2>1, <2>3 DEF MoreZones
    <2>5. ZoneModules(S) \in 0 .. Zones /\ (Heard(S[r]) => j <= ZoneModules(S))
        BY <1>3, <2>1, ZoneModulesLargest
    <2>6. Heard(S[r]) => p.n \in 1 .. ZoneModules(S) - 1
        BY <1>0, <2>1, <2>5
    <2>7. ~Heard(S[r])
        BY <2>4, <2>6 DEF TellsApart, TypeOK
    <2> QED BY <2>7 DEF Handled, Known
<1> QED BY <1>4, <1>5, <1>6

LEMMA ChainHandled ==
  ASSUME TypeOK, NEW d \in Detector, NEW p \in Probes, p.kind \in Chain,
         NEW r \in Brings(p)
  PROVE  Handled(d, p, r)
<1> DEFINE a == Says(p)
           g == NewGot(d, p, Says(p))
           S == controller.says
<1>0. /\ p \in Registers /\ Covered(p) = {p} /\ Base(p) = p /\ p = One(p.kind)
      /\ \A k \in Chain : One(k) \in Probes
    BY SingleProbe, SlotsRegistered DEF Chain, Singles
<1>1. a = S[p] /\ Known(g, p) /\ (Heard(S[p]) => g[p] = S[p])
    BY <1>0, AnsweredKnown
<1>2. \A k, m : One(k) = One(m) => k = m
    BY SlotFields DEF One
<1>3. /\ Brings(One("power_limit")) = {One(k) : k \in Chain}
      /\ Brings(One("booster")) = {One(k) : k \in Chain \ {"power_limit"}}
      /\ Brings(One("consumption")) = {One("consumption"), One("flow_sensor")}
      /\ Brings(One("flow_sensor")) = {One("flow_sensor")}
    BY SlotFields DEF Brings, One
<1>4. CASE r = p
    BY <1>1, <1>4 DEF Handled
<1>5. CASE p = One("power_limit") /\ r # p
    <2>1. r \in {One("booster"), One("consumption"), One("flow_sensor")}
        BY <1>3, <1>5 DEF Chain
    <2>2. CASE a = "value"
        <3>1. g[One("power_limit")] = "value"
            BY <1>1, <1>5, <2>2 DEF Heard
        <3> QED BY <2>1, <3>1 DEF Handled, Spared
    <2>3. CASE a # "value"
        <3>1. Then(p, a, g) = <<One("booster")>>
            BY <1>5, <2>3, SlotFields DEF Then, One
        <3>2. r \in Brings(One("booster"))
            BY <1>3, <2>1 DEF Chain
        <3> QED BY <1>0, <3>1, <3>2, AheadOfOne DEF Handled, Chain
    <2> QED BY <2>2, <2>3
<1>6. CASE p = One("booster") /\ r # p
    <2>1. r \in {One("consumption"), One("flow_sensor")}
        BY <1>3, <1>6 DEF Chain
    <2>2. CASE a = "value"
        <3>1. g[One("booster")] = "value"
            BY <1>1, <1>6, <2>2 DEF Heard
        <3> QED BY <2>1, <3>1 DEF Handled, Spared
    <2>3. CASE a # "value"
        <3>1. Then(p, a, g) = <<One("consumption")>>
            BY <1>6, <2>3, SlotFields DEF Then, One
        <3>2. r \in Brings(One("consumption"))
            BY <1>3, <2>1
        <3> QED BY <1>0, <3>1, <3>2, AheadOfOne DEF Handled, Chain
    <2> QED BY <2>2, <2>3
<1>7. CASE p = One("consumption") /\ r # p
    <2>1. r = One("flow_sensor")
        BY <1>3, <1>7
    <2>2. CASE Heard(a)
        <3>1. Then(p, a, g) = <<One("flow_sensor")>>
            BY <1>7, <2>2, SlotFields DEF Then, One
        <3> QED BY <1>0, <1>3, <2>1, <3>1, AheadOfOne DEF Handled, Chain
    <2>3. CASE ~Heard(a)
        BY <1>1, <1>7, <2>1, <2>3 DEF Handled, Spared
    <2> QED BY <2>2, <2>3
<1>8. CASE p = One("flow_sensor")
    BY <1>3, <1>4, <1>8
<1> QED BY <1>0, <1>4, <1>5, <1>6, <1>7, <1>8 DEF Chain

LEMMA BroughtHandled ==
  ASSUME TypeOK, \A c \in Controllers : TellsApart(c), controller.family # "navigator_17",
         NEW d \in Detector, Knows(got[d]), NEW p \in Probes,
         p.kind = "zone" => \A j \in 1 .. p.n - 1 : Known(got[d], Slot("zone", j)),
         NEW r \in Brings(p)
  PROVE  Handled(d, p, r)
<1>1. CASE p.kind \in {"flow_gate", "flow_batch", "mode_gate", "mode_batch"}
    BY <1>1, CircuitsHandled
<1>2. CASE p.kind = "zone"
    BY <1>2, ZonesHandled
<1>3. CASE p.kind \in Chain
    BY <1>3, ChainHandled
<1>4. CASE p.kind \notin {"flow_gate", "flow_batch", "mode_gate", "mode_batch", "zone"} \cup Chain
    <2>1. r = p
        BY <1>4 DEF Brings, Chain
    <2>2. p \in Registers /\ Covered(p) = {p} /\ Base(p) = p
        BY <1>4, SingleProbe
    <2> QED BY <2>1, <2>2, AnsweredKnown DEF Handled
<1> QED BY <1>1, <1>2, <1>3, <1>4

(* Probes are dropped from the plan only as they are made, or if they are  *)
(* the core block.                                                         *)
LEMMA ComingAhead ==
  ASSUME TypeOK, NEW d \in Detector, Running(d), NEW a
  PROVE  LET p == Head(todo[d]) IN
         /\ Ahead(Rest(d, p, a)) = Ahead(Then(p, a, NewGot(d, p, a))) \cup Ahead(Tail(todo[d]))
         /\ Ahead(Coming(d, p, a)) \subseteq Ahead(Rest(d, p, a))
         /\ \A x \in Ahead(Rest(d, p, a)) : x \in Ahead(Coming(d, p, a)) \/ x = One("core")
<1> DEFINE p == Head(todo[d])
<1>1. /\ p \in Probes /\ Rest(d, p, a) \in Seq(Probes)
    BY ComingTyped
<1>2. /\ Then(p, a, NewGot(d, p, a)) \in Seq(Probes)
      /\ Tail(todo[d]) \in Seq(Probes)
    BY <1>1, ThenTyped DEF TypeOK, Running
<1>3. Ahead(Rest(d, p, a)) = Ahead(Then(p, a, NewGot(d, p, a))) \cup Ahead(Tail(todo[d]))
    BY <1>2, AheadOfBoth DEF Rest
<1>4. CASE Skips(d, p, a)
    <2>1. Rest(d, p, a) # <<>> /\ Head(Rest(d, p, a)).kind = "core"
        BY <1>4 DEF Skips
    <2>2. Head(Rest(d, p, a)) \in Probes
        BY <1>1, <2>1
    <2>3. Head(Rest(d, p, a)) = One("core")
        BY <2>1, <2>2, SingleProbe DEF Singles
    <2>4. Ahead(Rest(d, p, a)) = {Head(Rest(d, p, a))} \cup Ahead(Coming(d, p, a))
        BY <1>1, <1>4, <2>1, AheadOfTail DEF Coming
    <2> QED BY <1>3, <2>3, <2>4
<1>5. CASE ~Skips(d, p, a)
    BY <1>3, <1>5 DEF Coming
<1> QED BY <1>4, <1>5

LEMMA DueKept ==
  ASSUME TypeOK, \A c \in Controllers : TellsApart(c), controller.family # "navigator_17",
         NEW d \in Detector, Running(d), Knows(got[d]),
         Due(todo[d], got[d]), ZonesInOrder(todo[d], got[d])
  PROVE  LET p == Head(todo[d])
             a == Says(p)
         IN  Due(Coming(d, p, a), NewGot(d, p, a))
<1> DEFINE p == Head(todo[d])
           a == Says(p)
           g == NewGot(d, p, a)
<1>1. p \in Probes /\ Ahead(todo[d]) = {p} \cup Ahead(Tail(todo[d]))
    BY ComingTyped, AheadOfTail DEF TypeOK, Running
<1>2. p.kind = "zone" => \A j \in 1 .. p.n - 1 : Known(got[d], Slot("zone", j))
    BY <1>1, ProbeTyped DEF ZonesInOrder
<1>3. /\ Ahead(Rest(d, p, a)) = Ahead(Then(p, a, g)) \cup Ahead(Tail(todo[d]))
      /\ \A x \in Ahead(Rest(d, p, a)) : x \in Ahead(Coming(d, p, a)) \/ x = One("core")
    BY ComingAhead
<1>4. Brings(One("core")) = {One("core")}
    BY SlotFields DEF Brings, One, Chain
<1>5. ASSUME NEW r \in Relevant, NEW x \in Ahead(Then(p, a, g)) \cup Ahead(Tail(todo[d])),
             r \in Brings(x)
      PROVE  \E y \in Ahead(Coming(d, p, a)) : r \in Brings(y)
    BY <1>3, <1>4, <1>5 DEF Relevant
<1>6. ASSUME NEW r \in Relevant, r \in Brings(p)
      PROVE  \/ \E y \in Ahead(Coming(d, p, a)) : r \in Brings(y)
             \/ Known(g, r) \/ Spared(g, r)
    <2>1. Handled(d, p, r)
        BY <1>1, <1>2, <1>6, BroughtHandled
    <2> QED BY <1>5, <2>1 DEF Handled
<1>7. Covered(p) \subseteq Brings(p)
    BY <1>1, CoveredBrought
<1>8. ASSUME NEW r \in Relevant, Known(got[d], r), r \notin Brings(p)
      PROVE  Known(g, r)
    BY <1>7, <1>8, GotElsewhere DEF Known, Relevant
<1>9. ASSUME NEW r \in Relevant, Spared(got[d], r), r \notin Brings(p)
      PROVE  Spared(g, r)
    <2>1. \A k \in {"power_limit", "booster"} : One(k) \in Registers
        BY SlotsRegistered DEF Singles
    <2>2. ASSUME NEW k \in {"power_limit", "booster"}, One(k) \in Covered(p)
          PROVE  p = One(k)
        <3>1. One(k).kind = k
            BY SlotFields DEF One
        <3>2. One(k) \notin Slots("flow", Circuits) \cup Slots("mode", Circuits)
            BY <3>1, SlotFields DEF Slots
        <3> QED BY <2>2, <3>2 DEF Covered
    <2>3. One("power_limit") # p \/ r \notin {One("booster"), One("consumption"), One("flow_sensor")}
        BY <1>9, SlotFields DEF Brings, One, Chain
    <2>4. One("booster") # p \/ r \notin {One("consumption"), One("flow_sensor")}
        BY <1>9, SlotFields DEF Brings, One, Chain
    <2>5. /\ One("power_limit") # p => g[One("power_limit")] = got[d][One("power_limit")]
          /\ One("booster") # p => g[One("booster")] = got[d][One("booster")]
        BY <2>1, <2>2, GotElsewhere
    <2> HIDE DEF g
    <2> QED BY <1>9, <2>3, <2>4, <2>5 DEF Spared
<1> HIDE DEF g, a, p
<1>10. Due(Coming(d, p, a), g)
    BY <1>1, <1>5, <1>6, <1>8, <1>9 DEF Due
<1> QED BY <1>10 DEF p, a, g

LEMMA ThenKinds ==
  ASSUME NEW p \in Probes, NEW a, NEW g, NEW x \in Ahead(Then(p, a, g))
  PROVE  /\ x.kind # "core"
         /\ x.kind = "zone" => p.kind = "zone" /\ x = Slot("zone", p.n + 1) /\ MoreZones(p.n, g)
<1>1. /\ One("flow_batch") \in Probes /\ One("mode_batch") \in Probes
      /\ One("booster") \in Probes /\ One("consumption") \in Probes
      /\ One("flow_sensor") \in Probes
    BY SlotsRegistered DEF Gates, Singles
<1>2. /\ \A y \in Ahead(InOrder("flow", Circuits)) : y.kind = "flow"
      /\ \A y \in Ahead(InOrder("mode", Circuits)) : y.kind = "mode"
    BY AheadInOrder, SlotFields DEF Slots
<1>3. \A k : One(k).kind = k
    BY SlotFields DEF One
<1>4. Ahead(<<>>) = {}
    BY DEF Ahead
<1>5. CASE Then(p, a, g) \in {InOrder("flow", Circuits), InOrder("mode", Circuits)}
    BY <1>2, <1>5
<1>6. ASSUME NEW k \in {"flow_batch", "mode_batch", "booster", "consumption", "flow_sensor"},
             Then(p, a, g) = <<One(k)>>
      PROVE  x.kind = k
    BY <1>1, <1>3, <1>6, AheadOfOne
<1>7. CASE p.kind = "zone" /\ MoreZones(p.n, g) /\ Then(p, a, g) = <<Slot("zone", p.n + 1)>>
    <2>1. p.n + 1 \in 1 .. Zones
        BY <1>7, ProbeTyped, DetectionAssumption DEF MoreZones
    <2>2. Slot("zone", p.n + 1) \in Probes
        BY <2>1, SlotsRegistered
    <2> QED BY <1>7, <2>2, AheadOfOne, SlotFields
<1>8. CASE Then(p, a, g) = <<>>
    BY <1>4, <1>8
<1>9. \/ Then(p, a, g) \in {InOrder("flow", Circuits), InOrder("mode", Circuits)}
      \/ \E k \in {"flow_batch", "mode_batch", "booster", "consumption", "flow_sensor"} :
             Then(p, a, g) = <<One(k)>>
      \/ p.kind = "zone" /\ MoreZones(p.n, g) /\ Then(p, a, g) = <<Slot("zone", p.n + 1)>>
      \/ Then(p, a, g) = <<>>
    BY DEF Then
<1> QED BY <1>5, <1>6, <1>7, <1>8, <1>9

LEMMA ZonesKept ==
  ASSUME TypeOK, NEW d \in Detector, Running(d), ZonesInOrder(todo[d], got[d])
  PROVE  LET p == Head(todo[d])
             a == Says(p)
         IN  ZonesInOrder(Coming(d, p, a), NewGot(d, p, a))
<1> DEFINE p == Head(todo[d])
           a == Says(p)
           g == NewGot(d, p, a)
<1>1. p \in Probes /\ Ahead(todo[d]) = {p} \cup Ahead(Tail(todo[d]))
    BY ComingTyped, AheadOfTail DEF TypeOK, Running
<1>2. Ahead(Coming(d, p, a)) \subseteq Ahead(Then(p, a, g)) \cup Ahead(Tail(todo[d]))
    BY ComingAhead
<1>3. ASSUME NEW j \in 1 .. Zones, Known(got[d], Slot("zone", j)) \/ p = Slot("zone", j)
      PROVE  Known(g, Slot("zone", j))
    <2>1. Slot("zone", j) \in Registers /\ Slot("zone", j).kind = "zone"
        BY SlotsRegistered, SlotFields
    <2>2. CASE p = Slot("zone", j)
        <3>1. Covered(p) = {p} /\ Base(p) = p
            BY <1>1, <2>1, <2>2, SingleProbe
        <3> QED BY <1>1, <2>1, <2>2, <3>1, AnsweredKnown
    <2>3. CASE p # Slot("zone", j)
        <3>1. Slot("zone", j) \notin Slots("flow", Circuits) \cup Slots("mode", Circuits)
            BY <2>1, SlotFields DEF Slots
        <3>2. Slot("zone", j) \notin Covered(p)
            BY <2>3, <3>1 DEF Covered
        <3>3. g[Slot("zone", j)] = got[d][Slot("zone", j)]
            BY <2>1, <3>2, GotElsewhere
        <3> QED BY <1>3, <2>3, <3>3 DEF Known
    <2> QED BY <2>2, <2>3
<1>4. ASSUME NEW n \in 1 .. Zones, Slot("zone", n) \in Ahead(Coming(d, p, a)),
             NEW j \in 1 .. n - 1
      PROVE  Known(g, Slot("zone", j))
    <2>0. j \in 1 .. Zones /\ Zones \in Nat
        BY DetectionAssumption
    <2>1. CASE Slot("zone", n) \in Ahead(Tail(todo[d]))
        BY <1>1, <1>3, <2>0, <2>1 DEF ZonesInOrder
    <2>2. CASE Slot("zone", n) \in Ahead(Then(p, a, g))
        <3>1. p.kind = "zone" /\ Slot("zone", n) = Slot("zone", p.n + 1)
            BY <1>1, <2>2, ThenKinds, SlotFields
        <3>2. p.n \in 1 .. Zones /\ p = Slot("zone", p.n)
            BY <1>1, <3>1, ProbeTyped
        <3>3. n = p.n + 1
            BY <3>1, SlotFields
        <3>4. j = p.n \/ j \in 1 .. p.n - 1
            BY <2>0, <3>2, <3>3
        <3>5. j = p.n => p = Slot("zone", j)
            BY <3>2
        <3>6. j \in 1 .. p.n - 1 => Known(got[d], Slot("zone", j))
            BY <1>1, <3>2 DEF ZonesInOrder
        <3> QED BY <1>3, <2>0, <3>4, <3>5, <3>6
    <2> QED BY <1>2, <1>4, <2>1, <2>2
<1> HIDE DEF g, a, p
<1>5. ZonesInOrder(Coming(d, p, a), g)
    BY <1>4 DEF ZonesInOrder
<1> QED BY <1>5 DEF p, a, g

LEMMA CoreLastOfTail ==
  ASSUME NEW q \in Seq(Probes), q # <<>>, CoreLast(q)
  PROVE  CoreLast(Tail(q))
<1>1. /\ Len(Tail(q)) = Len(q) - 1 /\ Len(q) \in Nat
      /\ \A i \in 1 .. Len(q) - 1 : Tail(q)[i] = q[i + 1]
    OBVIOUS
<1>2. ASSUME NEW i \in 1 .. Len(Tail(q)), NEW j \in 1 .. Len(Tail(q)), i < j,
             Tail(q)[i].kind = "core"
      PROVE  Tail(q)[j].kind = "firmware"
    <2>1. /\ i + 1 \in 1 .. Len(q) /\ j + 1 \in 1 .. Len(q) /\ i + 1 < j + 1
          /\ i \in 1 .. Len(q) - 1 /\ j \in 1 .. Len(q) - 1
        BY <1>1, <1>2
    <2>2. Tail(q)[i] = q[i + 1] /\ Tail(q)[j] = q[j + 1]
        BY <1>1, <2>1
    <2> QED BY <1>2, <2>1, <2>2 DEF CoreLast
<1> QED BY <1>2 DEF CoreLast

LEMMA CoreLastOfBoth ==
  ASSUME NEW s \in Seq(Probes), NEW q \in Seq(Probes), CoreLast(q),
         \A x \in Ahead(s) : x.kind # "core"
  PROVE  CoreLast(s \o q)
<1>1. /\ Len(s \o q) = Len(s) + Len(q) /\ Len(s) \in Nat /\ Len(q) \in Nat
      /\ \A i \in 1 .. Len(s) + Len(q) :
            (s \o q)[i] = IF i <= Len(s) THEN s[i] ELSE q[i - Len(s)]
    OBVIOUS
<1>2. ASSUME NEW i \in 1 .. Len(s \o q), NEW j \in 1 .. Len(s \o q), i < j,
             (s \o q)[i].kind = "core"
      PROVE  (s \o q)[j].kind = "firmware"
    <2>1. ~(i <= Len(s))
        <3>1. i <= Len(s) => i \in 1 .. Len(s) /\ (s \o q)[i] = s[i]
            BY <1>1
        <3> QED BY <1>2, <3>1 DEF Ahead
    <2>2. /\ i - Len(s) \in 1 .. Len(q) /\ j - Len(s) \in 1 .. Len(q)
          /\ i - Len(s) < j - Len(s) /\ ~(j <= Len(s))
        BY <1>1, <1>2, <2>1
    <2>3. (s \o q)[i] = q[i - Len(s)] /\ (s \o q)[j] = q[j - Len(s)]
        BY <1>1, <2>1, <2>2
    <2> QED BY <1>2, <2>2, <2>3 DEF CoreLast
<1> QED BY <1>2 DEF CoreLast

LEMMA CoreKept ==
  ASSUME TypeOK, NEW d \in Detector, Running(d), CoreLast(todo[d]), NEW a
  PROVE  /\ CoreLast(Rest(d, Head(todo[d]), a))
         /\ CoreLast(Coming(d, Head(todo[d]), a))
<1> DEFINE p == Head(todo[d])
           ts == Then(p, a, NewGot(d, p, a))
<1>0. todo[d] \in Seq(Probes) /\ todo[d] # <<>>
    BY DEF TypeOK, Running
<1>1. /\ p \in Probes /\ Rest(d, p, a) \in Seq(Probes) /\ ts \in Seq(Probes)
      /\ Tail(todo[d]) \in Seq(Probes) /\ todo[d] \in Seq(Probes) /\ todo[d] # <<>>
    <2>1. p \in Probes /\ Rest(d, p, a) \in Seq(Probes)
        BY ComingTyped
    <2>2. ts \in Seq(Probes)
        BY <2>1, ThenTyped
    <2> HIDE DEF ts, p
    <2> QED BY <1>0, <2>1, <2>2
<1>2. CoreLast(Tail(todo[d]))
    BY <1>1, CoreLastOfTail
<1>3. \A x \in Ahead(ts) : x.kind # "core"
    BY <1>1, ThenKinds
<1>4. CoreLast(Rest(d, p, a))
    BY <1>1, <1>2, <1>3, CoreLastOfBoth DEF Rest
<1>5. CoreLast(Coming(d, p, a))
    BY <1>1, <1>4, CoreLastOfTail DEF Coming, Skips
<1> QED BY <1>4, <1>5

-----------------------------------------------------------------------------
(* On a 1.x controller: the three addresses are recorded as rejected       *)
(* before the core block is due, if no other detection clears the table.   *)

GateBases == {One("flow"), One("mode"), One("zone")}

GatesSettled(q, rej) ==
    \A b \in GateBases : b \in rej \/ \E x \in Ahead(q) : Base(x) = b

LEMMA NoGateAfterCore ==
  ASSUME NEW q \in Seq(Probes), q # <<>>, Head(q).kind = "core", CoreLast(q),
         NEW x \in Ahead(q)
  PROVE  Base(x) \notin GateBases
<1>0. Len(q) \in Nat /\ Len(q) > 0 /\ Head(q) = q[1]
    OBVIOUS
<1>1. PICK i \in 1 .. Len(q) : x = q[i]
    BY DEF Ahead
<1>2. x.kind \in {"core", "firmware"}
    <2>1. CASE i = 1
        BY <1>0, <1>1, <2>1
    <2>2. CASE i # 1
        <3>1. 1 \in 1 .. Len(q) /\ 1 < i
            BY <1>0, <2>2
        <3> QED BY <1>0, <1>1, <3>1 DEF CoreLast
    <2> QED BY <2>1, <2>2
<1>3. Base(x) = x
    BY <1>2 DEF Base
<1>4. \A b \in GateBases : b.kind \in {"flow", "mode", "zone"}
    BY SlotFields DEF GateBases, One
<1> QED BY <1>2, <1>3, <1>4

LEMMA GatesKept ==
  ASSUME TypeOK, NEW d \in Detector, Running(d),
         \A b \in GateBases : controller.says[b] = "rejected",
         GatesSettled(todo[d], rejected),
         rejected' = IF Says(Head(todo[d])) = "rejected" THEN rejected \cup {Base(Head(todo[d]))}
                     ELSE rejected \ {Base(Head(todo[d]))}
  PROVE  LET p == Head(todo[d]) IN GatesSettled(Rest(d, p, Says(p)), rejected')
<1> DEFINE p == Head(todo[d])
<1>1. /\ Ahead(todo[d]) = {p} \cup Ahead(Tail(todo[d]))
      /\ Ahead(Tail(todo[d])) \subseteq Ahead(Rest(d, p, Says(p)))
    BY AheadOfTail, ComingAhead DEF TypeOK, Running
<1>2. Base(p) \in GateBases => Says(p) = "rejected"
    BY DEF Says
<1> HIDE DEF p
<1>3. ASSUME NEW b \in GateBases
      PROVE  b \in rejected' \/ \E x \in Ahead(Rest(d, p, Says(p))) : Base(x) = b
    BY <1>1, <1>2 DEF GatesSettled, p
<1> QED BY <1>3 DEF GatesSettled, p

LEMMA CoreIsMade ==
  ASSUME TypeOK, NEW d \in Detector, Running(d), CoreLast(todo[d]),
         \A b \in GateBases : controller.says[b] = "rejected",
         Heard(controller.says[One("core")]),
         GatesSettled(todo[d], rejected),
         One("core") \in Ahead(todo[d]) \/ is17[d],
         rejected' = IF Says(Head(todo[d])) = "rejected" THEN rejected \cup {Base(Head(todo[d]))}
                     ELSE rejected \ {Base(Head(todo[d]))}
  PROVE  LET p == Head(todo[d])
             a == Says(p)
         IN  /\ GatesSettled(Coming(d, p, a), rejected')
             /\ One("core") \in Ahead(Coming(d, p, a)) \/ Seventeen(d, p, a)
<1> DEFINE p == Head(todo[d])
           a == Says(p)
<1>0. /\ p \in Probes /\ todo[d] \in Seq(Probes) /\ todo[d] # <<>>
      /\ Rest(d, p, a) \in Seq(Probes)
    <2>1. p \in Probes /\ Rest(d, p, a) \in Seq(Probes)
        BY ComingTyped
    <2>2. todo[d] \in Seq(Probes) /\ todo[d] # <<>>
        BY DEF TypeOK, Running
    <2> QED BY <2>1, <2>2
<1>1. GatesSettled(Rest(d, p, a), rejected')
    BY GatesKept
<1>2. CoreLast(Rest(d, p, a))
    BY CoreKept
<1>3. ~Skips(d, p, a)
    <2> SUFFICES ASSUME Skips(d, p, a) PROVE FALSE
        OBVIOUS
    <2>1. /\ Rest(d, p, a) # <<>> /\ Head(Rest(d, p, a)).kind = "core"
          /\ One("flow") \notin rejected'
        BY DEF Skips
    <2>2. \E x \in Ahead(Rest(d, p, a)) : Base(x) \in GateBases
        BY <1>1, <2>1 DEF GatesSettled, GateBases
    <2> HIDE DEF a, p
    <2> QED BY <1>0, <1>2, <2>1, <2>2, NoGateAfterCore
<1>4. Coming(d, p, a) = Rest(d, p, a)
    BY <1>3 DEF Coming
<1>5. CASE p.kind = "core"
    <2>1. p = One("core") /\ Covered(p) = {p} /\ Base(p) = p /\ p \in Registers
        BY <1>0, <1>5, SingleProbe DEF Singles
    <2>2. Heard(NewGot(d, p, a)[One("core")])
        BY <1>0, <2>1, AnsweredKnown
    <2>3. \A b \in GateBases : b \in rejected /\ b # Base(p)
        <3>1. \A x \in Ahead(todo[d]) : Base(x) \notin GateBases
            BY <1>0, <1>5, NoGateAfterCore
        <3>2. p \in Ahead(todo[d])
            BY <1>0, AheadOfTail
        <3> QED BY <3>1, <3>2 DEF GatesSettled
    <2>4. GateBases \subseteq rejected'
        BY <2>3
    <2>5. Seventeen(d, p, a)
        BY <1>5, <2>2, <2>4 DEF Seventeen, Signature17, GateBases
    <2> QED BY <1>1, <1>4, <2>5
<1>6. CASE p.kind # "core"
    <2>1. Seventeen(d, p, a) = is17[d]
        BY <1>6 DEF Seventeen
    <2>2. One("core") \in Ahead(todo[d]) => One("core") \in Ahead(Tail(todo[d]))
        BY <1>0, <1>6, AheadOfTail, SlotFields DEF One
    <2>3. Ahead(Tail(todo[d])) \subseteq Ahead(Rest(d, p, a))
        BY ComingAhead
    <2> QED BY <1>1, <1>4, <2>1, <2>2, <2>3
<1> QED BY <1>5, <1>6

-----------------------------------------------------------------------------
(* A detection begins with all of it ahead.                                *)

LEMMA AheadOfFirst ==
  ASSUME NEW f \in BOOLEAN
  PROVE  /\ \A k \in {"flow_gate", "mode_gate", "zone", "solar", "isc", "pv", "cascade",
                      "power_limit", "core"} : One(k) \in Ahead(FirstProbes(f))
         /\ CoreLast(FirstProbes(f))
<1> DEFINE q == FirstProbes(f)
<1>1. /\ q[1] = One("flow_gate") /\ q[2] = One("mode_gate") /\ q[3] = One("zone")
      /\ q[4] = One("solar") /\ q[5] = One("isc") /\ q[6] = One("pv") /\ q[7] = One("cascade")
      /\ q[8] = One("power_limit") /\ q[9] = One("core")
      /\ Len(q) = IF f THEN 10 ELSE 9
      /\ f => q[10] = One("firmware")
    <2>1. CASE f = TRUE
        <3>1. q = <<One("flow_gate"), One("mode_gate"), One("zone"), One("solar"), One("isc"),
                    One("pv"), One("cascade"), One("power_limit"), One("core")>>
                  \o <<One("firmware")>>
            BY <2>1 DEF FirstProbes
        <3> QED BY <2>1, <3>1
    <2>2. CASE f = FALSE
        <3>1. q = <<One("flow_gate"), One("mode_gate"), One("zone"), One("solar"), One("isc"),
                    One("pv"), One("cascade"), One("power_limit"), One("core")>> \o <<>>
            BY <2>2 DEF FirstProbes
        <3> QED BY <2>2, <3>1
    <2> QED BY <2>1, <2>2
<1> HIDE DEF q
<1>2. \A i \in 1 .. 9 : i \in 1 .. Len(q)
    BY <1>1
<1>3. \A k : One(k).kind = k
    BY SlotFields DEF One
<1>4. ASSUME NEW k \in {"flow_gate", "mode_gate", "zone", "solar", "isc", "pv", "cascade",
                        "power_limit", "core"}
      PROVE  One(k) \in Ahead(q)
    <2>1. \E i \in 1 .. 9 : q[i] = One(k)
        BY <1>1
    <2> QED BY <1>2, <2>1 DEF Ahead
<1>5. ASSUME NEW i \in 1 .. Len(q), NEW j \in 1 .. Len(q), i < j, q[i].kind = "core"
      PROVE  q[j].kind = "firmware"
    <2>1. i \in {1, 2, 3, 4, 5, 6, 7, 8, 9, 10} /\ j \in {1, 2, 3, 4, 5, 6, 7, 8, 9, 10}
        BY <1>1
    <2>2. i \notin {1, 2, 3, 4, 5, 6, 7, 8}
        BY <1>1, <1>3, <1>5
    <2>3. j = 10
        BY <1>5, <2>1, <2>2
    <2>4. f
        BY <1>1, <2>3
    <2> QED BY <1>1, <1>3, <2>3, <2>4
<1> QED BY <1>4, <1>5 DEF CoreLast, q

LEMMA FirstDue ==
  ASSUME NEW f \in BOOLEAN, NEW g
  PROVE  /\ Due(FirstProbes(f), g)
         /\ ZonesInOrder(FirstProbes(f), g)
<1> DEFINE q == FirstProbes(f)
<1>1. \A k \in {"flow_gate", "mode_gate", "zone", "solar", "isc", "pv", "cascade",
                "power_limit", "core"} : One(k) \in Ahead(q)
    BY AheadOfFirst
<1>2. \A k : One(k).kind = k /\ One(k).n = 1
    BY SlotFields DEF One
<1>3. /\ Brings(One("flow_gate")) = Slots("flow", Circuits)
      /\ Brings(One("mode_gate")) = Slots("mode", Circuits)
      /\ Brings(One("zone")) = Slots("zone", Zones)
      /\ Brings(One("power_limit")) = {One(k) : k \in Chain}
      /\ \A k \in Capabilities : Brings(One(k)) = {One(k)}
    BY <1>2 DEF Brings, Slots, Chain, Capabilities
<1> HIDE DEF q
<1>4. ASSUME NEW r \in Relevant PROVE \E p \in Ahead(q) : r \in Brings(p)
    <2>1. \/ r \in Slots("flow", Circuits) \/ r \in Slots("mode", Circuits)
          \/ r \in Slots("zone", Zones) \/ r \in {One(k) : k \in Capabilities}
          \/ r \in {One(k) : k \in Chain}
        BY DEF Relevant, Registers, Chain
    <2> QED BY <1>1, <1>3, <2>1 DEF Capabilities
<1>5. ASSUME NEW n \in 1 .. Zones, Slot("zone", n) \in Ahead(q) PROVE n = 1
    <2>1. \A x \in Ahead(q) : x.n = 1
        <3> DEFINE Ks == {"flow_gate", "mode_gate", "zone", "solar", "isc", "pv", "cascade",
                          "power_limit", "core", "firmware"}
                   Ones == {One(k) : k \in Ks}
                   nine == <<One("flow_gate"), One("mode_gate"), One("zone"), One("solar"),
                             One("isc"), One("pv"), One("cascade"), One("power_limit"),
                             One("core")>>
                   rest == IF f THEN <<One("firmware")>> ELSE <<>>
        <3>1. \A k \in Ks : One(k) \in Ones
            OBVIOUS
        <3>2. \A x \in Ones : x.n = 1
            BY <1>2
        <3> HIDE DEF Ones
        <3>3. nine \in Seq(Ones) /\ rest \in Seq(Ones)
            BY <3>1
        <3>4. FirstProbes(f) = nine \o rest
            BY DEF FirstProbes
        <3> HIDE DEF nine, rest
        <3>5. q \in Seq(Ones)
            BY <3>3, <3>4 DEF q
        <3> QED BY <3>2, <3>5 DEF Ahead
    <2> QED BY <1>5, <2>1, SlotFields
<1>6. Due(q, g)
    BY <1>4 DEF Due
<1>7. ZonesInOrder(q, g)
    BY <1>5 DEF ZonesInOrder
<1> QED BY <1>6, <1>7 DEF q

-----------------------------------------------------------------------------
(* At the end of an answered detection of another family: what was heard   *)
(* gives the conclusion that all the controller says would give.           *)

LEMMA AllHeardConcludes ==
  ASSUME TypeOK, NEW g, Knows(g), \A r \in Relevant : Known(g, r) \/ Spared(g, r)
  PROVE  Conclusion(g, FALSE) = Conclusion(controller.says, FALSE)
<1> DEFINE S == controller.says
<1>1. /\ \A n \in 1 .. Circuits : /\ Slot("flow", n) \in Relevant
                                  /\ Slot("mode", n) \in Relevant
      /\ \A n \in 1 .. Zones : Slot("zone", n) \in Relevant
      /\ \A k \in Capabilities \cup Chain : One(k) \in Relevant
    <2>1. \A n : \A k \in {"core", "firmware"} : /\ Slot("flow", n) # One(k)
                                                 /\ Slot("mode", n) # One(k)
                                                 /\ Slot("zone", n) # One(k)
        BY SlotFields DEF One
    <2>2. \A k \in Capabilities \cup Chain : One(k) # One("core") /\ One(k) # One("firmware")
        BY SlotFields DEF One, Capabilities, Chain
    <2>3. \A k \in Capabilities \cup Chain : One(k) \in Registers
        BY SlotsRegistered DEF Singles, Chain
    <2> QED BY <2>1, <2>2, <2>3, SlotsRegistered DEF Relevant
<1>2. \A k, m : One(k) = One(m) => k = m
    BY SlotFields DEF One
<1>3. \A n, k : k \in Chain => /\ Slot("flow", n) # One(k) /\ Slot("mode", n) # One(k)
                               /\ Slot("zone", n) # One(k)
    BY SlotFields DEF One, Chain
<1>4. /\ \A n \in 1 .. Circuits : Known(g, Slot("flow", n)) /\ Known(g, Slot("mode", n))
      /\ \A n \in 1 .. Zones : Known(g, Slot("zone", n))
    BY <1>1, <1>3 DEF Spared, Chain
<1>5. \A k \in Capabilities \cup {"power_limit"} : Known(g, One(k))
    BY <1>1, <1>2 DEF Spared, Chain, Capabilities
<1>6. ASSUME NEW r \in Registers, Known(g, r)
      PROVE  /\ Heard(g[r]) <=> Heard(S[r])
             /\ g[r] = "value" <=> S[r] = "value"
    BY <1>6 DEF Known, Knows, Heard
<1>7. \A r \in Relevant : r \in Registers
    BY DEF Relevant
<1>8. ActiveCircuits(g) = ActiveCircuits(S)
    BY <1>1, <1>4, <1>6, <1>7 DEF ActiveCircuits
<1>9. ZoneModules(g) = ZoneModules(S)
    <2>1. \A n \in 1 .. Zones : Heard(g[Slot("zone", n)]) <=> Heard(S[Slot("zone", n)])
        BY <1>1, <1>4, <1>6, <1>7
    <2>2. /\ ZoneModules(g) \in 0 .. Zones /\ ZoneModules(S) \in 0 .. Zones /\ Zones \in Nat
          /\ ZoneModules(g) > 0 => Heard(g[Slot("zone", ZoneModules(g))])
          /\ ZoneModules(S) > 0 => Heard(S[Slot("zone", ZoneModules(S))])
        BY ZoneModulesLargest, DetectionAssumption
    <2>3. /\ ZoneModules(g) > 0 => ZoneModules(g) <= ZoneModules(S)
          /\ ZoneModules(S) > 0 => ZoneModules(S) <= ZoneModules(g)
        BY <2>1, <2>2, ZoneModulesLargest
    <2> HIDE DEF S
    <2> QED BY <2>2, <2>3
<1>10. Features(g) = Features(S)
    BY <1>1, <1>5, <1>6, <1>7 DEF Features
<1>11. HasNavigator10Indicators(g) <=> HasNavigator10Indicators(S)
    <2>1. g[One("power_limit")] = "value" <=> S[One("power_limit")] = "value"
        BY <1>1, <1>5, <1>6, <1>7 DEF Chain
    <2>2. CASE g[One("power_limit")] = "value"
        BY <2>1, <2>2 DEF HasNavigator10Indicators
    <2>3. CASE g[One("power_limit")] # "value"
        <3>1. Known(g, One("booster"))
            BY <1>1, <1>2, <2>3 DEF Spared, Chain
        <3>2. g[One("booster")] = "value" <=> S[One("booster")] = "value"
            BY <1>1, <1>6, <1>7, <3>1 DEF Chain
        <3>3. CASE g[One("booster")] = "value"
            BY <3>2, <3>3 DEF HasNavigator10Indicators
        <3>4. CASE g[One("booster")] # "value"
            <4>1. Known(g, One("consumption"))
                BY <1>1, <1>2, <2>3, <3>4 DEF Spared, Chain
            <4>2. Heard(g[One("consumption")]) <=> Heard(S[One("consumption")])
                BY <1>1, <1>6, <1>7, <4>1 DEF Chain
            <4>3. Known(g, One("flow_sensor")) \/ ~Heard(S[One("consumption")])
                BY <1>1, <1>2, <2>3, <3>4 DEF Spared, Chain
            <4>4. Heard(g[One("consumption")]) /\ Heard(g[One("flow_sensor")])
                  <=> Heard(S[One("consumption")]) /\ Heard(S[One("flow_sensor")])
                <5>1. CASE Known(g, One("flow_sensor"))
                    <6>1. Heard(g[One("flow_sensor")]) <=> Heard(S[One("flow_sensor")])
                        BY <1>1, <1>6, <1>7, <5>1 DEF Chain
                    <6> QED BY <4>2, <6>1
                <5>2. CASE ~Heard(S[One("consumption")])
                    BY <4>2, <5>2
                <5> QED BY <4>3, <5>1, <5>2
            <4> QED BY <2>1, <3>2, <4>4 DEF HasNavigator10Indicators
        <3> QED BY <3>3, <3>4
    <2> QED BY <2>2, <2>3
<1> HIDE DEF S
<1>12. Conclusion(g, FALSE) = Conclusion(S, FALSE)
    BY <1>8, <1>9, <1>10, <1>11 DEF Conclusion
<1> QED BY <1>12 DEF S

-----------------------------------------------------------------------------
(* The invariant of an answered detection.                                 *)

Recognised(d) ==
    /\ ~(shared[d] /\ controller.family = "navigator_17") =>
          /\ result[d].model = controller.family
          /\ result[d].circuits = IF controller.family = "navigator_17" THEN {} ELSE Installed
    /\ controller.family # "navigator_17" =>
          /\ result[d].zones = ZoneModules(controller.says)
          /\ result[d].features = Features(controller.says)

PlanInv ==
    \A d \in Detector : Running(d) =>
        /\ CoreLast(todo[d])
        /\ ~lossy[d] /\ controller.family # "navigator_17" =>
              /\ Due(todo[d], got[d])
              /\ ZonesInOrder(todo[d], got[d])
        /\ ~lossy[d] /\ ~shared[d] /\ controller.family = "navigator_17" =>
              /\ GatesSettled(todo[d], rejected)
              /\ One("core") \in Ahead(todo[d]) \/ is17[d]

ShareInv == \A d, u \in Detector : d # u /\ Running(d) /\ Running(u) => shared[d]

RecognisedInv ==
    /\ HonestInv
    /\ PlanInv
    /\ ShareInv
    /\ \A d \in Detector : Concluded(d) /\ ~lossy[d] => Recognised(d)

LEMMA EndIsRecognised ==
  ASSUME TypeOK, \A c \in Controllers : TellsApart(c),
         NEW d \in Detector, NEW g, Knows(g), NEW seventeen \in BOOLEAN,
         seventeen => controller.family = "navigator_17",
         controller.family # "navigator_17" => Due(<<>>, g),
         controller.family = "navigator_17" /\ ~shared[d] => seventeen,
         result'[d] = Conclusion(g, seventeen), UNCHANGED <<shared, controller>>
  PROVE  Recognised(d)'
<1>1. CASE controller.family = "navigator_17"
    <2>1. CASE seventeen
        <3>1. result'[d].model = "navigator_17" /\ result'[d].circuits = {}
            BY <2>1 DEF Conclusion
        <3> QED BY <1>1, <3>1 DEF Recognised
    <2>2. CASE ~seventeen
        BY <1>1, <2>2 DEF Recognised
    <2> QED BY <2>1, <2>2
<1>2. CASE controller.family # "navigator_17"
    <2>1. seventeen = FALSE
        BY <1>2
    <2>2. Ahead(<<>>) = {}
        BY DEF Ahead
    <2>3. \A r \in Relevant : Known(g, r) \/ Spared(g, r)
        BY <1>2, <2>2 DEF Due
    <2>4. result'[d] = Conclusion(controller.says, FALSE)
        BY <2>1, <2>3, AllHeardConcludes
    <2>5. Conclusion(controller.says, FALSE).model = controller.family
        BY <1>2 DEF TellsApart, TypeOK
    <2>6. /\ Conclusion(controller.says, FALSE).circuits = Installed
          /\ Conclusion(controller.says, FALSE).zones = ZoneModules(controller.says)
          /\ Conclusion(controller.says, FALSE).features = Features(controller.says)
        BY DEF Conclusion, Installed
    <2>7. UNCHANGED Installed
        BY DEF Installed
    <2> QED BY <1>2, <2>4, <2>5, <2>6, <2>7 DEF Recognised
<1> QED BY <1>1, <1>2

(* What the other detections see of a step that is not theirs.             *)
LEMMA OthersKeepPlan ==
  ASSUME PlanInv, ShareInv, NEW d \in Detector, Running(d), NEW u \in Detector, u # d,
         todo'[u] = todo[u], got'[u] = got[u], lossy'[u] = lossy[u],
         UNCHANGED <<shared, controller>>, Running(u)
  PROVE  /\ CoreLast(todo'[u])
         /\ ~lossy'[u] /\ controller'.family # "navigator_17" =>
               /\ Due(todo[u], got[u])
               /\ ZonesInOrder(todo[u], got[u])
         /\ shared'[u]
BY DEF PlanInv, ShareInv

LEMMA EndedRecognised ==
  ASSUME \A c \in Controllers : TellsApart(c), RecognisedInv,
         NEW d \in Detector, NEW a \in {Says(Head(todo[d])), "none"}, Ended(d, a)
  PROVE  RecognisedInv'
<1> DEFINE p == Head(todo[d])
<1>0. HonestInv /\ TypeOK /\ PlanInv /\ ShareInv /\ Running(d) /\ AnswersInv
    BY DEF RecognisedInv, HonestInv, Ended
<1>1. HonestInv' /\ TypeOK'
    BY <1>0, EndedHonest DEF HonestInv
<1>2. /\ UNCHANGED <<shared, controller>>
      /\ lossy' = (IF a = "none" THEN [lossy EXCEPT ![d] = TRUE] ELSE lossy)
    BY DEF Ended
<1>3. /\ rejected' = IF a = "rejected" THEN rejected \cup {Base(p)} ELSE rejected \ {Base(p)}
      /\ got' = [got EXCEPT ![d] = NewGot(d, p, a)]
      /\ is17' = [is17 EXCEPT ![d] = Seventeen(d, p, a)]
      /\ todo' = [todo EXCEPT ![d] = Coming(d, p, a)]
      /\ result' = [result EXCEPT ![d] =
             IF Coming(d, p, a) # <<>> THEN Pending ELSE IF suspect' THEN Raised
             ELSE Conclusion(NewGot(d, p, a), Seventeen(d, p, a))]
    BY AdvanceIs DEF Ended
<1>4. p \in Probes /\ Says(p) # "none"
    BY <1>0, ComingTyped, SaysSomething
<1>5. Knows(NewGot(d, p, a)) /\ Knows(got[d])
    BY <1>0, RejectionsKnown DEF AnswersInv
<1>6. CoreLast(todo[d]) /\ CoreLast(Coming(d, p, a))
    BY <1>0, CoreKept DEF PlanInv
<1>7. ~lossy'[d] => ~lossy[d] /\ a = Says(p)
    BY <1>0, <1>2 DEF TypeOK
<1>8. ~lossy'[d] /\ controller.family # "navigator_17" =>
          /\ Due(Coming(d, p, a), NewGot(d, p, a))
          /\ ZonesInOrder(Coming(d, p, a), NewGot(d, p, a))
    <2> SUFFICES ASSUME ~lossy'[d], controller.family # "navigator_17"
                 PROVE  /\ Due(Coming(d, p, a), NewGot(d, p, a))
                        /\ ZonesInOrder(Coming(d, p, a), NewGot(d, p, a))
        OBVIOUS
    <2>1. Due(todo[d], got[d]) /\ ZonesInOrder(todo[d], got[d])
        BY <1>0, <1>7 DEF PlanInv
    <2>2. Due(Coming(d, p, Says(p)), NewGot(d, p, Says(p)))
        BY <1>0, <1>5, <2>1, DueKept
    <2>3. ZonesInOrder(Coming(d, p, Says(p)), NewGot(d, p, Says(p)))
        BY <1>0, <2>1, ZonesKept
    <2> QED BY <1>7, <2>2, <2>3
<1>9. ~lossy'[d] /\ ~shared[d] /\ controller.family = "navigator_17" =>
          /\ GatesSettled(Coming(d, p, a), rejected')
          /\ One("core") \in Ahead(Coming(d, p, a)) \/ Seventeen(d, p, a)
    <2> SUFFICES ASSUME ~lossy'[d], ~shared[d], controller.family = "navigator_17"
                 PROVE  /\ GatesSettled(Coming(d, p, a), rejected')
                        /\ One("core") \in Ahead(Coming(d, p, a)) \/ Seventeen(d, p, a)
        OBVIOUS
    <2>1. GatesSettled(todo[d], rejected) /\ (One("core") \in Ahead(todo[d]) \/ is17[d])
        BY <1>0, <1>7 DEF PlanInv
    <2>2. Signature17(controller.says, {r \in Registers : controller.says[r] = "rejected"})
        BY <1>0 DEF TellsApart, TypeOK
    <2>3. /\ Heard(controller.says[One("core")])
          /\ \A b \in GateBases : controller.says[b] = "rejected"
        BY <2>2 DEF Signature17, GateBases
    <2>4. /\ GatesSettled(Coming(d, p, Says(p)), rejected')
          /\ One("core") \in Ahead(Coming(d, p, Says(p))) \/ Seventeen(d, p, Says(p))
        BY <1>0, <1>3, <1>6, <1>7, <2>1, <2>3, CoreIsMade
    <2> QED BY <1>7, <2>4
<1>10. Seventeen(d, p, a) \in BOOLEAN
    BY <1>0 DEF Seventeen, Signature17, TypeOK, Heard
<1>11. Seventeen(d, p, a) => controller.family = "navigator_17"
    BY <1>0, <1>1, <1>2, <1>3 DEF HonestInv, TypeOK
<1>12. Coming(d, p, a) \in Seq(Probes)
    BY <1>0, ComingTyped
<1> HIDE DEF p
<1>13. /\ todo'[d] = Coming(d, p, a) /\ got'[d] = NewGot(d, p, a)
       /\ is17'[d] = Seventeen(d, p, a)
       /\ result'[d] = IF Coming(d, p, a) # <<>> THEN Pending ELSE IF suspect' THEN Raised
                       ELSE Conclusion(NewGot(d, p, a), Seventeen(d, p, a))
    BY <1>0, <1>3 DEF TypeOK
<1>14. ASSUME NEW u \in Detector, u # d
       PROVE  /\ todo'[u] = todo[u] /\ got'[u] = got[u] /\ is17'[u] = is17[u]
              /\ result'[u] = result[u] /\ lossy'[u] = lossy[u]
    BY <1>0, <1>2, <1>3, <1>14 DEF TypeOK
<1>15. PlanInv'
    <2> SUFFICES ASSUME NEW u \in Detector, Running(u)'
                 PROVE  /\ CoreLast(todo'[u])
                        /\ ~lossy'[u] /\ controller'.family # "navigator_17" =>
                              /\ Due(todo[u], got[u])'
                              /\ ZonesInOrder(todo[u], got[u])'
                        /\ ~lossy'[u] /\ ~shared'[u] /\ controller'.family = "navigator_17" =>
                              /\ GatesSettled(todo'[u], rejected')
                              /\ One("core") \in Ahead(todo'[u]) \/ is17'[u]
        BY Zenon DEF PlanInv
    <2>0. \A q, g : /\ Due(q, g) <=> Due(q, g)'
                    /\ ZonesInOrder(q, g) <=> ZonesInOrder(q, g)'
        BY <1>2 DEF Due, ZonesInOrder, Known, Spared
    <2>1. CASE u = d
        BY <1>2, <1>6, <1>8, <1>9, <1>13, <2>0, <2>1
    <2>2. CASE u # d
        <3>1. Running(u)
            BY <1>14, <2>2 DEF Running
        <3>2. /\ CoreLast(todo'[u])
              /\ ~lossy'[u] /\ controller'.family # "navigator_17" =>
                    /\ Due(todo[u], got[u])
                    /\ ZonesInOrder(todo[u], got[u])
              /\ shared'[u]
            BY <1>0, <1>2, <1>14, <2>2, <3>1, OthersKeepPlan
        <3> QED BY <1>14, <2>0, <2>2, <3>2
    <2> QED BY <2>1, <2>2
<1>16. ShareInv'
    BY <1>0, <1>2, <1>14 DEF ShareInv, Running
<1>17. ASSUME NEW u \in Detector, Concluded(u)', ~lossy'[u]
       PROVE  Recognised(u)'
    <2>1. CASE u = d
        <3>1. result'[d] = Conclusion(NewGot(d, p, a), Seventeen(d, p, a)) /\ Coming(d, p, a) = <<>>
            BY <1>13, <1>17, <2>1 DEF Concluded
        <3>2. Ahead(<<>>) = {}
            BY DEF Ahead
        <3>3. controller.family # "navigator_17" => Due(<<>>, NewGot(d, p, a))
            BY <1>8, <1>17, <2>1, <3>1
        <3>4. controller.family = "navigator_17" /\ ~shared[d] => Seventeen(d, p, a)
            BY <1>9, <1>17, <2>1, <3>1, <3>2
        <3> QED BY <1>0, <1>2, <1>5, <1>10, <1>11, <2>1, <3>1, <3>3, <3>4, EndIsRecognised
    <2>2. CASE u # d
        <3>1. Concluded(u) /\ ~lossy[u]
            BY <1>14, <1>17, <2>2 DEF Concluded
        <3>2. Recognised(u)
            BY <3>1 DEF RecognisedInv
        <3> QED BY <1>2, <1>14, <2>2, <3>2 DEF Recognised, Installed
    <2> QED BY <2>1, <2>2
<1> QED BY <1>1, <1>15, <1>16, <1>17 DEF RecognisedInv

LEMMA DetectRecognised ==
  ASSUME \A c \in Controllers : TellsApart(c), RecognisedInv, HonestInv',
         NEW d \in Detector, NEW f \in ReadFirmware, Detect(d, f)
  PROVE  RecognisedInv'
<1>0. TypeOK /\ TypeOK' /\ PlanInv /\ ShareInv /\ f \in BOOLEAN
    BY DetectionAssumption DEF RecognisedInv, HonestInv
<1>1. /\ ~Running(d) /\ UNCHANGED controller
      /\ todo'[d] = FirstProbes(f) /\ got'[d] = Nothing /\ lossy'[d] = FALSE
      /\ result'[d] = Pending
      /\ shared'[d] = (\E v \in Detector \ {d} : Running(v))
    BY <1>0 DEF Detect, TypeOK, network
<1>2. ASSUME NEW u \in Detector, u # d
      PROVE  /\ todo'[u] = todo[u] /\ got'[u] = got[u] /\ lossy'[u] = lossy[u]
             /\ result'[u] = result[u]
             /\ shared'[u] = (shared[u] \/ Running(u))
    BY <1>0, <1>2 DEF Detect, TypeOK
<1>3. PlanInv'
    <2> SUFFICES ASSUME NEW u \in Detector, Running(u)'
                 PROVE  /\ CoreLast(todo'[u])
                        /\ ~lossy'[u] /\ controller'.family # "navigator_17" =>
                              /\ Due(todo[u], got[u])'
                              /\ ZonesInOrder(todo[u], got[u])'
                        /\ ~lossy'[u] /\ ~shared'[u] /\ controller'.family = "navigator_17" =>
                              /\ GatesSettled(todo'[u], rejected')
                              /\ One("core") \in Ahead(todo'[u]) \/ is17'[u]
        BY Zenon DEF PlanInv
    <2>0. \A q, g : /\ Due(q, g) <=> Due(q, g)'
                    /\ ZonesInOrder(q, g) <=> ZonesInOrder(q, g)'
        BY <1>1 DEF Due, ZonesInOrder, Known, Spared
    <2>1. CASE u = d
        <3>1. CoreLast(FirstProbes(f)) /\ One("core") \in Ahead(FirstProbes(f))
            BY <1>0, AheadOfFirst
        <3>2. Due(FirstProbes(f), Nothing) /\ ZonesInOrder(FirstProbes(f), Nothing)
            BY <1>0, FirstDue
        <3>3. \A b \in GateBases : \E x \in Ahead(FirstProbes(f)) : Base(x) = b
            <4>1. /\ Base(One("flow_gate")) = One("flow") /\ Base(One("mode_gate")) = One("mode")
                  /\ Base(One("zone")) = One("zone")
                BY SlotFields DEF Base, One
            <4>2. /\ One("flow_gate") \in Ahead(FirstProbes(f))
                  /\ One("mode_gate") \in Ahead(FirstProbes(f))
                  /\ One("zone") \in Ahead(FirstProbes(f))
                BY <1>0, AheadOfFirst
            <4> QED BY <4>1, <4>2 DEF GateBases
        <3> QED BY <1>1, <2>0, <2>1, <3>1, <3>2, <3>3 DEF GatesSettled
    <2>2. CASE u # d
        <3>1. Running(u) /\ shared'[u]
            BY <1>2, <2>2 DEF Running
        <3>2. /\ CoreLast(todo[u])
              /\ ~lossy[u] /\ controller.family # "navigator_17" =>
                    /\ Due(todo[u], got[u])
                    /\ ZonesInOrder(todo[u], got[u])
            BY <1>0, <3>1 DEF PlanInv
        <3> QED BY <1>1, <1>2, <2>0, <2>2, <3>1, <3>2
    <2> QED BY <2>1, <2>2
<1>4. ShareInv'
    <2> SUFFICES ASSUME NEW u \in Detector, NEW v \in Detector, u # v, Running(u)', Running(v)'
                 PROVE  shared'[u]
        BY Zenon DEF ShareInv
    <2>1. CASE u = d
        BY <1>1, <1>2, <2>1 DEF Running
    <2>2. CASE u # d
        BY <1>2, <2>2 DEF Running
    <2> QED BY <2>1, <2>2
<1>5. ASSUME NEW u \in Detector, Concluded(u)', ~lossy'[u]
      PROVE  Recognised(u)'
    <2>1. u # d
        BY <1>1, <1>5 DEF Concluded
    <2>2. Recognised(u)
        BY <1>2, <1>5, <2>1 DEF Concluded, RecognisedInv
    <2> QED BY <1>1, <1>2, <2>1, <2>2 DEF Recognised, Installed
<1> QED BY <1>3, <1>4, <1>5 DEF RecognisedInv

LEMMA RecognisedNext ==
  ASSUME \A c \in Controllers : TellsApart(c), RecognisedInv, [Next]_vars
  PROVE  RecognisedInv'
<1>0. HonestInv /\ HonestInv' /\ TypeOK
    BY HonestNext DEF RecognisedInv, HonestInv
<1>1. ASSUME NEW d \in Detector, Answered(d) \/ Fails(d) \/ Lost(d) \/ Refused(d)
      PROVE  RecognisedInv'
    BY <1>0, <1>1, ProbeEnds, EndedRecognised
<1>2. ASSUME NEW d \in Detector, NEW f \in ReadFirmware, Detect(d, f)
      PROVE  RecognisedInv'
    BY <1>0, <1>2, DetectRecognised
<1>3. ASSUME UNCHANGED <<todo, got, is17, lossy, shared, rejected, controller>>,
             \A d \in Detector : Concluded(d)' => Concluded(d) /\ result'[d] = result[d]
      PROVE  RecognisedInv'
    <2>1. PlanInv'
        BY <1>3 DEF RecognisedInv, PlanInv, Running, Due, ZonesInOrder, Known, Spared
    <2>2. ShareInv'
        BY <1>3 DEF RecognisedInv, ShareInv, Running
    <2>3. \A d \in Detector : Concluded(d)' /\ ~lossy'[d] => Recognised(d)'
        BY <1>3 DEF RecognisedInv, Recognised, Installed
    <2> QED BY <1>0, <2>1, <2>2, <2>3 DEF RecognisedInv
<1>4. ASSUME NEW d \in Detector, DetectRefused(d)
      PROVE  RecognisedInv'
    <2>1. UNCHANGED <<todo, got, is17, lossy, shared, rejected, controller>>
        BY <1>4 DEF DetectRefused, network
    <2>2. \A u \in Detector : Concluded(u)' => Concluded(u) /\ result'[u] = result[u]
        BY <1>0, <1>4 DEF DetectRefused, TypeOK, Concluded
    <2> QED BY <1>3, <2>1, <2>2
<1>5. ASSUME UNCHANGED <<run, controller>> PROVE RecognisedInv'
    BY <1>3, <1>5 DEF run, Concluded
<1>6. CASE NetworkFlips
    BY <1>5, <1>6 DEF NetworkFlips
<1>7. CASE UNCHANGED vars
    BY <1>5, <1>7 DEF vars, network
<1> QED BY <1>1, <1>2, <1>4, <1>6, <1>7 DEF Next

LEMMA RecognisedInit == Init => RecognisedInv
<1> SUFFICES ASSUME Init PROVE RecognisedInv
    OBVIOUS
<1>1. \A d \in Detector : ~Running(d) /\ ~Concluded(d)
    BY DEF Init, Running, Concluded
<1> QED BY <1>1, HonestInit DEF RecognisedInv, PlanInv, ShareInv

(* A detection whose probes were all answered names the controller's       *)
(* family and all that is installed, although the plan of probes depends   *)
(* on what they answer and other detections clear the same table of        *)
(* rejections; a 1.x controller is recognised unless one did (detect_model,*)
(* _matches_navigator_17_signature).                                       *)
THEOREM AnsweredIsNamed ==
  ASSUME \A c \in Controllers : TellsApart(c)
  PROVE  Spec => []AnsweredIsRecognised
<1>1. Init => RecognisedInv
    BY RecognisedInit
<1>2. RecognisedInv /\ [Next]_vars => RecognisedInv'
    BY RecognisedNext
<1>3. RecognisedInv => AnsweredIsRecognised
    BY DEF RecognisedInv, AnsweredIsRecognised, Recognised
<1> QED BY <1>1, <1>2, <1>3, PTL DEF Spec

(* Whatever is lost on the way, and however many detections clear and fill *)
(* the table of rejections they share, a detection takes no controller for *)
(* one of a richer family or for a 1.x one, and reports no circuit, module *)
(* or capability whose address did not answer; but a 1.x controller that   *)
(* lost an answer, or met another detection, may pass for any family       *)
(* (detect_model, probe_register).  The controllers have to be told apart  *)
(* by what the source says of them.                                        *)
THEOREM DetectionInventsNothing ==
  ASSUME \A c \in Controllers : TellsApart(c)
  PROVE  Spec => []NeverInvents
<1>1. Init => RecognisedInv
    BY RecognisedInit
<1>2. RecognisedInv /\ [Next]_vars => RecognisedInv'
    BY RecognisedNext
<1>3. RecognisedInv => NeverInvents
    <2> SUFFICES ASSUME RecognisedInv, NEW d \in Detector, Concluded(d)
                 PROVE  /\ result[d].model \in PassesFor(controller.family) \/ Unsettled(d)
                        /\ Honest(result[d])
        BY DEF NeverInvents, Honest
    <2>1. Honest(result[d])
        BY DEF RecognisedInv, HonestInv
    <2>2. CASE controller.family = "navigator_17" /\ ~Unsettled(d)
        <3>1. Recognised(d) /\ ~shared[d]
            BY <2>2 DEF RecognisedInv, Unsettled
        <3>2. result[d].model = "navigator_17"
            BY <2>2, <3>1 DEF Recognised
        <3> QED BY <2>1, <2>2, <3>2 DEF PassesFor
    <2> QED BY <2>1, <2>2 DEF Honest
<1> QED BY <1>1, <1>2, <1>3, PTL DEF Spec
=============================================================================
