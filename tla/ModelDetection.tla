---------------------------- MODULE ModelDetection ----------------------------
(***************************************************************************)
(* detect_model() of IdmModbusClient: a fixed order of probes, some of     *)
(* them made only for what earlier ones said, each with one attempt, over  *)
(* a link that can die and come back; the table of rejected addresses that *)
(* all detections of one client share; and the last check, which raises    *)
(* when the link is suspect.                                               *)
(*                                                                         *)
(* A register answers with a value, with the marker of a function that is  *)
(* not installed, or with Illegal Data Address ("rejected"); which it is   *)
(* belongs to the controller.  A probe is one step: its connection and its *)
(* request.  The float and range checks of the answers are part of what    *)
(* makes one a value.                                                      *)
(***************************************************************************)
EXTENDS Naturals, Sequences, FiniteSets

CONSTANTS
    Detector,    \* tasks that call detect_model()
    Controllers, \* the controllers it may meet
    Circuits,    \* MAX_HEATING_CIRCUITS
    Zones,       \* MAX_ZONE_MODULES
    EmptyStop,   \* _DETECT_EMPTY_SLOT_STOP_THRESHOLD
    ReadFirmware,\* what read_firmware may be
    MaxFaults    \* bound: how often the network goes down or comes back, or a
                 \* request fails although it is up

Families == {"navigator_10", "navigator_20", "navigator_pro", "navigator_17"}
Answers == {"value", "marker", "rejected"}
Capabilities == {"solar", "isc", "pv", "cascade"}
Slot(kind, n) == [kind |-> kind, n |-> n]
Slots(kind, count) == {Slot(kind, n) : n \in 1 .. count}
One(kind) == Slot(kind, 1)

Registers ==
    Slots("flow", Circuits) \cup Slots("mode", Circuits) \cup Slots("zone", Zones)
    \cup {One(k) : k \in Capabilities \cup
             {"power_limit", "booster", "consumption", "flow_sensor", "core", "firmware"}}

(* The first slot of a signal is probed on its own, then all in one batch. *)
Probes == Registers \cup {One(k) : k \in {"flow_gate", "mode_gate", "flow_batch", "mode_batch"}}

ASSUME DetectionAssumption ==
    /\ {Circuits, Zones, EmptyStop} \subseteq Nat \ {0}
    /\ ReadFirmware \subseteq BOOLEAN
    /\ MaxFaults \in Nat
    /\ \A c \in Controllers :
          c.family \in Families /\ c.says \in [Registers -> Answers]

VARIABLES
    todo,       \* per detector, the probes still to make; <<>> when not running
    got,        \* per detector, the answers of this run; "none" for None
    is17,       \* per detector, is_navigator_17
    result,     \* per detector, how its last run ended
    lossy,      \* per detector, did a probe of this run go without its answer?
    shared,     \* per detector, was another one under way during this run?
    silent,     \* per detector, nothing heard since a probe had no answer
    rejected,   \* the registers _probe_illegal_rejections maps to True
    suspect,    \* _connection_suspect
    link,       \* the session: closed, open, or dead without our knowledge
    net,        \* is the network up?
    faults,     \* how often it has changed, or a request failed for another reason
    controller  \* the controller at the other end

run == <<todo, got, is17, result, lossy, shared, silent, rejected>>
network == <<net, faults, controller>>
vars == <<run, suspect, link, network>>

Nothing == [r \in Registers |-> "none"]
Pending == [model |-> "pending"]
Raised == [model |-> "raised"]
Infos == [model : Families \cup {"unknown"}, circuits : SUBSET (1 .. Circuits),
          zones : 0 .. Zones, features : SUBSET Capabilities]

TypeOK ==
    /\ todo \in [Detector -> Seq(Probes)]
    /\ got \in [Detector -> [Registers -> Answers \cup {"none"}]]
    /\ is17 \in [Detector -> BOOLEAN]
    /\ result \in [Detector -> Infos \cup {Pending, Raised}]
    /\ lossy \in [Detector -> BOOLEAN]
    /\ shared \in [Detector -> BOOLEAN]
    /\ silent \in [Detector -> BOOLEAN]
    /\ rejected \subseteq Registers
    /\ suspect \in BOOLEAN
    /\ link \in {"closed", "open", "dead"}
    /\ net \in {"up", "down"}
    /\ faults \in 0 .. MaxFaults
    /\ controller \in Controllers

Init ==
    /\ todo = [d \in Detector |-> <<>>]
    /\ got = [d \in Detector |-> Nothing]
    /\ is17 = [d \in Detector |-> FALSE]
    /\ result = [d \in Detector |-> Pending]
    /\ lossy = [d \in Detector |-> FALSE]
    /\ shared = [d \in Detector |-> FALSE]
    /\ silent = [d \in Detector |-> FALSE]
    /\ rejected = {}
    /\ suspect = FALSE
    /\ link = "closed"
    /\ net = "up"
    /\ faults = 0
    /\ controller \in Controllers

-----------------------------------------------------------------------------
(* The order of the probes.                                                *)

Heard(answer) == answer \in {"value", "marker"}
InOrder(kind, count) == [n \in 1 .. count |-> Slot(kind, n)]

FirstProbes(readFirmware) ==
    <<One("flow_gate"), One("mode_gate"), One("zone"), One("solar"), One("isc"),
      One("pv"), One("cascade"), One("power_limit"), One("core")>>
    \o IF readFirmware THEN <<One("firmware")>> ELSE <<>>

(* The zone slots up to n that had no answer, since the last that had one. *)
MissedInRow(n, g) == Cardinality({i \in 1 .. n :
    \A j \in i .. n : ~Heard(g[Slot("zone", j)])})

NoZoneBound(n, g) == MissedInRow(n, g) < EmptyStop    \* mutant: no last slot
FirstGapEnds(n, g) == n < Zones /\ MissedInRow(n, g) = 0    \* mutant: stops at one gap

MoreZones(n, g) == n < Zones /\ MissedInRow(n, g) < EmptyStop

(* The probes that the answer to p calls for, g being the answers with it. *)
Then(p, answer, g) ==
    CASE p.kind = "flow_gate" ->
             IF Heard(answer) THEN <<One("flow_batch")>> ELSE InOrder("flow", Circuits)
      [] p.kind = "mode_gate" ->
             IF Heard(answer) THEN <<One("mode_batch")>> ELSE InOrder("mode", Circuits)
      [] p.kind = "flow_batch" /\ ~Heard(answer) -> InOrder("flow", Circuits)
      [] p.kind = "mode_batch" /\ ~Heard(answer) -> InOrder("mode", Circuits)
      [] p.kind = "zone" /\ MoreZones(p.n, g) -> <<Slot("zone", p.n + 1)>>
      [] p.kind = "power_limit" /\ answer # "value" -> <<One("booster")>>
      [] p.kind = "booster" /\ answer # "value" -> <<One("consumption")>>
      [] p.kind = "consumption" /\ Heard(answer) -> <<One("flow_sensor")>>
      [] OTHER -> <<>>

(* The address a probe is recorded under, and those its answer covers.     *)
Base(p) == CASE p.kind \in {"flow_gate", "flow_batch"} -> One("flow")
             [] p.kind \in {"mode_gate", "mode_batch"} -> One("mode")
             [] OTHER -> p
Covered(p) == CASE p.kind = "flow_batch" -> Slots("flow", Circuits)
                [] p.kind = "mode_batch" -> Slots("mode", Circuits)
                [] p.kind \in {"flow_gate", "mode_gate"} -> {}
                [] OTHER -> {p}

(* What the controller says: it rejects a batch with a missing register.   *)
Says(p) ==
    IF \E r \in Covered(p) \cup {Base(p)} : controller.says[r] = "rejected"
    THEN "rejected" ELSE controller.says[Base(p)]

-----------------------------------------------------------------------------
(* The conclusions.                                                        *)

(* _matches_navigator_17_signature()                                       *)
Signature17(g, rej) ==
    Heard(g[One("core")]) /\ {One("flow"), One("mode"), One("zone")} \subseteq rej

ActiveCircuits(g) ==
    {n \in 1 .. Circuits : "value" \in {g[Slot("flow", n)], g[Slot("mode", n)]}}
ZoneModules(g) ==
    LET present == {n \in 1 .. Zones : Heard(g[Slot("zone", n)])}
    IN  IF present = {} THEN 0 ELSE CHOOSE n \in present : \A m \in present : m <= n
Features(g) == {c \in Capabilities :
    IF c = "cascade" THEN g[One(c)] = "value" ELSE Heard(g[One(c)])}

HasNavigator10Indicators(g) ==
    \/ "value" \in {g[One("power_limit")], g[One("booster")]}
    \/ Heard(g[One("consumption")]) /\ Heard(g[One("flow_sensor")])

Conclusion(g, seventeen) ==
    IF seventeen
    THEN [model |-> "navigator_17", circuits |-> {}, zones |-> 0,
          features |-> Features(g) \cap {"pv"}]
    ELSE [model |-> IF HasNavigator10Indicators(g) THEN "navigator_10"
                    ELSE IF ZoneModules(g) > 0 THEN "navigator_pro"
                    ELSE IF ActiveCircuits(g) # {} THEN "navigator_20" ELSE "unknown",
          circuits |-> ActiveCircuits(g), zones |-> ZoneModules(g),
          features |-> Features(g)]

-----------------------------------------------------------------------------
Running(d) == todo[d] # <<>>

(* _ensure_connected() succeeds: on the session at hand, which may be dead *)
(* without our knowledge, or on a new one.                                 *)
Trusted == link # "closed" /\ ~suspect
CanConnect == Trusted \/ net = "up"

Detect(d, readFirmware) ==
    /\ ~Running(d)
    /\ CanConnect
    /\ link' = IF Trusted THEN link ELSE "open"
    /\ suspect' = FALSE
    /\ rejected' = {}
    /\ todo' = [todo EXCEPT ![d] = FirstProbes(readFirmware)]
    /\ got' = [got EXCEPT ![d] = Nothing]
    /\ is17' = [is17 EXCEPT ![d] = FALSE]
    /\ result' = [result EXCEPT ![d] = Pending]
    /\ lossy' = [lossy EXCEPT ![d] = FALSE]
    /\ shared' = [u \in Detector |-> IF u = d THEN \E v \in Detector \ {d} : Running(v)
                                     ELSE shared[u] \/ Running(u)]
    /\ silent' = [silent EXCEPT ![d] = FALSE]
    /\ UNCHANGED network

(* The first _ensure_connected() raises, before anything of a run begins.  *)
DetectRefused(d) ==
    /\ ~Running(d)
    /\ ~CanConnect
    /\ link' = "closed"
    /\ suspect' = FALSE
    /\ result' = [result EXCEPT ![d] = Raised]
    /\ UNCHANGED <<todo, got, is17, lossy, shared, silent, rejected, network>>

AnyErrorIsRejection(p, answer) ==    \* mutant: a lost request counts as a rejection
    IF Heard(answer) THEN rejected \ {Base(p)} ELSE rejected \cup {Base(p)}

(* probe_register() keeps for an address whether it was rejected the last  *)
(* time; a request that is lost rejects nothing.                           *)
Recorded(p, answer) ==
    IF answer = "rejected" THEN rejected \cup {Base(p)} ELSE rejected \ {Base(p)}

(* What follows the end of a probe: the next probes, with core left out    *)
(* unless 1350 was rejected, or the end of detect_model().                 *)
Advance(d, p, answer) ==
    LET g == IF Heard(answer)
             THEN [r \in Registers |-> IF r \in Covered(p) THEN controller.says[r] ELSE got[d][r]]
             ELSE [r \in Registers |-> IF r \in Covered(p) THEN "none" ELSE got[d][r]]
        rest == Then(p, answer, g) \o Tail(todo[d])
        skip == rest # <<>> /\ Head(rest).kind = "core" /\ One("flow") \notin rejected'
        next == IF skip THEN Tail(rest) ELSE rest
        seventeen == IF p.kind = "core" THEN Signature17(g, rejected') ELSE is17[d]
    IN  /\ rejected' = Recorded(p, answer)
        /\ got' = [got EXCEPT ![d] = g]
        /\ is17' = [is17 EXCEPT ![d] = seventeen]
        /\ todo' = [todo EXCEPT ![d] = next]
        /\ result' = [result EXCEPT ![d] =
              IF next # <<>> THEN Pending ELSE IF suspect' THEN Raised ELSE Conclusion(g, seventeen)]

(* The request is answered, with register words or Illegal Data Address.   *)
Answered(d) ==
    /\ Running(d)
    /\ net = "up"
    /\ Trusted => link = "open"
    /\ link' = "open"
    /\ suspect' = FALSE
    /\ Advance(d, Head(todo[d]), Says(Head(todo[d])))
    /\ silent' = [silent EXCEPT ![d] = FALSE]
    /\ UNCHANGED <<lossy, shared, network>>

(* Another device error, or an answer too short: the probe returns None.   *)
Fails(d) ==
    /\ Running(d)
    /\ faults < MaxFaults
    /\ faults' = faults + 1
    /\ net = "up"
    /\ Trusted => link = "open"
    /\ link' = "open"
    /\ suspect' = FALSE
    /\ Advance(d, Head(todo[d]), "none")
    /\ lossy' = [lossy EXCEPT ![d] = TRUE]
    /\ silent' = [silent EXCEPT ![d] = FALSE]
    /\ UNCHANGED <<shared, net, controller>>

(* The request is sent, and no answer comes: the session is dead.          *)
Lost(d) ==
    /\ Running(d)
    /\ Trusted
    /\ link = "dead"
    /\ suspect' = TRUE
    /\ Advance(d, Head(todo[d]), "none")
    /\ lossy' = [lossy EXCEPT ![d] = TRUE]
    /\ silent' = [silent EXCEPT ![d] = TRUE]
    /\ UNCHANGED <<shared, link, network>>

(* _ensure_connected() raises, with the flag already cleared.              *)
Refused(d) ==
    /\ Running(d)
    /\ ~Trusted
    /\ net = "down"
    /\ link' = "closed"
    /\ suspect' = FALSE
    /\ Advance(d, Head(todo[d]), "none")
    /\ lossy' = [lossy EXCEPT ![d] = TRUE]
    /\ silent' = [silent EXCEPT ![d] = TRUE]
    /\ UNCHANGED <<shared, network>>

NetworkFlips ==
    /\ faults < MaxFaults
    /\ faults' = faults + 1
    /\ net' = IF net = "up" THEN "down" ELSE "up"
    /\ link' = IF link = "open" THEN "dead" ELSE link
    /\ UNCHANGED <<run, suspect, controller>>

Next ==
    \/ \E d \in Detector :
          \/ \E readFirmware \in ReadFirmware : Detect(d, readFirmware)
          \/ DetectRefused(d)
          \/ Answered(d) \/ Fails(d) \/ Lost(d) \/ Refused(d)
    \/ NetworkFlips

Spec == Init /\ [][Next]_vars

-----------------------------------------------------------------------------
Concluded(d) == result[d] \notin {Pending, Raised}

Installed == ActiveCircuits(controller.says)

(* What the source says of the families: 1.x answers the core block and    *)
(* rejects the others' circuits and zones; each other family implements    *)
(* one of those blocks, shows the registers it is named for, and leaves no *)
(* gap between its zone modules that ends the search.                      *)
TellsApart(c) ==
    IF c.family = "navigator_17"
    THEN Signature17(c.says, {r \in Registers : c.says[r] = "rejected"})
    ELSE /\ \/ \A n \in 1 .. Circuits : c.says[Slot("flow", n)] # "rejected"
            \/ \A n \in 1 .. Circuits : c.says[Slot("mode", n)] # "rejected"
            \/ c.says[One("zone")] # "rejected"
         /\ Conclusion(c.says, FALSE).model = c.family
         /\ \A n \in 1 .. ZoneModules(c.says) - 1 : MissedInRow(n, c.says) < EmptyStop

(* A detection that had an answer to every probe names the controller's    *)
(* family, its circuits and its modules, and reports nothing that only     *)
(* comes from addresses two families share (detect_model), also while      *)
(* another detection of the client clears and fills the same table of      *)
(* rejections; only a 1.x controller may then go unrecognised.             *)
AnsweredIsRecognised ==
    \A d \in Detector : Concluded(d) /\ ~lossy[d] =>
        /\ ~(shared[d] /\ controller.family = "navigator_17") =>
              /\ result[d].model = controller.family
              /\ result[d].circuits = IF controller.family = "navigator_17" THEN {} ELSE Installed
        /\ controller.family # "navigator_17" =>
              /\ result[d].zones = ZoneModules(controller.says)
              /\ result[d].features = Features(controller.says)

(* Missing answers take signals away: what a controller may pass for then. *)
PassesFor(family) ==
    CASE family = "navigator_10" -> {"navigator_10", "navigator_pro", "navigator_20", "unknown"}
      [] family = "navigator_pro" -> {"navigator_pro", "navigator_20", "unknown"}
      [] family = "navigator_20" -> {"navigator_20", "unknown"}
      [] family = "navigator_17" -> {"navigator_17"}

(* A 1.x controller may go without its signature if an answer is missing,  *)
(* or if another detection clears the table meanwhile.                     *)
Unsettled(d) == controller.family = "navigator_17" /\ (lossy[d] \/ shared[d])

(* Lost answers, and a table of rejections that another detection shares,  *)
(* only take away: whatever fails, no family is taken for Navigator 1.7,   *)
(* none for a richer one (but a loss may turn Navigator 10 into Pro or 2.0,*)
(* and Pro into 2.0), and no circuit, module or capability is reported     *)
(* whose address did not answer (probe_register, _matches_navigator_17_    *)
(* signature).  The one exception is a 1.x controller without its          *)
(* signature: it may pass for any family, and the circuits and modules     *)
(* reported are registers of its own at the addresses of the others.       *)
NeverInvents ==
    \A d \in Detector : Concluded(d) =>
        /\ result[d].model \in PassesFor(controller.family) \/ Unsettled(d)
        /\ result[d].circuits \subseteq Installed
        /\ result[d].zones <= ZoneModules(controller.says)
        /\ result[d].features \subseteq Features(controller.says)

(* "a link that died half-way through would otherwise yield a confident    *)
(* and wrong result": a detection whose last probes went unanswered raises.*)
DeadLinkIsReported == \A d \in Detector : Concluded(d) => ~silent[d]
=============================================================================
