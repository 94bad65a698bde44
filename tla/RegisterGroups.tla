---------------------------- MODULE RegisterGroups ----------------------------
(***************************************************************************)
(* How read_batch() cuts the registers of a map into requests: registers   *)
(* that touch without overlapping share a request of at most               *)
(* max_group_size words, quarantined ones have a request each, and every   *)
(* register is decoded from its slice of the answer.                       *)
(*                                                                         *)
(* Here every request is answered in full; RegisterReads has the failures, *)
(* ModbusConnection the sending of one request.                            *)
(* The definitions of a specification begin with Poll here, so that        *)
(* Registers_proofs can extend this module next to RegisterAccess.         *)
(***************************************************************************)
EXTENDS RegisterMap, FiniteSetsExt

CONSTANTS
    Maps,       \* the maps that are polled
    Limits,     \* the values of max_group_size
    GivenUp,    \* sets that _permanently_failed_registers may be
    Suspect     \* sets that _batch_unsafe_registers may be

ASSUME GroupsAssumption ==
    /\ Maps \subseteq SUBSET Register
    /\ Limits \subseteq Nat \ {0}
    /\ GivenUp \cup Suspect \subseteq SUBSET Nat

VARIABLES
    polled,     \* register_list
    failed,     \* _permanently_failed_registers, as addresses
    unsafe,     \* _batch_unsafe_registers, as addresses
    limit,      \* _max_group_size
    groups,     \* the groups not read yet
    single,     \* individual_regs not read yet
    request,    \* the last request: table, first address and words
    sliced,     \* the words its registers were decoded from
    read        \* the registers read so far

poll == <<polled, failed, unsafe, limit>>
pollVars == <<poll, groups, single, request, sliced, read>>

(* Modbus answers a request with at most 125 words.                        *)
Request == [table : Tables, start : Nat, count : 1 .. 125]
NoRequest == [table |-> "input", start |-> 0, count |-> 0]

PollTypeOK ==
    /\ polled \in Maps
    /\ failed \in GivenUp
    /\ unsafe \in Suspect
    /\ limit \in Limits
    /\ \A G \in groups : G # {} /\ G \subseteq polled
    /\ single \subseteq polled
    /\ request \in Request \cup {NoRequest}
    /\ DOMAIN sliced \subseteq read
    /\ read \subseteq polled

-----------------------------------------------------------------------------
Adjacent(at, expected_next) == at = expected_next

LastNotCounted(start, at, n, most) == at - start <= most    \* mutant: the last register's size is left out

LimitExcluded(start, at, n, most) == at + n - start < most  \* mutant: < for <=

HasRoom(start, at, n, most) == at + n - start <= most

(* _group_registers(): where the group of each address starts.             *)
first_of_group(S, most) ==
    LET ats == {r.at : r \in S}
        doubles == {r.at : r \in {q \in S : size(q) = 2}}
        width(a) == IF a \in doubles THEN 2 ELSE 1
        before(a) == IF a - 1 \in ats THEN a - 1 ELSE a - 2
        first[a \in ats] ==
            IF before(a) \in ats /\ Adjacent(a, before(a) + width(before(a)))
            THEN LET start == first[before(a)] IN
                     IF HasRoom(start, a, width(a), most) THEN start ELSE a
            ELSE a
    IN  first

InTable(S, table) == {r \in S : r.table = table}

group_registers(S, most) ==
    UNION {LET T == InTable(S, table)
               first == first_of_group(T, most)
               starts == {r.at : r \in {q \in T : first[q.at] = q.at}}
           IN  {{r \in T : r.at \in a .. a + most /\ first[r.at] = a} : a \in starts}
           : table \in Tables}

(* Groups are sorted by the name of their table, then by address.          *)
Rank(r) == (CASE r.table = "coil" -> 0 [] r.table = "holding" -> 1 [] r.table = "input" -> 2)
               * 65536 + r.at
First(G) == CHOOSE r \in G : Rank(r) = Min({Rank(q) : q \in G})
Last(G) == CHOOSE r \in G : Rank(r) = Max({Rank(q) : q \in G})
NextGroup ==
    LET lowest == Min({Rank(r) : r \in UNION groups})
    IN  CHOOSE G \in groups : \E r \in G : Rank(r) = lowest

-----------------------------------------------------------------------------
valid_regs(S, given) == {r \in S : r.at \notin given /\ r.access # "writeonly"}

(* read_batch(): what is to be read, before the first request.             *)
Planned ==
    /\ groups = group_registers({r \in valid_regs(polled, failed) : r.at \notin unsafe}, limit)
    /\ single = {r \in valid_regs(polled, failed) : r.at \in unsafe}

PollInit ==
    /\ polled \in Maps
    /\ failed \in GivenUp
    /\ unsafe \in Suspect
    /\ limit \in Limits
    /\ Planned
    /\ request = NoRequest
    /\ sliced = <<>>
    /\ read = {}

(* The answer to a request is the words of its table from start on;        *)
(* registers[offset : offset + size] of it.                                *)
SliceOf(answer, offset, n) == {answer.start + i : i \in offset .. offset + n - 1}
                                  \cap (answer.start .. answer.start + answer.count - 1)

SlicesByIndex(G, answer) ==    \* mutant: the offset is the register's place in the group
    [r \in G |-> SliceOf(answer, Cardinality({q \in G : q.at < r.at}), size(r))]

Slices(G, answer) == [r \in G |-> SliceOf(answer, r.at - answer.start, size(r))]

Ask(G) ==
    request' = [table |-> First(G).table, start |-> First(G).at,
                count |-> Last(G).at + size(Last(G)) - First(G).at]

Take(G) ==
    /\ sliced' = Slices(G, request')
    /\ read' = read \cup G

(* _read_group()                                                           *)
ReadGroup ==
    /\ groups # {}
    /\ Ask(NextGroup)
    /\ Take(NextGroup)
    /\ groups' = groups \ {NextGroup}
    /\ UNCHANGED <<poll, single>>

(* _read_individual_fallback() of the quarantined registers, here by       *)
(* address; the code keeps the order of the list.                          *)
ReadSingle ==
    /\ groups = {}
    /\ single # {}
    /\ Ask({First(single)})
    /\ Take({First(single)})
    /\ single' = single \ {First(single)}
    /\ UNCHANGED <<poll, groups>>

PollNext == ReadGroup \/ ReadSingle

PollSpec == PollInit /\ [][PollNext]_pollVars

-----------------------------------------------------------------------------
(* A register is decoded from its own words, and from all of them,         *)
(* wherever it lies in the answer of its group.                            *)
DecodedFromItsWords == \A r \in DOMAIN sliced : sliced[r] = Words(r)

(* When the poll ends every register that can be read was read, those of   *)
(* the overlaps, the cut groups and the quarantine included.               *)
NothingLeftOut ==
    groups = {} /\ single = {} => read = valid_regs(polled, failed)

(* A poll of a whole map, whatever it overlaps, quarantines or gives up,   *)
(* reads every register once and each from its words (_group_registers,    *)
(* _read_group).                                                           *)
EveryRegisterDecoded == DecodedFromItsWords /\ NothingLeftOut

(* No request asks for a word that no register of the poll owns, or that   *)
(* two of its registers share: docs/Data-Update.md:15.                     *)
NoStrayWords ==
    \A w \in request.start .. request.start + request.count - 1 :
        Cardinality({r \in DOMAIN sliced : w \in Words(r)}) = 1

(* A request has at most max_group_size words, docs/Data-Update.md:18      *)
(* (_group_registers); a limit of one word is not, by any FLOAT.           *)
WithinLimit == request.count <= limit

(* Every request is one the documentation allows (_group_registers).       *)
RequestsAreProper == PollTypeOK /\ NoStrayWords /\ WithinLimit

(* A request that goes on where the one before it ended was cut by the     *)
(* limit and by nothing else: the words of both do not fit into one.       *)
GroupsAreFull ==
    [][ReadGroup /\ request'.table = request.table /\ request.count > 0
         /\ request'.start = request.start + request.count
       => request.count + size(First(NextGroup)) > limit]_pollVars

(* Registers overlap at the three places the official tables document, and *)
(* never share a first address: docs/Register-Map-Invariants.md.           *)
DocumentedOverlaps == {1392, 1441, 1483}
OverlapsAreDocumented ==
    \A table \in Tables :
        LET T == InTable(polled, table) IN
            /\ Cardinality({r.at : r \in T}) = Cardinality(T)
            /\ {r.at : r \in {q \in T : size(q) = 2 /\ \E o \in T : o.at = q.at + 1}}
                   \subseteq DocumentedOverlaps

(* The table of EEPROM addresses the package publishes says what the write *)
(* throttle goes by: a writable register of the shared families is in it   *)
(* exactly when its writes are limited.                                    *)
EepromTableAgrees ==
    \A r \in InTable(polled, "input") :
        Writable(r) => (r.access = "eeprom" <=> r.at \in EEPROM_SENSITIVE_ADDRESSES)

(* The map, over four hundred definitions long, agrees with the tables     *)
(* that document it (registers.py, const.py).                              *)
MapAsDocumented == OverlapsAreDocumented /\ EepromTableAgrees
=============================================================================
