# A TLA+ model of idm-heatpump-api

`idm-heatpump-api` is an asyncio library that reads and writes the registers of
IDM heat pumps over Modbus TCP and, optionally, reads the controllers' local web
interfaces. This directory holds TLA+ modules translated from its source, the
TLC configurations that check them on small instances, and proofs of the most
important properties for every value of the constants. `PROJECT.json` lists the
components, the runs, the theorems, the hazards, and for each definition the
source lines it stands for.

Contents: [1 Inventory](#1-inventory-of-the-system) ·
[2 Modules](#2-the-modules) · [3 Runs](#3-the-runs) ·
[4 Where the code disagrees with its documentation](#4-where-the-code-disagrees-with-its-documentation) ·
[5 Proofs](#5-the-proofs) · [6 Not modelled](#6-what-is-not-modelled) ·
[7 Plan](#7-plan)

To check a run: `tlc -config MCModbusConnection.cfg MCModbusConnection`; to check
the proofs: `tlapm ModbusConnection_proofs.tla`.

## 1 Inventory of the system

All paths are below `src/idm_heatpump/`. Everything runs in one asyncio event
loop: a task runs without interruption between two `await`s, so an interleaving
is a choice of which task continues after its await. There are no threads and
nothing is persisted.

### Modbus connection core (`client.py` 607-806, 882-896)

* **State**: the transport (one session), `_lock`, `_connection_suspect`.
* **Operations**: `connect`, `disconnect`, `force_reconnect`, `_ensure_connected`,
  `_retry_command` (used by every read, write and probe), `_try_reconnect`.
* **Interactions**: all other parts of the client send through `_retry_command`;
  it calls the transport, which raises connection, transport or device errors.
* **Hard**: the lock is taken twice for one request (`_ensure_connected`, then
  `_retry_command`), so other tasks run in between; the fast path of
  `_ensure_connected` reads the flag and `connected` without the lock;
  `connected` stays true after the peer vanished; tasks are cancelled while they
  wait for the lock or hold it; pymodbus reconnects by itself.
* **Correct when**: one command is on the wire at a time, the lock is never lost,
  a lost request is not forgotten, so that commands begun after it get a new
  session, and so does every retry, no more than `max_retries` attempts are made, every call ends.

### Write path and write safety (`client.py` 1511-1715)

* **State**: `_last_eeprom_writes`, `_cyclic_write_deadlines`.
* **Operations**: `write_register`, `set_value`, `simulate_write`,
  `_validate_write_allowed`, `_record_successful_write`, the two resets, the
  lists of active and expired cyclic writes.
* **Hard**: the validation happens before the awaits of the write, the recording
  after; the answer to a stored write can be lost, and the write is then repeated.
* **Correct when**: writes of an EEPROM register are an interval apart, only
  acknowledged writes count, an active cyclic value is one the controller holds.

### Batch reads and failure tracking (`client.py` 1717-2109)

* **State**: `_register_failures`, `_permanently_failed_registers`,
  `_unsupported_registers`, `_batch_unsafe_registers`, `_register_outcomes`,
  `_invalid_value_warned`.
* **Operations**: `read_batch`, `_group_registers`, `_read_group`,
  `_read_individual_fallback`, `reset_failed_registers`, `mark_batch_unsafe`.
* **Hard**: concurrent polls share all of it and interleave at each request; a
  poll works from lists made at its beginning; a group fails as a whole.
* **Correct when**: each register asked for is read once and accounted for,
  registers that are not at fault are never given up, missing ones are learned
  once, the quarantine holds.

### Model detection (`client.py` 954-1372)

* **State**: `_probe_illegal_rejections`, `_model_info`.
* **Operations**: `detect_model`, `probe_register`, the Navigator 1.7 signature.
* **Hard**: a probe returns `None` for a lost request as for a missing register;
  later probes depend on earlier answers; the table of rejections belongs to the
  client; a link that dies in the middle must not produce a wrong model.
* **Correct when**: a detection that was answered names the right family and
  parts, one that was not reports only what answered, and a dead link is reported.

### Grouping and codec (`client.py` 267-303, 1374-1491, 1601-1657, 1750-1860)

* **State**: none of its own; `max_group_size` is a parameter of the client.
* **Operations**: cutting a register list into groups by table, adjacency and
  `max_group_size`; slicing the answer; encoding, decoding and validation of values.
* **Hard**: registers of two sizes, registers that overlap, three tables, a limit
  counted in words; signs mapped by hand; every type's edges.
* **Correct when**: every register is read once, from its own words, in no more
  requests than the limit forces; what was accepted is what is read back, and no
  value the map allows fails in the encoder.

### pymodbus transport (`transport.py`)

* **State**: `_client`. **Operations**: `connect`, `close`, the reads and writes.
* **Hard**: a pymodbus client that lost its link runs a reconnect task that only
  `close()` ends; errors of pymodbus have to be translated, or they escape the
  retry loop. **Correct when** no session is ever left without an owner.

### Navigator 10 web client (`web.py` 2270-2947)

* **State**: `_ws`, `_session`, `_own_session`, `_closed`, `_lock`, cached data.
* **Operations**: `connect`, `close`, the reads and saves through
  `_send_json_and_receive_text` with its reconnections.
* **Hard**: `close()` takes no lock and runs between any two awaits; an answer has
  no number, so the answer to a cancelled request is taken for the next one; a
  save of unknown outcome must not be repeated. **Correct when** nothing is open
  after `close()`, an answer belongs to its request, a save is sent once.

### Navigator 2.0 web client (`web.py` 3016-3477)

* **State**: session, cookie, `_csrf_token`, `_data_paths`, `_probe_responses`.
* **Operations**: `login`, `read_data` with one re-login for a CSRF rejection and
  one for an expired session, `close`, `set_datetime`.
* **Hard**: only `login` takes the lock; a failed login closes the session that
  other reads are using. **Correct when** re-logins are bounded and a read never
  sends a token of a session that is gone.

### Register map and lookups (`registers.py`, `const.py` 229-318, `client.py` 602-605, 1671-1684)

* **State**: `_model_info`, `_cached_register_map`, `_unsupported_registers`.
* **Operations**: `build_register_map` for the complete map and that of a model,
  `get_register` with its fallback, `set_model_info`, the check before a write.
* **Hard**: one name has another address, table and type on another family; the
  check before a write uses a cached map and a default number of rooms; what was
  learned by name outlives the model; registers overlap where the official tables
  say so; a table of EEPROM addresses repeats what the register definitions say.
* **Correct when**: no write goes to a register the model does not have, none of
  the model's is refused, and overlaps and the EEPROM table are as documented.

### The rest

Backoff and rate limiter, the parsers of web responses, error codes, exceptions,
package surface, and the scripts. See [section 6](#6-what-is-not-modelled).

## 2 The modules

| module | component | what it is |
|---|---|---|
| `ModbusConnection` | connection core | the detailed specification |
| `SerialLink` | connection core | the abstract one: what callers are promised |
| `ModbusConnection_proofs` | connection core | theorems |
| `WriteSafety` | write path | specification over an abstract link |
| `WriteSafety_proofs` | write path | theorems |
| `RegisterReads` | batch reads | specification over an abstract link |
| `RegisterReads_proofs` | batch reads | theorems |
| `ModelDetection` | model detection | specification with its own small link |
| `ModelDetection_proofs` | model detection | theorems |
| `TransportLink` | connection core, transport | the contract between the two, stated from both sides |
| `PymodbusTransport` | transport | the adapter over pymodbus clients that dial by themselves |
| `PymodbusTransport_proofs` | transport | theorems |
| `RegisterMap` | register map | the tables, as operators; no state |
| `RegisterGroups` | grouping | one poll over a real map, without failures |
| `RegisterAccess` | register map, write path, codec | models, lookups, the checks before a write, the word sent |
| `Registers_proofs` | register map, codec, write path, grouping | theorems about `RegisterAccess`, `RegisterCodec` and `RegisterGroups` |
| `RegisterCodec` | codec, write path | values, limits, words, as operators; no state |
| `Nav10Web` | Navigator 10 client | websocket, lock, reconnect loop, `close()` |
| `Nav10Web_proofs` | Navigator 10 client | theorems |
| `Nav20Web` | Navigator 2.0 client | login, tokens, pages, `close()` |
| `Nav20Web_proofs` | Navigator 2.0 client | theorems |
| `MC...` | | instances for TLC: sets of tasks, registers, controllers |

How they fit together. `SerialLink` is what the connection core promises upwards;
`WriteSafety`, `RegisterReads` and `ModelDetection` are written over that promise.
`Nav10Web` implements `SerialLink` as well: a websocket under a lock
with bounded attempts is the same abstraction. `TransportLink` is what the core relies
on below: the core never calls the transport out of turn (`ContractSpec`), the adapter provides
the session it expects (`LinkSpec`). `RegisterMap` is extended by `RegisterGroups`
and by `RegisterCodec`, which `RegisterAccess` extends.

The definitions marked `mutant` in a module are plausible bugs, one for each
checked property: with it in place of the definition that follows it, TLC finds the property
violated. They are no part of the specification.

### ModbusConnection

`pc[t]` names the await at which task `t` is suspended. `holder` and `waiters` are
the asyncio lock with its first-come queue. `link` is the transport's session:
`open`, `stale` (the peer is gone, `connected` still true), `lost` (pymodbus knows
and reconnects by itself), `closed`. `suspect` is `_connection_suspect`, and
`attempt[t]` the loop variable of `_retry_command`. `tainted`, `result` and `born` are history
variables: a request was lost on this session and nothing answered since; how the
task's call ended; whether the network was healthy when it began. An action runs
from one await to the next: `Request` is the start of any read or write up to the
first await, `Granted` a waiter that gets the lock, `EnsureConnects`,
`ConnectSucceeds`, `Reconnect...` and `Wake` the returns of `transport.connect()` and of the sleep,
`Answered`, `IllegalAddress`, `DeviceError`, `TransportError` the ends of a
request, `CancelInside` and `CancelWaiting` a cancellation. `AttemptFails` is the
`except _TRANSPORT_ERRORS` branch. The network and pymodbus are the environment.

A `connect()` that is refused or cancelled leaves the link `closed` here, although pymodbus may
keep a client that dials by itself; that side is `PymodbusTransport`, and the core calls
`connect()` again before the next request whichever it is.

A cancelled request leaves its answer on the way; Modbus TCP numbers its requests
and pymodbus drops the answer to another, so such a session is not `tainted`.

`SerialLink` knows only which task is on the wire and how many attempts its call
has spent. `ModbusConnection` implements it under the mapping `Phase`, `Spent`
(checked as `SerialSpec`, and proved).

### WriteSafety

A call is queued, sent, stored by the controller, or in backoff; `Send` needs that no other
call is past the lock, which is what `ModbusConnection` guarantees. `WriteRegister` is the
validation with its early return, `Record` is `_record_successful_write`, and `Acknowledged`
is the answer followed by the recording in the same step, as in the code. `now`
is the monotonic clock, `deviceUntil` the controller's own timer of a cyclic value, `burns` all
the times the controller stored an EEPROM register; writes are numbered in the
order in which they passed the validation. `Tick` respects the timeout of a request.

### RegisterReads

A register is an address; all are one word, so a group is a maximal run of
addresses. `poll[p]` is the local state of one `read_batch()`: the groups not yet
read, the individual reads of the fallback under way, the quarantined registers
that come last, and the results. `GroupAnswers(p, bad)` lets the controller answer for any
registers of a group with values out of range, the firmware behaviour the
quarantine is for; `Faulty` registers fail or are out of range on their own;
`Unimplemented` ones are rejected, and so is any group with one. Outcomes and warnings are only
reported, so they are left out.

### ModelDetection

The probes of `detect_model()` in order, as a queue that each answer may extend:
the gate of a signal, then its batch or its slots; the zone modules until two in a
row are missing; 4001 only if 4108 has no plausible value, 4122 and 4126 only after
that; the core block only if 1350 was rejected. A register answers with a value, a
marker ("not installed") or Illegal Data Address. The link is `open`, `closed` or `dead` without our
knowledge; `Lost` and `Refused` are the two ways a probe goes unanswered, and they treat
`_connection_suspect` differently. `rejected` is shared by all detections of the
client. Histories: `lossy`, a probe of the run had no answer; `shared`, another
detection was under way; `silent`, nothing was heard since the last lost probe.
`MaxFaults` bounds changes of the network and failed requests together.
`NeverInvents` says what losses and sharing can do at worst: `PassesFor` has the families
that a controller may be taken for, which lack something of its own. A Navigator 1.x
whose detection lost an answer or met another (`Unsettled`) may be taken for any, because registers of
its own stand at addresses where the other families have circuits.

### PymodbusTransport and TransportLink

`client` is `_client`; `session[c]` is what a pymodbus client does, whether the
adapter still refers to it or not: `lost` means that its reconnect task dials.
`at` is the await of the single caller, which the lock of the connection core
guarantees. `Connect` is the code up to the await: close the old client, make a
new one, dial. `ConnectFails` is the `except` that drops the client,
`ConnectAborted` an error or a cancellation the `except` does not cover. `RequestReturns`
gives a request what pymodbus hands back, translated by
`_translate_pymodbus_error` and `check_transport_response`. `PeerVanishes`,
`NoticesLoss` and `Redials` are pymodbus and the network.

`TransportLink` has one step for the caller and one for the network. It is kept
loose on purpose: it says what may not happen (a request without a session that looks up, a
connect on top of a session, a close under a request, a session that comes back
without having been lost), and both `ModbusConnection` and `PymodbusTransport` are shown to obey it.

### RegisterMap, RegisterGroups

A register is `[table, at, type, access, limits]`; `access` joins
`writable`, `cyclic_required`, `eeprom_sensitive` and `write_only`. There is one operator for each
function of `registers.py` that builds a block, and the ranges of addresses
are written as the loops and literals of those functions produce them.
`RegisterGroups` plans one `read_batch()` over a map (`Planned`, in the initial
state, since nothing is awaited before it), then reads one group, or one
quarantined register, in a step. `first_of_group` is the loop of
`_group_registers` as a recursive function over addresses. `sliced` records the
words from which each register was decoded. `OfThePackage` says which maps `build_register_map()` can
return, for the theorems; the run has three of them.

### RegisterAccess and RegisterCodec

`info`, `cached` and `unsupported` are the three fields of the client; `last` is
the call that has just ended and what became of it: read, planned, written,
refused for the model, invalid, or unencodable. A register's name is a *key*: the
address it has on the shared families, or, for a Navigator 1.7 register whose
name no shared register has, its own address. An application may hold
registers of any map it may have built, and make registers of its own
(`Customs`), under a name of its own or under that which a map has for the address
(`Names`), with another type or other limits than the map's, and pass them to `write_register()`; the controller (`Device`)
rejects every address its own map does not have. `strayed` remembers that a
register was rejected while a model of another family was set, the case
`UnsupportedIsMissing` excepts.

`RegisterCodec` has what `simulate_write()` and `read_register()` do with a value:
validation, then an encoder that may raise; a read may find any word, since
controllers fill the high byte. Booleans, fractions and text stand for the
values Python would take for a number or refuse.

### Nav10Web

`pc[t]` names the await of a task as in `ModbusConnection`. `ws` is `_ws`,
`session` is `_session` with `_own_session`, `closed` is `_closed`; each websocket has
a state and the answers on their way, in order, since they have no number.
`CloseUnlocked`, `NextAttempt`, `RequestFails`, `SendOnce`, `Connect` and
`ConnectReturns` are the stretches of code between awaits, shared by the
actions as the code shares them; `then[t]` says what follows a
`_close_unlocked()` that suspends. `close()` takes no lock, so its actions run
at any await of the others. A read asks for up to `Sections` frames and pauses in
between; a save is one request. Histories: `sent`, the requests of the running call;
`skewed`, a request was given up and its websocket kept, by a cancellation, in the
last attempt, or after `close()`; `torn`, a `close()` was cancelled or met a new
`connect()`; `orphaned`, a session of the client's own that it no longer refers to.
`skewed` and `torn` make the exceptions of two properties explicit.

### Nav20Web

`job[t]` is the await and the locals of a task's coroutine, `web` the client's
fields (session, token, pages, login diagnostics). The actions hand both on
between helpers until `Commit`. The login tries each form path with each
field name, then probes each page; `goal` is the reason for which a read logs
in (first, rejected token, expired session), and decides what it does next.
`cookie` is whether the controller knows our session; `Expire` ends it or replaces the
token. `box` is the controller: whether it takes the configured PIN (`pin`), whether it
refuses a session with its login page or with a status 401 (`refusals`), which of the two start pages it
serves (`front`), and whether it may answer a login it does not understand with a text of any other
kind, as a 404 page is, which the code takes for an accepted login (`odd`). A call ends well, with the
error for a wrong PIN, a rejected token or a failure, or `broken`, with the `RuntimeError` of aiohttp
that a session being closed raises and no handler catches. Histories: `calm`,
nothing but one expiry disturbed the call, and that one not between an accepted login and the
first page it confirms (`Unconfirmed`), whichever task logs in; `spare`, that expiry has not happened
yet; `torn`, a `close()` ran into a login of another task.

## 3 The runs

| run | instance | states | shows |
|---|---|---|---|
| `connection` | 3 tasks, 3 attempts | 143 thousand | lock, queue, suspect flag, retries; every call ends; refinement of `SerialLink`; the contract of the transport kept |
| `pymodbus` | 3 pymodbus clients | 104 | no session without an owner; the contract of the transport provided |
| `writes` | 2 callers, 1 EEPROM and 1 cyclic register, 3 writes, 6 instants | 660 thousand | throttle and deadlines |
| `writes_second` | 2 callers, 1 register | counterexample | overlapping writes pass the throttle |
| `reads` | 2 polls, 3 registers, threshold 2 | 1.4 million | failure tracking and quarantine |
| `reads_intermittent` | 1 poller, threshold 3 | counterexample | errors far apart add up |
| `detection` | 2 detectors, 5 controllers, 2 circuits, 4 zone slots, 2 faults | 1.7 million | recognition; what lost answers and a shared table can do at worst |
| `detection_dead_link` | 1 detector | counterexample | a dead link goes unnoticed |
| `groups` | 3 complete maps, limits 2, 7, 40 | 3.7 thousand | groups, slices, limit, overlaps, EEPROM table |
| `access` | 3 models, all registers of all maps, custom ones of each type and ones that take a map's name | 327 thousand | writes fit the model, none refused, values read back |
| `nav10` | a reader and a task that saves and closes, 1 reconnect, 1 cancellation | 68 thousand | lock, answers, saves, nothing left open; every call ends; refinement of `SerialLink` |
| `nav20` | a reader and a task that does everything else, 2 form paths, 2 pages, 1 cancellation | 1.9 million | logins bounded, pages only with a session, reads succeed, a wrong PIN is named |

Why the bounds are enough. *Connection*: with three tasks one can hold the lock,
one wait, and one call, be cancelled or disconnect; three attempts make a first, a
middle and a last. The network may fail any number of times: nothing
counts failures. *Transport*: one client in use, one being made, one dropped; the
proofs cover any number. *Writes*: three writes let one follow two that overlapped; the
clock runs past one interval and one time to live; the cyclic margins are tight
(`Ttl + Timeout = DeviceTtl`), so an off-by-one shows. In the library the margin is wide: 300 s
against the 10 minutes the documentation gives for the controller.
*Reads*: one sound, one faulty, one missing register make every mixture a group
can have, and quarantining the middle one splits the group in two; two polls are
enough for one to change what the other relies on. There is no bound on the number of polls.
*Detection*: two circuit slots let the first be missing, four zone slots allow a gap and a
stop; the network goes down and comes back once, or two requests fail, which is enough to lose any
probe, or any stretch of them; runs follow one another without bound. The instance with
three circuits (2.7 million states) passes as well, and takes twice as long.
*Groups*: the maps are the real ones, with all circuits and eight rooms; the limits are that of
one FLOAT, one that cuts within runs of both sizes, and the default.
*Access*: any order of models and calls over every register of the maps; the numbers
are those a byte or a word, signed or not, can confuse, and the edges of the limits;
the proofs cover all others. *Navigator 10*: a caller next to one that also closes gives
every pair of a request, a connect and a `close()`; with one reconnect the first attempt
and the last are told apart; two sections make a pause; websocket names are used again
once nothing refers to them, so any number of dials may happen. Three tasks with two
reconnects (2.9 million states) pass the safety properties too. *Navigator 2.0*: two paths
and pages are the least that has a wrong one before the right one and one page that
answered before a failure; two tasks let one drop what the other uses. Two readers that
both read and one of which closes (3.5 million states) pass too. Outages and expiries are not
counted; cancellations are, by `MaxCancels`.

**Fairness.** `connection` and `nav10` assume weak fairness of each task's own progress
(`FairSpec`): the event loop runs every task that is ready, the lock is granted in order, and
each await ends, because requests, dials and receives have a timeout and sleeps are
finite. Nobody has to call the client, cancel a task, or repair the network or controller.
All other runs are about safety and assume none.

A property of a run may be the conjunction of named parts that answer one question together:
`GivenUpForCause` (no sound register is given up, only rejected ones are held unsupported),
`RequestsAreProper` (types, no undocumented word, the limit), `EveryRegisterDecoded` (from its own
words, none left out), `MapAsDocumented` (the overlaps, the EEPROM table), `Inv` of `Nav10Web` (types and
lock) and of `Nav20Web` (types and bounded logins). The type invariants of `ModbusConnection` and
`RegisterAccess` are proved and are not repeated in their runs.

Deadlock is checked everywhere but in `groups`, which models one poll that ends.

## 4 Where the code disagrees with its documentation

Three disagreements have a run with a counterexample.

1. **Two EEPROM writes within the interval** (`writes_second`). The throttle is consulted
   before the write awaits connection, lock and answer, and recorded after. Two
   writes that overlap both pass and both are stored. `client.py:573` promises to
   refuse a second write within the interval. What does hold, and is proved, is
   `SettledWritesAreSpaced`: a write called after another has returned.
2. **Intermittent errors disable a working register** (`reads_intermittent`). Only a valid
   *individual* read resets the failure counter; a register that is normally read in
   groups collects three errors over any length of time and is given up, while
   `docs/Data-Update.md:61` says that cannot happen.
3. **A dead link is not reported** (`detection_dead_link`). The first lost probe sets
   `_connection_suspect`; the next one clears it before it tries to connect, and the
   connection is refused; the final check at `client.py:1336` then finds nothing wrong. The
   check does work if the lost probe is the last one.

The others are exceptions that a checked property names; without the exception TLC finds
the behaviour described.

* *A detection can lose its own rejections* (`shared` in `AnsweredIsRecognised`). A second
  `detect_model()` clears the table in the middle of the first, which then takes a
  Navigator 1.7 for another family; the docstring at `client.py:1007` says that only the
  probes of this run decide.
* *A lost answer makes a Navigator 1.x a Navigator 10 with circuits it does not have*
  (`Unsettled` in `NeverInvents`). One lost probe of 1350 is enough: `probe_register()` returns `None` and
  records no rejection (`client.py:976-979`), the 1.x signature fails (`client.py:1299`), and the ranges that would
  "otherwise fake heating circuits" (`client.py:1303-1305`) are probed. `suspect` is cleared by the next
  answer, so nothing is raised at the end. A loss may also turn a Navigator 10 into a Pro or a 2.0: that,
  `NeverInvents` allows to every family (`PassesFor`), and of such losses only the
  dead link of number 3 is covered by a claim of the source.
* *A queued command uses the session that lost a request* (`"retry"` in `LossIsNotForgotten`). A command that has
  passed `_ensure_connected()` and waits for the lock in `_retry_command` (`client.py:715-721`) makes its first attempt
  on the session, although the request before it was lost meanwhile. The docstring at `client.py:632-639` and
  `docs/Data-Update.md:72-75` say that the next command gets a fresh connection instead of a dead session.
  The queued one loses that attempt, and its retry gets a fresh session (`RetryOnFreshSession`).
* *A rejected save can be reported as confirmed* (`skewed` in `AnswersBelong`). A request
  that gets no answer in the last reconnect attempt, or that is cancelled, leaves its
  websocket open; the late answer is taken for the next request's. `web.py:2857` explains
  why the socket must be discarded, and `CHANGELOG.md:357` says a rejected write can never
  be mistaken for a confirmed one.
* *A websocket is opened after `close()`* (`session # "external"` in `NothingLeftOpen`). With
  the caller's HTTP session, a `close()` during a dial finds nothing to close, and the dial
  that returns stores its websocket without a look at `_closed` (`web.py:2361`, against the comment at
  `web.py:2396`).
* *A right PIN is blamed on every poll* (`"denied" \notin box.refusals` in
  `HealthyReadsSucceed`). `read_data()` does not log in again for a 401 or 403 to an expired
  session (`web.py:3461`); `web.py:3183` promises otherwise.
* *A right PIN is blamed for an expiry during a login* (`Unconfirmed` in `Expire`, hence `calm` in
  `HealthyReadsSucceed`). If the session ends after the answer that accepts the login and before the first page is read, that page
  is refused, no page is found, and `login()` blames the PIN; `web.py:3183`
  logs in again when a session has expired "instead of reporting a rejected PIN", but not when it expires here.
* *A right PIN is blamed for an unknown answer* (`~box.odd` in `HealthyReadsSucceed`). Any text that is neither empty nor the form ends
  the search over the login's variants as accepted (`web.py:3389-3405`): a 404 page to an earlier variant keeps the right one from
  being tried.
* *A controller that answers is "not reachable"* (`box.front # {}` in `HealthyReadsSucceed` and `WrongPinIsNamed`). If both
  start pages come with a status of 401, 403 or another error, `web.py:3334-3344` reports the controller as not reachable.
* *A clock that was not set* (no property). `set_datetime()` looks at the status only (`web.py:3283-3291`): the login page that an
  expired session gets, with status 200, is taken for success.
* *Pages without a session* (`torn` in `PathsNeedASession`). `close()` in the middle of a login;
  the login then stores the pages it had found, and every later read fails for want
  of a session. `CHANGELOG.md:1316` says `close()` cannot leave them behind.
* *A rejected key outlives its model* (`strayed` in `UnsupportedIsMissing`).
  `_unsupported_registers` holds names, and a name has another address on another family;
  `client.py:1978` takes it for a property of the device.
* *A made register passes for the map's* (`last.entry \in Entries` in `WritesFitTheModel`). The check before a write compares name and
  address (`client.py:1680-1681`); a register that an application makes with both of a map's, and another type, limits or
  write class, is written as it says, without `allow_custom_register`.
* *89 EEPROM addresses* (no property). `docs/Known-Limitations.md:32` counts 89, `const.py:229` has 88.
* *Rooms 7 and 8 cannot be written* (`Rooms <= DefaultRooms` in `NoneOfTheModelRefused`). The
  check before a write builds six rooms for each zone, the map can be built with eight
  (`CHANGELOG.md:1421`).
* *A value out of range is masked* (`BITFLAG` in `AccessAssumption`). 256 is written to a BITFLAG
  register without limits as 0, while the other encoders raise; `client.py:1520` says that the
  type's validation applies to custom registers.
* *A request over the limit* (`groups` takes limits of two words and more). `max_group_size=1` is accepted, a FLOAT
  is read as two words; `docs/Data-Update.md:18` says a request reads up to that many.
* *A lookup hands out another family's register* (no property). The fallback on
  `CORE_REGISTERS` also serves a detected Navigator 1.7, against `CHANGELOG.md:464`; writes
  are checked against the model (`WritesFitTheModel`), reads are not.

## 5 The proofs

TLAPS proves the following for every set of tasks and registers and every value of
the other constants, from the assumptions named in the modules
(`ConnectionAssumption`: at least one attempt; `ReadsAssumption`: finitely many pollers, a threshold of at least one; `Nav10Assumption`,
`DetectionAssumption`: the types of the constants, at least one attempt, circuit and zone slot; `WriteAssumption`: the time to live and the timeout
fit in the controller's own time; `AccessAssumption`, `TransportAssumption`, `GroupsAssumption`: the types of the
constants, limits of at least one word). Three theorems about the register maps have a hypothesis of their own:
`NoneOfTheModelRefused` has `Rooms <= DefaultRooms`, which section 4 shows to be needed; those about the groups have
`MapsAreDistinct`, which follows from `MapsAreOfThePackage`; `RequestsFit` also has limits of 2 to 125 words.

**ModbusConnection_proofs.** `TypeCorrect`, `MutualExclusion`, `LossIsRemembered`,
`RetriesAreFresh`, `HealthyNetworkSuffices`, `ImplementsSerialLink` and `KeepsToTheContract`. The inductive
invariant `IInv` adds two things to the type and lock invariants. That no retry uses a tainted
session is not inductive, because the step that makes it true lies one await
earlier: `RetryInv` says that a task that reconnects or sleeps between two attempts has
one left and that nothing is tainted. That a call begun in a healthy network does not
fail needs to know that its link is open from the reconnection on (`HealthInv`).
`LossIsRemembered` is an action property: a tainted session has its flag set (`TaintedIsSuspect`), so a command that passes the check of the
connection, and one that begins an attempt after a reconnect or a back-off, has a session without a loss; the commands
that had passed it before, and wait for the lock, are excepted in its statement.
There is one lemma for each action, and they share lemmas for what happens when
a task gets the lock or leaves. The refinement proof maps each action to the step of `SerialLink` it
takes; mutual exclusion is what makes `Send` possible. That the core keeps to the contract of
`TransportLink` is the refinement below it: at most one task is in a call of the transport, so the
caller of the contract is that task, and each await of the core is one of its calls.

**WriteSafety_proofs.** `TypeCorrect`, `ThrottleHolds`, `ThrottleCountsAcknowledged`, `ActiveValuesAreHeld`.
`SettledWritesAreSpaced` speaks of the times in the controller, the code only of its own
dictionary. `NumberInv` keeps the numbers of running and returned writes apart,
`ThrottleInv` says that the dictionary is at least as late as any write that
returned and that a running write was accepted an interval after those before it,
and `DeadlineInv` compares the client's deadline with the controller's timer
through the time at which the request was sent.

**PymodbusTransport_proofs.** `TypeCorrect`, `NoOrphanSession`, `DialsAreAwaited` and
`AdapterImplementsLink`, for any number of pymodbus clients. The inductive invariant is the
conjunction of the three invariants: that a dial is always that of the current client is what lets
`ConnectFails` close the right one.

**Registers_proofs.** First the codec: `WrittenIsReadBack`, for every number and every type but bit
flags: what is encoded is a word, and decoding it gives the number. One lemma for each type says that
decoding inverts encoding on its range, and `RangesAreWhole` that ranges are whole numbers. Then
`TypeCorrect`, `WritesStayInTheModel`, `NoneOfTheModelRefused`,
`SentIsReadBack` and `RecordedIsMissing`, for any set of models, any registers held or made, and any
numbers. The inductive invariant adds to the types what each fate of `last` implies (`FateInv`: a
write that left was found available in the map of its model, what it sent decodes to its
number) and, for every recorded key, a witness among the registers of the same family that the controller
lacks (`KeysInv`). That `cached` is empty or the model's map, `NamesAgree` and `KeysNameOne` turn these into the
properties.

Those two are facts about the tables, and no assumptions: `NamesAndAddressesAgree` and `AKeyNamesOneRegister` prove
them for every detected model and every manual configuration, whatever the circuits, zone modules, rooms and
options. There are too many maps to enumerate, so the argument is about addresses. `Row` gives type, access and
limits as functions of table and address, and there is one lemma for each block of `RegisterMap` that says that its
registers are rows (`SystemRows` to `UnitRows`); a map of any configuration is a union of blocks (`PackageRows`).
So the address determines the register (`RowsAreOne`), and two maps that agree on it agree on everything. The
Navigator 1.7 has a table of rows of its own (`Row17`); where a name of its registers is shared, `Keys17AreOne`
and `SameRows` compare the two tables address by address. From the rows also follow `LimitsAreEncodable` (each
limit is within the range of its type), hence `LimitedWritesAreEncoded`, that no write within the limits fails in
the encoder; and `FewerRooms`, that a map with fewer rooms is a part of one with more, which extends
`NoneOfTheModelRefused` from the default number of rooms to any smaller one. TLC evaluates the facts on the maps of the run
as well (`MapsOfTheRun`).

Then, in the same module, `RegisterGroups` (its `PollInit`, `PollNext` and `PollSpec` have names of their own,
so that one module can extend both): `EachIsDecoded`, `RequestsFit` and
`NoGroupIsCutShort`. Their hypotheses: `MapsAreDistinct`, no two registers of a table of a map begin at
one address, which `BuiltMapsAreDistinct` proves of every map that `build_register_map()` can return and every part of one
(`MapsAreOfThePackage`); for `RequestsFit` also limits of 2 to 125
words, since the code accepts a limit of one word, which no FLOAT keeps, and limits that Modbus does not have. `_group_registers` is
a recursive function over the addresses of any map. That it has a value at all (`StartsExist`) and what the value is
(`SolutionIsChained`) are inductions, made by way of the least address where the claim would fail. From there a group is a run
(`Run`): registers of one table that neither overlap nor leave a gap, within the limit unless it is a
single one; every register is in a group (`GroupsCover`). A run has one owner for each word it asks
for, and the slice of each register is the words it owns (`EachWordHasOneOwner`, `SlicesAreWords`). The inductive invariant has
the groups still to read among those planned, what is read, grouped and single together what can be read (`GroupsInOrder`),
and the last request a proper one (`GroupAnswered`). `NoGroupIsCutShort` also needs the order of the requests
(`Ordered`): a register that overlaps the end of a group begins a group of its own, and its rank
puts that between the two. `RunsAreGrouped` ties this module to `RegisterReads`, where
every register is one word and the groups are the maximal runs of consecutive addresses: for such registers, as long
as the limit cuts no run, `_group_registers()` returns those groups. `BuiltMapsAreAsDocumented` is the property of the `groups` run about the tables, for
all those maps: a FLOAT reaches into the register behind it at the three documented places only (`FloatsOverlap`: elsewhere
no register has the address after that of a FLOAT), and the published EEPROM table agrees with the limited registers.

**RegisterReads_proofs.** `TypeCorrect`, `NoneGivenUpWithoutCause`, `PollsLearn`, `QuarantineHolds`,
`NoneDropped`, for any number of polls over any lists of registers. The inductive invariant says where the
registers of each poll are: `Partition`, those asked for are divided among the groups to read, the
individual reads to make, those read, and those omitted; `Apart`, groups do not meet. That a poll keeps to a
quarantine that others extend needs the quarantine it saw at its beginning (`known`). `CountInv`
bounds the counters: a register given up can only be counted again by the polls that still have it
to read, which is why the bound is the number of pollers and not the threshold. `GroupsPartition`, that the runs of adjacent
addresses of a finite set partition it, is the lemma everything rests on.

**Nav10Web_proofs.** `LockIsKept`, `AnswersAreOwn`, `SavesAreSentOnce`, `ClosedIsClosed` and `ImplementsSerialLink`, for any
tasks, calls, attempts, cancellations and websockets. The inductive invariant `IInv` adds to types and lock:
`Settled`, what the await of a task says about its attempt, its websocket and what follows; `AnswerInv`, the inbox of the
websocket in use holds at most the answer to the request that waits for it, and is empty when none waits;
`SessionInv`, a websocket that is open belongs to the session that `_session` names, and a
session that a `close()` found is closed by that task. An action of this module runs through several nested
functions before it reaches an await, so there is first one lemma for each of those (where
it lands: `...Lands`), then one for each action on top of them, and the same again for the refinement (`...Goes`).

**ModelDetection_proofs.** `TypeCorrect`, `DetectionInventsNothing` and `AnsweredIsNamed`, for any number of
detections, controllers, circuits and zone modules, and any failures of the network. The last two assume `TellsApart` of the
controllers: what the comments of `client.py:1007-1017` and `1298-1305` say that tells the families apart. It is
needed. A batch is rejected for any one of its registers, and until the probes of the single slots correct it, the table
holds that rejection for its base address. With another detection at work on the same table, a controller that is not
1.x, has holes in both circuit blocks and no zone module would look like one; the source's "every
shared-family controller implements the heating-circuit block" excludes it. TLC evaluates `TellsApart` for the
controllers of the run (`KnownAreTellable`), so states satisfy it.
`DetectionInventsNothing` has the exception of `NeverInvents` in its statement: for a Navigator 1.x that was not probed
undisturbed it says that all that is reported answered, and not which family is. That the undisturbed one is named right is
the invariant of the second theorem, which therefore carries the first as well.
`HonestInv` carries the rest of it: an answer that was kept is the controller's own, and a recorded rejection is that of a
register of the block. For the second, `PlanInv` is about the probes that are still to make: every register is
in what one of them will ask for (`Brings`), or its answer is in, or an answer that is in makes it irrelevant
(`Due`); zone modules are asked for in order, so that a search that stops early has seen what ends it
(`ZonesInOrder`); nothing but the firmware follows the core block (`CoreLast`), so that by then the three
addresses of the 1.x signature are settled (`GatesSettled`), unless another detection cleared them (`ShareInv`).

**Nav20Web_proofs.** `LoginsEnd`, `PathsAreReadable`, `WrongPinIsTold` and `HealthyReadsEndWell`, for any tasks
and calls, any pages, forms and fields, whichever variant the firmware accepts, and any controllers; the last two
with the exceptions that their properties name: a controller that refuses both start pages, and for the
right PIN one that answers an unknown login with an unknown text or a session with a status 401, and an expiry of a login just accepted. The
inductive invariant `IInv` has these parts: `Fit`, what the await of a task says of its locals, with the number of
logins it may still make; `LockInv`, the lock is held exactly in the requests of a login and in the `close()` that ends
one, and the queue has only tasks that wait for it, each once; `SessionInv`, a session that is being closed
has a task that closes it; `OpenInv`, a login runs on an open session, and so do confirmed pages, as
long as no `close()` met a login; `CalmInv`, what nothing has disturbed has a reachable controller and no `close()`
at work. The last two theorems add an invariant each. With a wrong PIN (`WrongPinInv`) there is
never a session, and a calm login that has had an answer remembers that the PIN is to blame, although the
memory is the client's and other calls reset it: the lock is why they cannot. With the right one (`HealthyInv`), while a
calm call runs every request still has its session, no login has passed the variant that the firmware accepts
(`ComesToIt`: skipping a form skips fields only of a form that is not the right one), and a read that has
logged in again, or whose one expiry is spent, holds a valid token. What other calls do to that
is in `Tends`: the token a page is being read with is only replaced by one that is valid as well.
As in `Nav10Web_proofs` there is one lemma for each operator that actions are built from, and one for each action on top.

**Only model-checked**: liveness (the prover does not do fairness) and the counterexamples. Every invariant
and every other action property of a run is stated by a theorem.

## 6 What is not modelled

* FLOAT values: packing them is `struct`'s; multipliers, which no writable register has;
  `_suspect_reason`, whose bounds judge physical values (`RegisterReads` has its
  outcome, a value out of range); excluded options inside a mode's limits; the limits of floats.
* `AdaptiveBackoff` and `PollRateLimiter`: one number each, for
  consumers; nothing in the package uses them.
* The parsers of web responses: stateless extraction from JSON and HTML. The
  models of the clients keep what an answer is taken for (data, login page, rejection,
  confirmed or refused save).
* Coils: they follow the paths of registers, with a check that the transport has them.
* A transport with `connects_lazily`, whose `connected` may be false before a request.
* `get_diagnostics()`: it changes no state.
* The steps of another task between the connection and the request of one probe of a
  detection. Log messages, `_last_error_context`, outcomes.
* `binary_metadata.py`, error codes, translations, exceptions, package surface: data without state.
* Scripts, packaging, tests.

## 7 Plan

Done, in this order: `ModbusConnection` with `SerialLink` and proofs, `WriteSafety` with
proofs, `RegisterReads`, `ModelDetection`; `Nav10Web`, `Nav20Web`, `TransportLink` and
`PymodbusTransport` with proofs, `RegisterMap` with `RegisterGroups`, `RegisterAccess` and `RegisterCodec`
with the proofs of the last two; the proofs of `RegisterReads`, `RegisterGroups`, `Nav10Web`, `ModelDetection`, `Nav20Web` and
`ContractSpec`; the proofs about the tables of `RegisterMap`. Next:

1. Liveness of `Nav20Web` over two pages, and `RegisterReads` composed with `SerialLink`, so that a request that another task
   delays or a reconnection is part of a poll.
2. The FLOAT codec as sign, exponent and mantissa over small widths.
