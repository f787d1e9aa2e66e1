# Verification of the ShrapnelDSP firmware

ShrapnelDSP is a guitar effects processor: an ESP32 firmware (`src/firmware`), the
effects it runs (`src/effects`), a Flutter frontend (`src/frontend`) that controls
it over a websocket, and JUCE plugins that host the same effects on a desktop. This
directory holds TLA+ models of the parts of it whose difficulty is order,
concurrency, failure and loss of power, the configurations that model-check them
with TLC, and theorems about them that TLAPS checks.

## The system

### Tasks and how they interact

| task | what it runs | talks to |
|---|---|---|
| main | `app_main`'s loop, every 10 ms: MIDI bytes, one message of `in_queue`, clipping events, saving of parameters, MIDI notification, I2S events, WiFi events, console | all others |
| httpd | one thing at a time: a websocket frame of a client, or a queued `websocket_send` call | `in_queue`, `out_queue`, `work_semaphore` |
| timer daemon | expiry of software timers, `ParameterObserver::timer_callback` | flags of the main task |
| event task | WiFi and provisioning events | WiFi event queue (3 places, no wait) |
| audio | I2S buffers through the effects | atomic parameter values, clipping flags |
| frontend | Dart isolate: services with copies of the firmware's state | websocket |

Everything that changes parameters, mappings and presets runs in the main task. The
hard behaviour is at the hand-overs between tasks, in the sequences of flash writes
that a loss of power may cut anywhere, and in the waits: every wait of the code has
a timeout except the console's, and what a function does after the timeout decides
what later calls find.

### Inventory

| component | state | operations | interacts with | what makes it correct |
|---|---|---|---|---|
| `shrapnel::Queue` (`os/queue.h`) | container, two counting semaphores, mutex | `send`, `receive` with a timeout | all tasks | FIFO, nothing lost or doubled, no slot leaks, calls with a timeout return |
| `Server` (`components/server`) | `in_queue`, `out_queue`, `work_semaphore`, server handle, sockets | `start`, `stop`, `send_message`, `websocket_get_handler`, `websocket_send` | main and httpd tasks, clients | order of delivery, one call at a time, the loop never stops, events leave |
| `EspCrud` (`components/esp_persistence`) | an NVS namespace with records and the last number | `create`, `read`, `update`, `destroy`, `for_each` | mappings, presets | numbers never reused, an acknowledged change survives |
| `MappingManager` (`components/midi_mapping`) | copy of the mappings in RAM | `create`, `update`, `destroy`, load at boot | `EspCrud`, clients | copy and flash agree, never more records than fit at boot |
| `AudioParameters`, `ParameterObserver` | values, changes to save, timer, flag | `update`, `notification`, `loop`, `timer_callback`, load at boot | timer daemon, NVS, presets, MIDI | every change reaches flash, values stay in range |
| presets, selected preset | records, one selected number | CRUD messages, `load_preset` | `EspCrud`, parameters | the selection names a preset that exists, clients agree |
| MIDI decoder and handling | status, data bytes, running status | `decode`, `process_message` | mappings, parameters, presets | each message decoded once, none made up |
| WiFi state machine | state, queue of events | transition table, provisioning | event task, server | in step with the driver, always a way back to provisioning |
| console | line buffer | MIDI and WiFi commands | `in_queue`, WiFi | does not stop the loop |
| audio task, noise gate | sample buffer, clipping flags, throttle timer; state, gain and hold of the gate | read, process, write a block; report clipped samples | parameters, main loop, clients | the gate follows the signal, no clip goes unreported |
| frontend services | copies of parameters, mappings, presets | throttled updates, create with a timeout, learning of a mapping, reconnection | websocket | copies converge to the firmware's |
| messages and encoding (`*_api.cpp`, nanopb, `frontend/lib/api`) | none | `to_proto`, `from_proto`, their Dart counterparts | clients, flash | content survives, sizes fit |
| filters, drivers, profiling, plugins | samples, registers, none, host | | | not modelled |

`PROJECT.json` lists every component with its status, and every hazard at the line
where it bites with the properties that cover it.

## The models

| module | models | state and steps |
|---|---|---|
| `BoundedFifo` | what the queue promises: a FIFO buffer whose calls overlap | `items`, and for each task the status of its call; a call is made, takes effect or is refused, and returns |
| `BoundedQueue` | `Queue::send` and `Queue::receive` | `used`, `free`, `mutex`, the container and a program counter for each task; one action for each operation on a semaphore, the mutex or the container |
| `BoundedQueueProofs` | theorems about both | |
| `ServerLink` | `Server`, the main loop and the httpd task | the two queues, `work_semaphore`, queued calls, the handle, WiFi, clients; `mpc` and `hpc` say where the two tasks are |
| `ServerLinkProofs` | theorems about it | |
| `EspCrud` | the record store, one NVS call at a time | `store`, what a loss of power may leave (`maybe`), the operation under way (`call`) |
| `MappingManager` | extends `EspCrud` by the copy in RAM and the handlers of the main task | `mappings`; `told` and `orphans` record what clients know and which creates were cut short |
| `ParameterStore` | parameters, observer, timer daemon, main loop, flash, boot | `live`, `pending`, `flash`, `timer`, `starts`, `throttled`, and `mpc` with `todo` for the loops inside a step; `lost` records which parameters a failure or a full map touched |
| `ParameterStoreProofs` | theorems about it | |
| `WifiStateMachine` | the state chart, the event handlers that feed it, and the driver and the provisioning manager it calls | `state`, `queue`, `late` (the time to connect is over), `sta` (driver), `prov` and `note` (manager); `dropped`, `refused` and `unheard` record what the chart could not know |
| `WifiStateMachineProofs` | theorems about it | |
| `MappingManagerProofs` | theorems about `MappingManager` and `EspCrud` | |
| `PresetControl` | handlers of presets, the selection and parameters in the main task, and the copies that clients keep | `live`, `store`, `selected` in the firmware; an ordered connection to each client (`up`, `down`); `pending` (throttle), `knobs`, `copies`, `shown`, `creating` in the clients. One action for each user's act, each message that is handled on either side, each failure, disconnection and restart |
| `PresetControlProofs` | theorems about it | |
| `MidiInput` | decoder, mappings at work, display of the latest message | `decoder`; the parameters and what the observer heard; the notification timer; `rest`, `whole`, `running` say what is on the wire; `due` and `intact` record what the stream meant |
| `MidiInputProofs` | theorems about it | |
| `AudioTask` | the audio task's loop, the noise gate, clipping flags and their throttled reports | `task`, `rx_buf`, `gate`, `times`, `flags`, the main loop's `mpc`, the timer and its daemon's commands; `owed` records what is clipped and unreported |
| `ApiMessages` | the firmware's conversions between its messages, proto structs and stored blobs | pure operators, one for each `to_proto` and `from_proto`, with widths, missing submessages and lengths of strings |
| `FrontendMessages` | the same for the Dart client; extends `ApiMessages` | pure operators |
| `ApiExchange` | a message on its way: user, client, firmware, flash, clients and back | `msg`, `origin`, `at`, `rounds`; an action for each conversion |
| `DataProofs` | theorems about `ApiExchange`, and about `AudioTask` | |

`ServerLink` uses the queues at the grain of `BoundedFifo`, which `BoundedQueue`
implements. `MappingManager` composes with `EspCrud` by `EXTENDS`: each of its steps
says what it does to the store's variables. `PresetControl` takes over what other
modules show: that the link delivers in order (`ServerLink`), that numbers are fresh
(`MappingManager` over `EspCrud`) and that content survives encoding
(`ApiExchange`).

Conventions. A definition has the name of the code's function or step where there is
one. Modules also hold *variants*: definitions with a plausible mistake, which
are part of no specification and show that a property notices the mistake. History
variables are marked as such and no guard reads them, except the bounds named below.

Choices that a reader should know:

- The main task both sends to and receives from `in_queue`, so in `BoundedQueue` a
  task may be producer and consumer at once, one call at a time. `Patient` are the
  tasks whose sends have no timeout (`main.cpp:395`): the main task may wait for
  ever for the room that it alone could make, and `TimedCallsReturn` promises a
  return only to the calls that have a timeout.
- How long a wait lasts is abstracted everywhere. In `ServerLink` a wait times out
  only while what it waits for is absent, and in calm environments only when no
  `websocket_send` call is under way. `queue.h:52` gives a number of ticks to a
  duration in seconds; no property depends on that.
- `Server::stop` leaves the handle dangling. Calls with it are undefined behaviour;
  the model lets them return with or without an error, and no `websocket_send` runs
  for them.
- Losses of power are in `EspCrud`, `MappingManager`, `ParameterStore` and
  `PresetControl`, and not in `ServerLink`, all of whose state a restart
  initialises.
- NVS is external: what was written is certain to survive from the next commit on,
  and earlier writes survive when a later one does. A write of a blob or a number
  may fail because the partition is full, at any time; other failures count against
  `MaxFaults`.
- `MappingManager!Restart` considers only boots that find room for the records they
  read; that they always do while the flash works is `RestartHasRoom`.
- `ParameterStore` lets a preset's parameters and the changes to save come in any
  order, because no property depends on it. Ranges are normalised to `Valid` and
  `Invalid` values, and creation of parameters at boot is one step.
- `WifiStateMachine` writes the transition table as a set of rows. Driver and
  manager are external: their states are those that the firmware's calls and events
  tell apart. A transition with its action, `on_exit` and `on_entry` is one step.
  The event task may append to the queue in the middle of it, but the transition
  does not read the queue. `connect_to_ap` only logs a refused `esp_wifi_connect`,
  so a refusal may happen at any time. A call that the manager refuses aborts the
  firmware (`ESP_ERROR_CHECK`); `ManagerInStep` excludes it.
- `PresetControl`: a connection loses nothing while it lasts and all of what is
  under way when it ends. Clients start in step with the firmware. Users, MIDI,
  disconnections and restarts are *acts* that `MaxActs` bounds; what a message sets
  off is not counted. Parameters after a restart are arbitrary among `Starts`,
  because what they are is `ParameterStore`'s business. Flash operations fail one by
  one, up to `MaxFaults`: writes with or without their effect, the read of a preset
  to load, of the selection, and of any records that `for_each` lists. `doubt` and
  `unheard` record, for each client, the situations that the properties exempt:
  `unheard` holds the records, and `NoId` for the selection, of which a failure of
  the flash kept the news from that client, until the next message about them.
- `MidiInput` counts parameters in 127ths of their range. A message that the receive
  buffer of the UART loses is lost byte by byte. What a console command sends
  reaches the handler without the decoder, and the command checks no values: any
  byte may be a channel, a control or a value.
- `AudioTask` keeps of the envelope and the thresholds only their order, and of the
  other effects only that they may give any sample. Gain is a number of units of
  1/`Full`, and rounding is left out.
- `ApiMessages` writes a number as whole thousandths and the type (`float`,
  `double`) that it is the nearest number of; `FallsShort` says for which of them
  the firmware's multiplication by 1000 and truncation lose one. Strings are
  represented by their length in bytes. Fields of the proto structs have the widths
  of the `.proto` options.

## The runs

| run | instance | distinct states | shows |
|---|---|---|---|
| `queue` | 3 producers and 2 consumers, the main task among both and without a timeout when it sends, 2 messages, capacity 2 | 77,976 | slots and messages are accounted for at every instant; every call with a timeout returns; the queue implements `BoundedFifo` |
| `link` | 1 client, queues of 2, up to 2 replies, 4 messages; calm and rough environments | 85,791 | one call at a time, order of delivery, what is kept while WiFi stays up, that late messages never catch up, and that the loop can stop only in the console |
| `link_late` | same, WiFi connects late | | violation of `EventsAreSent` |
| `mapping` | 2 contents, numbers up to 3, 2 mappings, 1 fault | 2.2 million | numbers are fresh, acknowledged changes survive, copy and store agree, boots have room |
| `mapping_collision` | same, no fault | | violation of `CreatedIsShown` |
| `params` | 2 parameters, 2 values in range and 1 outside, room for 2 changes and 2 timer commands, 1 fault | 308,469 | every change reaches flash or is known to be lost; none waits for ever; the loop stops saving |
| `params_range` | same, no fault | | violation of `LiveInRange` |
| `wifi` | a queue of 3, as in `main.cpp` | 7,084 | the manager is called legally and its end is never waited for in vain, unless an event was dropped; the chart believes in a connection only while there is one or the news is on its way; transit states end |
| `api` | 2 parameters over all thousandths and three, 3 names of lengths 12, 31 and 32, 3 round trips | 525,722 | what users and controllers enter arrives; presets lose at most one thousandth however often they are saved; only names too long are refused; a preset always fits its buffer |
| `control` | 2 clients, 2 parameters, 2 values, 2 numbers, 3 acts, 1 fault | 2.3 million | when nothing is under way all clients show the presets, the selection and the parameters that the firmware has, save what a failure of the flash or a crossing has kept from them |
| `midi` | 4 messages with every choice of running status, 2 kinds of unknown message, 1 byte lost or inserted | 450,548 | the decoder answers each byte rightly and finds back; what is saved is what is played; the latest message is shown |
| `audio` | buffers of 2 samples at the limits, attack times 1 and 2, room for 1 timer command | 110,675 | the gate follows the signal and rests in the hysteresis; every clip is reported |

Why the bounds are enough. Two tasks on each side and two slots are the smallest
queue in which a task finds it full, empty, and between the two while another task
is in the middle of a call; the third producer is there because the main task, as
long as it receives, does not send. One client suffices for `link`: clients differ
only in which messages they are not sent, and the ordering property is a statement
about each client; two clients with 3 messages were checked as well and take
minutes. Four messages fill `out_queue`, leave one in delivery and one in the
sender's hand. Three numbers let one be created, removed and followed by two more
with room for two mappings; symmetry permutes the contents of mappings, which no
step compares. Two parameters with a map for two are the firmware's situation, 20
parameters and room for 20, in small: a preset fills the map. `wifi` has no bound
but the code's own.

`control`: three acts are the least that cross: two users who change the same thing
and a deletion or a MIDI message in the middle of it; a disconnection or a restart
counts for two, so one act meets one outage, and a failure of the flash before or
after; every interleaving of the messages that follow is explored. The firmware
starts with all parameters low and a preset with all of them high, or with none:
what matters of the two is that they differ. `midi`: four messages after one upset
are what it takes to see the decoder out of step, back in step, and one more
decoded; one mapping set has a button, a toggle and a parameter on the same control,
the other a toggle before a parameter. `audio`: with two samples a buffer begins,
ends and has a change of times between; one command fills the daemon's queue, so
`timer.start` fails as well. `api`: lengths on both sides of the field's 32 bytes,
every thousandth for a parameter that takes it, and as many rounds as show that
nothing is lost in the second and third. It checks no deadlock because a message's
journey ends, as do the acts of `control`.

Fairness. Both tasks run when they can (weak fairness of their steps), because
FreeRTOS schedules each and every wait but one has a timeout; the one without, the
console's send, owes nothing while there is no room. Strong fairness is assumed
where several tasks want one mutex, which FreeRTOS passes on (`LockSend`,
`LockReceive`), and where a loop in the code drains an input: MIDI bytes, WiFi events
and console lines arrive more slowly than they are consumed (`PhaseDone`,
`HandleDone`), and httpd's select loop serves its control socket although clients
keep it busy (`RunWork`, `HttpdExit`). The timer daemon is fair because time passes. In
`WifiStateMachine` the driver ends what it starts: it associates or fails, and
reports both. In `MidiInput` the loop and the auto-reloading timer run for ever
(`Notify`, `NotifyTimer`); in `AudioTask` the audio task has a core of its own and
waits with timeouts, and the timer daemon runs (`AudioStep`, `LoopStep`,
`TimerStarts`, `TimerExpires`). `PresetControl` and `ApiExchange` state safety only,
of states where nothing is under way. Nothing obliges a client, the player, an
access point or the power to act, and the safety properties use no fairness. `link`
and its variants do not check deadlock, because the system really can stop: the
console's wait has no timeout, and `MaxMsgs` ends the sending.

## What the checks found

1. **An event before WiFi is up silences the session** (`link_late`). `send_message`
   takes `work_semaphore` and does not give it back when `httpd_queue_work` fails;
   no later event leaves.
2. **A create cut short is shown in place of the next one** (`mapping_collision`):
   after a loss of power between record and number, the next create gets the same
   number, and `insert` keeps the old mapping in RAM.
3. **A refused value comes back at boot** (`params_range`): `update` notifies the
   observer of a value out of range, which is saved and loaded unchecked.

Behaviour that contradicts no document but that a reader should know, because a
property has to exempt it or the model shows it:

- The console can stop the main loop for ever: it waits without timeout for room on
  the queue that only its own task empties (`MainStallsOnlyInConsole`).
- The time to connect is only looked at when an attempt fails: a driver that has
  refused `esp_wifi_connect`, or waits for an address, sends no `DISCONNECT`, and
  the chart stays in `CONNECTING` (`TransitEnds`).
- The decoder takes a status byte inside a message for data. It is back in step
  after at most three messages of two data bytes with their own status
  (`DecodesInStep`), sooner as a rule. A status byte taken for the value of a
  control change is refused by the parameter but saved all the same
  (`SavedIsPlayed`; the same gap as finding 3). So is a value beyond 127 that the
  console's `midi_send` sends, which is why `SavedAsPlayed` excludes it.
- Two clients that turn one knob at once may each end where the other began, and the
  frontend's throttle drops a change of one parameter for that of another
  (`KnobsAgree` exempts both through `doubt`).
- A preset that is deleted stays selected, and a failed load leaves a selection
  stored that clients are not told. A client that connects is answered nothing if
  the selection cannot be read, and not told of records that cannot (`for_each`
  skips them): it shows what it showed before. An optimistic change in the frontend
  stays when the firmware's write fails. `SelectionAgrees` and `PresetsAgree` exempt
  the client and the record in question until the next message about it.
- What the exemptions cover, no property catches: the hazards of `PROJECT.json`
  without properties say in a note which exemption it is.
- Samples have 24 bits, so none equals `INT32_MAX` and clipping of the input at its
  upper limit goes unnoticed; `float_to_int32` does not saturate, and a read that
  times out sends the last output through the effects again (`AudioTask!Input`,
  `float_to_int32`, `Read`).
- When WiFi goes down between `PROVISIONING_SUCCESS` and `PROVISIONING_END`, the
  chart enters `CONNECTED` without a connection (`ConnectedIsTrue` exempts it).
- Between the thresholds the gate alternates between `ATTACK` and `RELEASE`; its
  gain rests all the same (`HysteresisHolds`).

`params` also shows what `NothingForgotten` has to exempt: with a preset loaded the
observer's map is full and later changes of the next 10 s are dropped.

## The proofs

`BoundedQueueProofs`, for any finite sets of tasks, any messages and capacity:
`TypeCorrect`, `NothingGetsLost`, `ContainerSafe` and `Refinement` (the queue
implements `BoundedFifo`). The semaphores are accounted for by counting tasks: a
free slot is counted by `free`, claimed by a send, or being given back by a receive,
and likewise for messages. These sums are not inductive alone, since they say
nothing about who may touch the container; `IInv` adds the types, that a task inside
the critical section holds the mutex (`MutexHeld`) and that what a receive has read
is still at the front (`FrontRead`). The counting lemmas say how the number of tasks
at a location changes when one task moves. The refinement maps a send to take effect
at its push and a receive at its pop; refusals use the accounting to bound the calls
in progress. Assumptions: `QueueAssumption`.

`ServerLinkProofs`, for any clients, queue length and number of messages:
`TypeCorrect`, `CallsAreOneAtATime`, `CallsFindMessages`, `DeliveryInOrder`,
`CalmIsKept` and `LagStays`. The inductive invariant `IInv` joins the types with
what the tasks have in hand, the bound on the turns of `work_semaphore`, the order
of `out_queue` relative to the message in delivery, the message about to be sent and
the last message of each client, and, for calm environments, that the server runs
and no turn is missing. Order needs the bound on message numbers in each of these
places, since a message may lie on `out_queue` over a restart of the server.
Assumptions: `LinkAssumption`.

`ParameterStoreProofs`, for any parameters, values, room in the map and number of
failures: `TypeCorrect` and `ChangesAreKept`. `NothingForgotten` alone is not
inductive: when the map is cleared after a save it needs that every pending change
has been written. `SavedSoFar` says which ones are in flash while the loop of the
save is under way. The room in the map is a bound on the cardinality of the changed
parameters, which a change raises by at most one. Assumptions: `StoreAssumption`.

`MappingManagerProofs`, for any contents, numbers, room and number of faults:
`TypeCorrect`, `NumbersAreFresh`, `AcksAreDurable`, `CopyIsStore` and `RestartFits`.
The difficulty is `maybe`, the set of stores that a loss of power may leave: none of
the properties speaks enough of its members to be inductive. `IInv` joins the types
with five parts. `CallOK` relates the operation under way to what it has written so
far. `Numbers` says that the last number of *every* member of `maybe` bounds every
number a client was given, and that the number of a create under way was given to
none. `Durable` adds to `DurableAcks` that what an operation is about to write is
among what its client waits for. `Copies` says which records copy and store share
while an operation is half done, and that what either has beyond a last number
belongs to creates that were cut short. `Room` counts, for each member of `maybe`,
its records and those of the copy *together*, and says that the store is ahead of
the copy by the number that create gives next at most (`Surplus`): the records alone
could be too many after a create that the copy does not know of. The first lemmas
(`...Facts`) say what each NVS call and each handler does to the variables that
these parts read, so that the preservation proofs do not expand the actions.
Assumptions: `CrudAssumption`, `MaxMappingsAssumption`.

`WifiStateMachineProofs`, for any length of the queue: `TypeCorrect`,
`ChartAndManager`, `ConnectionIsReal`. `ManagerInStep` and `ConnectedIsTrue` hold of
the chart's state, but what makes them hold lies in the queue: an event on it will
move the chart when the driver has long gone on. `InStep` says in which order the
outcomes of a run of the manager and its end may lie on the queue and where the
manager must be for them to be there. `InTruth` says that the connection that the
chart believes in, or will when it reaches an event, is there, or that news of its
loss lies behind that event. Assumptions: `QueueLenAssumption`.

`DataProofs` holds the proofs about the two components whose properties are about
values. It extends `ApiExchange`, whose specification is `ExchangeSpec`, and
`AudioTask`, whose specification is `Spec`; they share no name.

`ApiExchange`, for any names, parameters, numbers of records, MIDI data and number of
round trips: `ContentIsKept`, `LongNamesOnly` and `PresetsAreStored`.
`ContentSurvives` is not inductive: it lets a parameter be a thousandth off, and
nothing in it keeps the next conversion from taking another. The invariant `Kept`
allows less: a parameter is what it was, or one less *and was one of those that fall
short*. `FewFallShort` computes these from the code's arithmetic, with a table of
powers of two, since the provers only know those of literals: of 0 to 1000 there are
at most 251, 253, 502, 506 and 511. No two of them are neighbours, so what has lost a
thousandth loses no more, and `Kept` composes (`KeptTwice`). `Asked` and `Told` are
the messages that clients may send and the firmware may send; `AskedArrives` and
`ToldHeard` say that the other side understands each of them and that its content is
kept, `AgainAsks`, `RepliesTold` and `ReloadedTold` that what follows a message is
again one of these. `OnTheWay` says of a frame what its receiver will decode.
`PresetsAreStored` bounds a sum over all parameters, which the model computes with a
fold of the library: `FoldMonotone` proves, by induction on the size of a set, that a
fold of smaller numbers is not greater, so the longest values decide. Assumptions:
`ExchangeAssumption`, among them that the tags and longest values of the parameters
fit the buffer beside the longest name, which the 20 parameters of `presets.proto`
do with no byte to spare.

`AudioTask`, for any buffer size, range of samples, times and unit of gain:
`AudioTypeCorrect` (`TypeOK` is nearly inductive as it stands: the bound on
`hold_count` is stated for *some* hold time because times change while the gate is
open) and `GainRests`. Assumptions: `AudioAssumption`, among them that the attack and
release times divide `Full`, a property of the unit and not of the code.

`MidiInputProofs`, for any messages, mappings and presets, and wherever bytes get
lost or inserted: `DecoderInBounds`, `TypeCorrect`, `DecoderInStep` and
`SavedAsPlayed`. `DecoderOK` is inductive because a status on which one data byte is
awaited never has one stored. `DecodesInStep` needs an invariant that says, at every
byte of a message, how far the decoder has found back: after one complete message it
is between messages or waits for one byte (`AfterOne`), after two it is between
messages where the stream is (`AfterTwo`), after three it knows the status as well
and answers rightly (`AfterEnough`). The proof shows why three are needed: after the
first message the decoder may wait for one more byte, which the status byte of the
second one fills, so that only the third one's status is sure to be taken for a
status. Parameters depend on the loop over the mappings, which is a recursive
function: the lemma `Induction` (derived from the library's theorem on least
elements, which takes no operator as a parameter) gives induction over its rounds,
and `AppliedSound` says that after any number of mappings of one control the
parameters are in range and, for a value that MIDI allows, what was saved is what is
played. `SavedAsPlayed` has the hypothesis that the console's messages are MIDI's,
since one with a value beyond 127 violates it (see above). Assumptions:
`MidiAssumption`.

`PresetControlProofs`, for any clients, names and values, any finite set of
parameters, and any numbers of presets, acts and faults: `TypeCorrect`,
`PresetsConverge`, `SelectionConverges` and `KnobsConverge`. The properties speak of
states where nothing is under way, so their invariants must say what the messages
under way will do. `Settles` says it of one kind of message: the last of that kind
on the way to a client carries what the firmware has, or there is none and the
client shows it already. `PresetsSettle` and `SelectionSettles` state this of each
record and of the selection, unless a request that will be answered (to read, to
save) is on its way to the firmware, or the client is exempt through `unheard`.
`KnobsSettle` has two cases for each
parameter that is not in doubt: the client leads, so that the last change on its way
up, its throttle included, is what its knob shows and nothing of that parameter
comes down; or it follows, so that nothing goes up and what comes down settles it.
`News` and `Answers` say once for every handler of the main task what the messages
it sends tell of what it changes; that a client hears them, and that its own acts
preserve the invariants, is proved from those two alone. Assumptions:
`ControlAssumption`, `StoredAssumption`.

TLC checks the invariants first, on the instances above, the strengthened ones
included; the theorems state them for every value of the constants.

Only model-checked: the liveness properties (`TimedCallsReturn`, `CalmDelivers`,
`MainStallsOnlyInConsole`, `StopCompletes`, `PendingIsWritten`, `FlashRests`,
`TransitEnds`, `LatestIsShown`, `GateFollows`, `ClipIsReported`), since fairness is
out of the prover's reach. Every invariant and every action property that a passing
run checks is a theorem.

## Plan

Done: the queue and its abstract specification; the server link; record store with
mappings; parameters and their persistence; the WiFi state machine; presets with
selection and clients; MIDI input; the audio task with the noise gate; messages and
their encoding; proofs as above. What is left, in order of importance:

1. The frontend's copies of the mappings (late and missing responses to a create)
   and MIDI learn, composed with `MappingManager`'s handlers. One run.
2. The wait of the queue in units of time (`queue.h:52` gives a number of ticks to a
   duration in seconds) and the time to connect (`wifi_state_machine.cpp:270`),
   which need a clock in the models.
3. The console's line buffer and commands.
4. `BlockProcessor` and `DelayLine` indices; an abstract durable map that
   `MappingManager` implements.

## Not modelled

Filters, chorus, wah, valvestate and convolution: arithmetic on floating point
signals with no control flow that a model checker would help with. Register access
of drivers and profiling: no protocol of their own. Widgets: layout. The plugins
host the effects for JUCE and keep no state that the firmware shares. Parsing of
console commands, the frontend's copies of mappings and MIDI learn are in the plan.
The bytes of protobuf are left to nanopb and protobuf: the models start at the
structs, and count bytes where a buffer is small.

## Running

In this directory, with the TLA+ tools and the community modules:

    tlc -config MCBoundedQueue.cfg MCBoundedQueue
    tlc -config MCServerLink.cfg MCServerLink
    tlc -config MCMappingManager.cfg MCMappingManager
    tlc -config MCParameterStore.cfg MCParameterStore
    tlc -config MCWifiStateMachine.cfg MCWifiStateMachine
    tlc -config MCApiExchange.cfg MCApiExchange
    tlc -config MCPresetControl.cfg MCPresetControl
    tlc -config MCMidiInput.cfg MCMidiInput
    tlc -config MCAudioTask.cfg MCAudioTask
    tlapm BoundedQueueProofs.tla
    tlapm ServerLinkProofs.tla
    tlapm ParameterStoreProofs.tla
    tlapm WifiStateMachineProofs.tla
    tlapm MappingManagerProofs.tla
    tlapm DataProofs.tla
    tlapm PresetControlProofs.tla
    tlapm MidiInputProofs.tla

