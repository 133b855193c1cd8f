# TLA+ models of pc-ble-driver

pc-ble-driver lets a PC program use the Bluetooth LE API of a SoftDevice that
runs on a development kit ("the device", running connectivity firmware). A call
such as `sd_ble_gap_sec_params_reply()` is encoded on the PC, carried over a
serial port, executed on the device, and its response decoded; events of the
device come the other way and end in a callback of the application.

This directory models what is hard to get right by testing: the threads, locks,
timeouts, retransmissions and tables through which commands, responses and
events pass; the framing of packets on a line that damages bytes; and the
encoding of every call and event of four API versions, where two functions
written by hand have to agree on every member of every structure. Paths below
are relative to `src/`, the root of the repository.

Contents:

1. Inventory: parts, state, operations, interactions, what makes them correct
2. The modules
3. The runs, their bounds and what they show
4. Fairness
5. Disagreements found
6. What is proved
7. What is only model-checked, what is not modelled
8. How the project grew, and what is left
9. How to run it

## 1. Inventory

The layers, from the application down (C++ sources in `src/common`, headers in
`include/common/internal`):

    application      sd_rpc_open/close, sd_ble_*()        callbacks (evt, status, log)
                          |  calls                             ^  event thread
    sd_rpc_impl, adapter_internal   AdapterInternal: one per adapter
    ble_common, app_ble_gap,        encode_decode(); codec contexts, key table, pools
      sd_api_vN/*_impl, codecs
    serialization_transport         SerializationTransport: request/response, event queue
    h5_transport, h5, slip          H5Transport: link state machine, reliable packets
    uart_transport                  UartTransport: write queue, asio io thread
                          |  boost::asio                       |
                            serial port  <--->  device

Calls go down, holding locks of the layers they pass. Data comes up on one
io thread per adapter: `UartTransport::readHandler` calls
`H5Transport::dataHandler`/`processPacket`, which calls
`SerializationTransport::readHandler`, which fills the response buffer of the
command under way or queues the event. A third thread per adapter, the event
thread, decodes events and calls the application; a fourth, the state machine
worker, brings the link up. Status callbacks pass failures up.

| component | state | operations | hard behaviour | correct when |
|---|---|---|---|---|
| **H5 link state machine** (`h5_transport.cpp` 104-265, 357-575, 668-1020) | `currentState`, the exit criteria of each state, `stateMachineReady`, `isOpen`, the worker thread | `open`, `close`, worker loop and state actions, control packets in `processPacket`, `statusHandler` | four threads, two mutexes and two condition variables; criteria objects that outlive the state; lock held while waiting | open returns; the handshake needs fresh answers; nothing sent to a closed port; a stop request is honoured; no double start of the thread |
| **H5 reliable packets** (`h5_transport.cpp` 266-347, 455-520, 650-665) | `seqNum`, `ackNum`, the packet being sent | `send` with retransmission, ack handling, receipt of events | lost, late and duplicate packets; 3-bit numbers; a call that gave up is followed by one with the same number | at most once and in order both ways; exactly once until a call returns without its ack; no false loss of synchronisation |
| **UART transport** (`uart_transport.cpp`) | `writeQueue`, `writeBufferVector`, `asyncWriteInProgress`, io thread, port | `open`, `close`, `send`, write and read handlers | unlocked test of a flag; asynchronous writes on a shared buffer; cancelled writes; reopening | queued frames leave in order, at most once, and all of them while the port works |
| **Serialization: session and events** (`serialization_transport.cpp` 73-165, 215-300, 325-351) | `isOpen`, event queue, event thread, `processEvents` | `open`, `close`, event loop, event part of `readHandler` | condition variable shared by two waits, without predicate; callbacks that call the driver; close while a callback runs | no callback outside a session; events in order, at most once, not stale; no lost wakeup; open and close return |
| **Serialization: commands** (`serialization_transport.cpp` 167-213, 305-324, `ble_common.cpp` 70-131) | `responseReceived`, `responseBuffer` | `send`, response part of `readHandler`, `encode_decode` | nothing ties a response to its command; buffer filled outside the mutex; late responses | a call decodes its own response from a buffer at rest, and notices it |
| **Adapter and session API** (`sd_rpc_impl.cpp`, `adapter_internal.cpp`) | `isOpen`, `publicMethodMutex`, the GAP state entry | `sd_rpc_open`, `sd_rpc_close`, create and delete | partial failure; close from a callback | state of the layers agrees after every sequence of calls |
| **GAP state and codec contexts** (`app_ble_gap.cpp`, callers in `sd_api_vN/ble_gap_impl.cpp` and the event decoders) | `codec_mutex`, `adapter_id` per context, key table, advertising pool, scan buffer | enter/leave a context, create/find/update/get/destroy of keys, reset, buffer registration | two contexts on one table; a context cleared after it is unlocked; a reply that fails half-way | a codec works on its own adapter; slots follow pairings; keys go to the right keyset |
| **SLIP, H5 codec, byte stream framing** (`slip.cpp`, `h5.cpp`, `h5_transport.cpp` 578-648) | `unprocessedData`, `c0Found` | encode, decode, resynchronise | pieces of any size; damaged, lost and added bytes; a session that ends within a packet | no packet is made up; the start is found again; the result does not depend on the pieces |
| **BLE functions and codecs** (`sd_api_v2` to `sd_api_v6`, `sd_api_common`) | none of their own (keys and buffers above) | a wrapper, a request, a response and a structure codec per function; a decoder per event | some 740 codecs of calls and events and 195 pairs for structures that must agree with each other and with the C types; optional pointers; unions selected by a member; differences between versions | what is encoded arrives whole and in its place; nothing is taken for the answer of a call that is not |
| UART settings, port enumeration, platform code, logging | none | parsing, system calls, formatting | none of the kinds above | - |

`PROJECT.json` lists every component with its modelling status, and every
hazard with the line where it bites and the properties that would catch it.

## 2. The modules

General conventions. A step is what a thread does between two points where
another thread can be scheduled *and* be noticed: a region under a mutex is one
step when the mutex protects all it touches; where the code reads or writes
outside the mutex the region is split there. A mutex held across steps is a
variable with its owner; `H5StateMachine` has `currentStateLocked`,
`DriverLifecycle` `publicMethodMutex` and `isOpenMutex`, `AppBleGap`
`codec_mutex`. Time is not modelled: a timed wait may end at any moment it is
waiting. Names are those of the source, spelling included (`IsFullfilled`).

Some definitions are preceded by a *variant*, an operator with the same
parameters that contains a plausible slip (a reset forgotten, a mask left out, a
lock not waited for). No definition uses a variant; the list of mutants in
`PROJECT.json` names, for every property of every passing run, a variant with
which that property fails. They are the evidence that the property can fail.

### H5StateMachine, H5Link

The link state machine with the worker, the application thread in `open()` or
`close()` and the io thread.

| module | code |
|---|---|
| `exitCriterias[s]` = set of raised flags | the `ExitCriterias` classes (`h5_transport_exit_criterias.h`) |
| `IsFullfilled`, `ExitState`, `Following` | `isFullfilled()` and what the state actions return |
| `RunAction`, `EndWait`, `EnterState` | `stateActions[...]()` to its first wait; from a wait to the next wait or return; `stateMachineWorker` after the action |
| `ProcessPacket`, `StatusHandler` | control packets and port failures on the io thread |
| `OpenRefused/Start/Ready/Uart/Flag/Return` | the stages of `open()` between its waits |
| `CloseFlag/Join/Uart` | the stages of `close()` |
| `heard` (history) | responses processed since the state was entered |

The window between the return of a state action and `EnterState` is a state of
its own (`worker = "leave"`): that is where flags can land on criteria that
nobody reads again.

`H5Link` is what this promises the layer above, in four values: a link is `idle`,
`running`, `down`, or `spent` once it was closed after it was down. It breaks by
itself only from `running`, an open that fails may leave it at work, and once
down it never runs again. `H5StateMachine` implements it (`ImplementsLink`), and
`DriverLifecycle` uses a link that follows it (`UsesLink`).

### H5Send, H5Receive, AtMostOnceChannel

The two directions of the reliable link in the ACTIVE state. `H5Send` has
`send()` cut at the places where the io thread can change `seqNum` (`Snapshot`,
`Transmit`, `Acknowledged`/`TimedOut`, `GiveUp`) and `ProcessAck`. `TransmitFails`
is the return of an error of the layer below (`h5_transport.cpp:320`), which takes
an exception in `UartTransport::send` or a port that is closed under the call, with
the packet on the line or not; like `GiveUp` it sets `gaveUp`. `H5Receive`
has the vendor-specific branch of `processPacket` as one step: the io thread
does it without interruption and nobody else touches `ackNum`. The lines are
sequences of which any head may be lost where it would be received, as general
as losing it anywhere. The device is external: it is modelled from what
`processPacket` expects of a peer, that is, a mirror image of the receiving
side.

`AtMostOnceChannel` is what each direction promises: messages offered in order
are delivered in that order, none twice. It is refined four times: by commands
(`H5Send`), events of the device (`H5Receive`), frames through the write queue
(`UartTransport`) and events through the event queue (`DriverLifecycle`).
`SerializationCommands` builds on the first of these: commands reach its device
in order and at most once, whatever the link says about it.

One interleaving of `H5Send` deserves notice. An ack processed between the end
of a wait and the next `Snapshot` changes `seqNum` before it is read again: the
retry then waits for a change that has already happened, and only an ack of the
packet after it, which nobody sends, could end it. The call uses up its
retransmissions and returns NO_RESPONSE for a command that was acknowledged.
`SendReturns` shows that such a call at least ends.

### UartTransport

The write queue and the asynchronous write. `Send`/`Enqueue`/`Test`/`Take`/
`StartWrite` are the stages of `send()` and `asyncWrite()`: `Test` reads
`asyncWriteInProgress` without a lock, `Take` moves the queue to
`writeBufferVector` under the mutex, `StartWrite` hands it to asio after it.
`PutOut`, `WriteDone`, `WriteFails`, `WriteAborted`, `ReadFails` are the
operating system and the handlers. `operations` is a sequence because two
threads can start two writes; a write whose buffer has been changed under it
sends what it finds (`Garbage`, or the frames of the other write).

The io thread sends too, from `readHandler`, since `processPacket` answers every
reliable packet with an ack. So two threads can both find `asyncWriteInProgress`
false before either sets it, the race of section 5: `overlapped` (history) says that
it has happened, `NothingLost` and `ImplementsChannel` say what holds until
then, and the violation run what is lost then. An exception in `close()` (`CloseThrows`) leaves the io
thread joinable behind `isOpen = FALSE`; the next `open()` assigns to it, which
is `std::terminate` (`OpenTerminates`, `ioThread = "terminated"`).

### SerializationCommands

One call after another of `encode_decode()`, and `readHandler` cut into
`ReadHandler`, `CopyResponse` and `FlagResponse`, because it writes the buffer
outside `responseMutex` and raises `responseReceived` under it. The link may
succeed for a command that never arrived and fail for one that did, as `H5Send`
shows it can. `late` records that a call returned without its response: from
then on the buffer of a later command may receive an older response, which the
properties say and no more.

### DriverLifecycle

`sd_rpc_open`, `sd_rpc_close` and a command through `AdapterInternal` and
`SerializationTransport`, the event thread and the callbacks it runs. The link
below is an `H5Link`. `open()` and the event thread wait for the same condition
variable, which `readHandler` notifies too, and `open()` waits without a
predicate; `WakeOpen`/`WakeEventThread` are `notify_one`/`notify_all` as the
code has them. Callbacks make the calls in `CallbackCalls`.

### AppBleGap

The codec contexts and the table of security keys. A thread goes through
`SetAdapterId` (lock), its stages, `Unlock`, `ClearAdapterId`: the last two are
separate because the code unlocks before it clears. A reply goes through
`Create`, `Name`, `Update`, the command and its response; an `auth_status` event
through `Find`, `Get`, `Destroy` and the callback. Each access to the table is
under the `adapter_id_mutex` of *its own* context, so that nothing orders a
command and an event on the same table: `Create` and `Name` are two steps
because an event can look at a slot that is active and has no handle yet.

A keyset is the number of the reply that came with it: `OwnKeyset` can tell to
whom the keys of an event are given. `mishap` marks adapters where a reply or an
event failed half-way, after which the table may hold a slot too many; it is
cleared by `app_ble_gap_state_reset` when no pairing is under way.

### AdvBufferPool, MCAdvBufferPool

Advertising sets and scans of API version 6. A call hands the SoftDevice
pointers to its buffers; on the wire they are numbers of slots in a pool of the
adapter, and events carry the numbers back. A call of
`sd_ble_gap_adv_set_configure`, `_scan_start` or `_scan_stop` goes through
`Enter` (lock the context), `Encode` (registers the buffers), `Respond` or
`SendFails` or `RespondGarbage`, and `Leave` (notes the buffers of the set from
`mp_out_params`, marks the old ones dirty, frees the dirty ones);
`ScanStopUnset` is what `scan_stop` does after it has left the context.
`DecodeEvent` takes buffers out of the pool on the event thread, those of a scan for a
report as for the end of its time (`BLE_GAP_EVT_TIMEOUT`). `held` and
`events` are the device, modelled from what the events' decoders expect.
`MCAdvBufferPool` is the instance: which thread works for which adapter.

What the model shows of the code, apart from its properties:

- a configuration the device refused still counts as configured, since the
  decoder returns success for an error result (the buffers of the set before it
  are marked dirty);
- an application that alternates two buffers registers a buffer that has a slot
  already; `adv_buf_addr_unregister` then frees the first slot with the address,
  not the dirty one. The set still finds a slot: five are enough for sets of one
  buffer and a scan, four are not (`Fits`);
- commands that fail leave their slots registered for good, and a full pool
  makes `register` return -1, which the encoder sends as an unsigned number
  (`app_ble_gap.cpp:531`). `mishaps` is how the properties say "unless";
- `app_ble_gap_scan_data_unset(true)` locks `adapter_id_mutex` and calls a
  function that locks it again when a scan buffer is registered. `stuck` is a
  thread that waits for itself there. `HangsExplained` names the two ways to get
  there: a `scan_start` whose response cannot be decoded, and a `scan_stop`
  that finds the context of another thread's call on an adapter that scans.

### Slip, H5Packet, Crc16, H5Framing, MCH5Framing

| module | code |
|---|---|
| `Slip` | `slip.cpp`: `escape`, `slip_encode`, and `slip_decode` a byte at a time (`Decode`) |
| `H5Packet` | `h5.cpp`: `h5_encode` and `h5_decode`. The CRC is the constant operator `Crc` |
| `Crc16` | `calculate_crc16_checksum` bit by bit, which the run gives to `Crc` |
| `H5Framing` | `dataHandler` and the first lines of `processPacket`, over a stream of bytes; the line and its damage |
| `MCH5Framing` | the packets and the damaged bytes of the run |

`dataHandler(n)` is an action that takes the next `n` bytes of the line. The
control flow of `dataHandler` (search for the first END, decode up to the next,
keep the rest, search again after a packet that does not decode) is `NextByte`,
one turn of its loop; `Looped` is the loop and `Handled` what a call makes of the
three variables; `Begin` puts what was left over before what comes. The loops are
recursive functions, so that they can be proved about, and only `Crc16` uses
bitwise operators. The specification is called `Stream`, with names of its own for
its parts, because one module of proofs extends it together with `H5Receive`.

`Line` is what a session can have on the line: all packets, one of them with a byte
changed, lost or added (`Damaged`, `With`), or a byte more between two of them.
`Reopen` ends a session anywhere and begins another with a fresh line.
Neither `close()` nor `open()` resets `c0Found` and `unprocessedData`
(`h5_transport.h:131`), which has two effects: a packet of which the old session
lacked only the last END is accepted as the first of the new one, and a new
session may lose its first packet. `Intact` and `OnlyNextLost` say exactly this
(`0 \in hit` marks a session that began with something left over).

### The codecs: SerFormat, SerStructs, SerStructsV2, SdTypesV*n*, SdFunctionsV*n*, SdApiV*n*, SdCallsV*n*, CodecCalls

A codec function is a sequence of *items*, one per `SER_PUSH_`/`SER_PULL_` macro.
`SerFormat` gives the items their meaning. A value is known by the path of the
member or argument it comes from: `Encode` yields the bits on the wire, each with
its path, `Decode` pairs every destination with the source of the value it gets.
A swapped order, a member left out, a field too narrow or a length read from
another place is a pair of different paths, or a pair that is missing
(`Misplaced`, `Complete`). Optional pointers that are NULL, members over a limit
the code checks and alternatives of unions are what is left of the data.

| module | code |
|---|---|
| `SerFormat` | `ble_serialization.h`, `cond_field_serialization.c`: the macros, and the kinds of C types |
| `SerStructs` | the `x_enc`/`x_dec` pairs of `sd_api_common` (versions 3, 5 and 6; `From(n, ..)` and `Until(n, ..)` are the `#if`s on the version) |
| `SerStructsV2` | those of `sd_api_v2`, written without the macros |
| `SdTypesV`*n* | the C types of `include/sd_api_v`*n*, op codes and event numbers |
| `SdFunctionsV`*n* | the declarations of the `sd_` functions: type and direction of each argument |
| `SdApiV`*n* | the request, response and event codecs |
| `SdCallsV`*n* | the wrappers of `ble_*_impl.cpp`: which codecs, with which arguments in which place; `ble_event_dec` |
| `CodecCalls` | a call or an event from the program's data to the device and back |
| `MCCodecCalls` | the four versions put together |

The firmware that decodes the requests is not in the repository. Request,
response and event codecs are therefore one-sided: the device's half is the same
sequence of items read the other way. What this can find wrong is a structure
codec whose two halves differ (both are in the repository), an order of
arguments in the wrapper, a result decoded where none was encoded, a member
that the types declare and no item carries, and a decoder that depends on
something not on the wire. The declarations are the independent side: `Given`,
`Returned` and `Delivered` ask for every member of the declared types.

What the codecs do not carry is named in `CodecCalls` and nowhere else: `Unsent`
(the address of the chip's RAM, a buffer that only receives), `Kept`, `Lost` (version 2: the `link` of the key distribution,
`lesc` of an encryption key, the status of a GATT client timeout), `Untagged`
(section 5) and `Room`. `Room` includes that `sd_ble_gap_device_name_get` with a
NULL `p_dev_name` is refused by the response decoder in versions 3, 5 and 6,
although `ble_gap.h` allows it to ask for the length alone. Three wrappers read an
argument themselves, and without it the program ends (`CrashesToAsk`,
`CrashesOnReturn`, `pc = "crashed"`): `ArgumentsArrive` says that this takes a
NULL that the header does not offer (`Needed`) or the `p_adv_data` of
`sd_ble_gap_adv_set_configure`, which it does (`NoAdvData`, section 5). Other things the
translation brought up and that have no effect: event decoders that set the id
of another event in the header (`ble_gattc_evt_rel_disc_rsp_dec` and
`ble_gatts_evt_rw_authorize_request_dec` in version 6,
`ble_gap_evt_conn_sec_update_dec` in version 5) or none at all (six of version
2), over which `ble_event_dec` writes the right one; the mutants use this.

## 3. The runs

Each run is a module and a configuration. *pass* runs must end without error,
*violation* runs must find the one property they check violated (section 5).

| run | module / cfg | bounds | what it shows |
|---|---|---|---|
| `link_state_machine` | `H5StateMachine.cfg` | `PacketRetransmissions = 3` | see below |
| `send` | `H5Send.cfg` | `Modulus = 3`, 3 transmissions, 5 commands, 4 in flight | see below |
| `receive` | `H5Receive.cfg` | `Modulus = 3`, 5 events, 3 in flight | see below |
| `uart` | `UartTransport.cfg` | a caller and the io thread, 5 frames, 2 sessions | see below |
| `uart_sent_is_written` | `UartTransport_SentIsWritten.cfg` | a caller and the io thread, 3 frames, 1 session | violation |
| `commands` | `SerializationCommands.cfg` | 4 commands | see below |
| `lifecycle` | `DriverLifecycle.cfg` | one application thread, callbacks that send and close, 3 events | see below |
| `gap_keys` | `AppBleGap.cfg` | 2 adapters, 1 application thread and both event threads, 2 handles, 2 slots, 2 replies | see below |
| `adv_pool` | `MCAdvBufferPool` / `AdvBufferPool.cfg` | 2 threads, 2 adapters, 3 buffers, 5 slots, 1 kind of mishap | see below |
| `codecs` | `MCCodecCalls` / `CodecCalls.cfg` | 4 versions, up to 3 NULL pointers | see below |
| `configuration_tagged` | `MCCodecCalls` / `CodecCalls_ConfigurationTagged.cfg` | versions 3, 5, 6 | violation |
| `framing` | `MCH5Framing` / `H5Framing.cfg` | 4 packets, 14 values of a damaged byte, pieces of 1 or 12 bytes | see below |

**link_state_machine.** The state machine has no counter other than the
retransmissions, so the run is unbounded in the number of opens, closes, resets
and packets; the state space is finite as it is. `FreshHandshake`: each advance
of the handshake rests on a response heard since the state was entered.
`NeverTerminates`: the thread is never started twice. `SendsOnlyToOpenPort` and
`QuietUartClose`: the port outlives the machine's use of it, and when the port
is closed, which waits for the io thread, the io thread has nothing to send.
`OpenReturns`, `HandshakeEnds`, `StopHonoured`: liveness. `OnlyLostCloseHangs`
describes *every* deadlock of the model: `close()` waits for a worker that waits
in ACTIVE for a flag that was raised one state too late, over a port that
failed. The run says `CHECK_DEADLOCK FALSE` for that reason, and this invariant
takes the place of the deadlock check.

**send**, **receive**. With `Modulus = 3` and five commands the numbers wrap
almost twice, and with four packets in flight more old packets are on the line
than there are numbers: what wrap-around can confuse is confused sooner than
with 8. `Modulus = 2` would be wrong (an ack of the packet before would fit), and
the assumption `Modulus > 2` is what the proofs need. Three transmissions are the
smallest number with a first, a middle and a last one. `CHECK_DEADLOCK FALSE`:
all commands are sent and the lines are empty.

**uart**. Five frames let a write take several frames, fail with some of
them out, and leave others in the queue when the port closes; the second session
shows what becomes of these (they go out first). `NothingLost` for the first
session until a write fails, `ImplementsChannel` for both and whatever fails, both
until two threads found the flag FALSE before either set it;
`QueueDrains`, with that race or without: nothing stays in the queue of a port that works.
After a write that failed everything stays there until the port is closed
(`uart_transport.cpp:162`); no property forbids it.
`CHECK_DEADLOCK FALSE`: the bounds are reached, or the program is terminated.

**commands**. Four commands are enough for a response that is late by one, two
and three commands, with and without a response-less call
(`sd_rpc_conn_reset`) between. `OwnResponse`, which includes that nobody writes
to the buffer while it is decoded, until a call returns without its response;
`OwnResponseNoticed` always.
`CHECK_DEADLOCK FALSE`: the bound is reached.

**lifecycle**. Calls are unbounded; three events are one that comes before the
event thread first waits, one that wakes it, and one to be left over. Both calls
of a callback that matter are allowed. `ThreadInsideSession`
and `GapStateOfOpenTransport` relate the state the three
layers keep, after every sequence of calls, refused and failed ones included.
`NoLostWakeup`, `ImplementsChannel`, `NoStaleEvent`: what happens to events.
`OpenReturns`, and `OnlyNestedCloseHangs`: `close()` returns unless the callback
it waits for is itself in `close()`. That one really is a deadlock: `close()`
holds `publicMethodMutex` while it joins the event thread, whose callback waits
for that mutex. This is why the run says `CHECK_DEADLOCK FALSE`.
`GapStateOfOpenTransport` is for one thread that opens: with two, the create of
one open and the delete of another close are not ordered by any lock.

**gap_keys**. Two adapters share the two contexts, so three threads meet in
them. Only the connections of `adapter1` are paired (`Pairing`): the other
adapter enters the contexts with calls and events that touch no keys, which is
all it takes to disturb the first, and keeps the run at about a minute. Two
handles, 0 among them because it is what unused slots hold, and two slots: the
table can be full and can hold the handle of an earlier pairing in an inactive
slot. Deadlock is checked. An application replies once to each pairing, and
again only after a reply that failed (`MayReply`).

**adv_pool**. Sets of one buffer, so that a call registers one; two buffers to
alternate and one to scan with, and a pool of five, the smallest that suffices:
with the eight slots of the code for sets of two buffers the same patterns need
more states and no other case. The second adapter has a thread of its own, which
advertises one buffer and stops scans; the constraint `OneThreadEach` says so. At most
one *kind* of mishap per behaviour, any number of times: which is enough to tell
which property depends on which. `OwnOutParams`, `Fits`, `BufferBack`,
`HangsExplained`. `CHECK_DEADLOCK FALSE`: a thread may be `stuck`.

**codecs**. Every function with a wrapper and every event of each version; every
set of at most three NULL pointers that the types allow, every alternative of
every union, configuration and option, one member over its limit at a time, and
results the device has no value for. A macro tests one pointer, so what can go
wrong with a missing one shows with it and its neighbours. `ArgumentsArrive`, `ResultsArrive`, `EventsArrive`: whole and in
place. `OnlyOwnAnswer`: a late response of another function is refused, because
the op codes differ. Deadlock is checked: a call always ends.

**framing**. A reliable packet whose header and payload have to be escaped, an
acknowledgement, a link control packet, and a reliable packet whose payload looks
like an escape; after every `open()` the device sends all four. In the first
session the line may change, lose or add one byte anywhere; a session without
damage may end after any byte, any number of times. `MCNoise` has every
single bit and the four special bytes. Pieces of one byte are the finest cut,
pieces of twelve cross packet boundaries in different places each time; a
`dataHandler` of any length does what these do (`CutsDoNotMatter`).
`CHECK_DEADLOCK FALSE`: the line falls silent.

## 4. Fairness

Only liveness properties use fairness; each `Spec` has none.

- `H5StateMachine`: weak fairness of the worker and of a call under way
  (`Resume`). They are threads that can run. None of the device and the port:
  a silent device must lead to `NO_RESPONSE` all the same.
- `H5Send`: weak fairness of the calling thread (including the end of its timed
  wait), of the io thread and of the line, which carries *or loses* the packet. None of
  `TransmitFails`: no call relies on an error to end.
- `H5Receive`: weak fairness of the device's retransmission, strong fairness of
  the arrival of packets and acks: a line that loses all copies for ever would
  make every statement about delivery false. This is an assumption about the
  line and the device, not about the code.
- `UartTransport`: threads go on, the port takes what is written, handlers run.
- `DriverLifecycle`: strong fairness of each thread, since a step that waits for
  a mutex is enabled and disabled as others take and release it; a mutex is
  granted in the end to a thread that keeps asking. It includes that callbacks
  return.
- `SerializationCommands`, `AppBleGap`, `AdvBufferPool`, `CodecCalls`, `H5Framing`:
  safety only.

## 5. Disagreements found

Each is a violation run; the finding in `PROJECT.json` quotes the sentence.

1. `uart_sent_is_written`: two threads find `asyncWriteInProgress` false and
   start two writes from one buffer (`uart_transport.cpp:514`).
2. `configuration_tagged`: `ble_cfg_set_req_enc` sends the tag of a connection
   configuration only for the ids up to `BLE_CONN_CFG_GATT`, and so not for
   `BLE_CONN_CFG_L2CAP` (`ble_app.c:497`; versions 3 and 5 alike).

Other behaviour that may surprise is part of the models, which the properties
describe rather than forbid:

- a close (or port failure) noted between the return of a state action and the
  next state is lost; in ACTIVE the worker then waits without limit and `close()`
  never returns (`h5_transport.cpp:233`; `OnlyLostCloseHangs` says that this is
  the only way to hang);
- after NO_RESPONSE the sequence number is used again: a late ack of the old
  command makes the new one succeed although the device drops it as a duplicate
  (`h5_transport.cpp:289`; the `gaveUp` of `H5Send`);
- an open that times out leaves the link at work, and `close()` refuses to close
  it (`serialization_transport.cpp:93` and `157`);
- a codec context is unlocked before it is cleared, and so cleared for the next
  thread, whose codec then has no GAP state (`app_ble_gap.cpp:177`);
- nothing ties a response to its command: after a call gave up, the next may
  decode the response meant for it (`serialization_transport.cpp:176`). A
  response of *another* function is refused (`OnlyOwnAnswer`);
- a reply or event that fails half-way keeps its slot of the key table
  (`ble_gap_impl.cpp:563`; the `mishap` of `AppBleGap`);
- `sd_ble_gap_adv_set_configure` with a handle and without advertising data reads
  through the NULL pointer (`sd_api_v6/ble_gap_impl.cpp:74`), although
  `include/sd_api_v6/ble_gap.h:1784` says of `p_adv_data`: "If set to NULL, no
  advertising data will be used." `ArgumentsArrive` names this call as the one that an
  optional argument left out does not survive (`NoAdvData`).

## 6. What is proved

The eight modules `*_proofs` are checked by TLAPS with no assumption other than
those on the constants, which are named in the modules that declare them:
`PacketRetransmissions >= 1`; `Modulus > 2` for `H5Send` and `Modulus > 1` for
`H5Receive`; packets of `H5Framing` whose fields fit their header; at least one slot for `AppBleGap` and `AdvBufferPool`; sets of
threads that do not contain the names of the others; and any bounds. The
theorems hold for every value of the constants, the 8 and 6 of the code among
them, where the runs have small ones. Some theorems have a hypothesis of their
own, which the runs of the same property meet:

| Hypothesis | Theorems | What it says |
|---|---|---|
| `OneApp` | `GapStateFollows` | one application thread opens and closes the adapter; its callbacks may try to |
| `Apart` | `BuffersComeBack`, `PoolIsLargeEnough` | the application does not advertise with the buffers that it scans with |
| `LargeEnough` | `PoolIsLargeEnough` | the pool has slots for three advertising sets and two scan buffers |
| `CrcIsWord` | `H5RoundTrip`, `CutsNeverMatter`, `OnlyNextIsLost`, `UndamagedSession` | the CRC of a sequence of bytes is a number of 16 bits, `uint16_t` in the code; which number does not matter |

**H5StateMachine.** `TypeCorrect`, `HandshakeIsFresh`, `StartIsSafe`,
`PortDiscipline`, `QuietClose`, `FailureStays`, `OnlyLostCloseStops`,
`ImplementsLink`. None of the properties is inductive alone; `IInv` joins them with four parts:

- `WorkerInv`: how far the worker is agrees with the current state (it runs
  states that have actions and has ended in terminal ones);
- `AppInv`: what each stage of `open()` and `close()` relies on. While `open()`
  holds `currentStateMutex` the state stays START, whatever the worker does;
  a closed transport at rest has no worker;
- `FlagInv`: what a raised flag of the current state is evidence of: `close`
  that the transport is closed, `isOpened` that the port is open, a response
  flag that the response was heard. It speaks of the current state only: the
  flags of other states are stale, and `EnterState` clears them;
- `ChoiceInv`: what the state chosen next is evidence of, for the window
  between the return of an action and `EnterState`.

`StepIInv` has one step per action. The safety properties are parts of `IInv` or
follow from it; `FailureIsFinal` follows because no action is possible that
changes a terminal state other than CLOSED. `ImplementsLink` maps each step to one
of `H5Link` or to none: `LinkState` is read off the state, FAILED and NO_RESPONSE or
another, and whether the transport is open, which it counts as until `close()` returns.

`OnlyLostCloseStops` is what `OnlyLostCloseHangs` says, without `ENABLED`:
`CanGoOn` spells out the guards of `Next`, one line per wait, and TLC has found
`CanGoOn <=> ENABLED Next` in every state of the run's instance. `HangInv` adds
to `IInv` who holds `currentStateMutex` (only `open()`, and not when it waits for
the worker's end), that a worker waiting in START has reported that it is ready, and that
a `close()` which found it there has raised the flag it waits for.

**H5Send.** `TypeCorrect`; `NeverIrrecoverable`, by `SeqInv` about the numbers on
the line: a packet under way carries `seqNum` or the number before it, and once
the device has moved on no older packet is left; an ack carries `seqNum` or its
successor, and no older ack follows a newer one. Hence every ack `processPacket`
sees fits, and `irrecoverableSyncError` is never raised within a session.
`Refinement`: `H5Send` implements `AtMostOnceChannel`. Its invariant is about
the commands on the line: they are in order of the calls (`SortedInv`), two
packets with one command have one number (`SameSeqInv`), none is older than the
last command the device accepted, and those that still carry that command have a
number it does not accept any more (`RecentInv`). So what is accepted is newer
than what was accepted before, which is what the channel promises.
`DeliveredOnce` (`ExactlyOnce`): `CleanInv` says that until a call returns without
its ack, because it gave up or its transmission failed, the device has every command up to this one, or up to the one before while this call
is under way and its number is still the expected one; the call can end only on
a change of `seqNum`, which only the ack of its own command makes.

**H5Receive.** `TypeCorrect`, `DeliveredOnce`, `Refinement`. `LinkInv` says where
the two ends stand and what may be on the lines between them: `ackNum` is the
number of the latest packet or the one after it (`PhaseInv`), what is delivered is
all of the packets up to the one that `ackNum` has passed (`CountInv`), a packet
under way is the latest or has the number before it, older ones first, and once
the latest is accepted no older one is left (`PacketInv`); likewise an ack, so
that none is taken for the ack of a packet not delivered (`AckInv`). An accepted
packet is then the latest one, and new.

**AppBleGap.** `TypeCorrect`, `OwnAdapterOnly`, `SlotPerPairing`
(`KeysOfPairings`), `KeysGoToOwnKeyset` (`OwnKeyset`). For the contexts the invariant is `VarTypes` with
`HolderInv` (the thread that holds a context is the one in it, and no other is)
and `NeverAnotherAdapter` itself: a thread sets `adapter_id` when no other works
in the context, and one that has left only clears it. So a context that is
unlocked before it is cleared can leave a codec without an adapter but not with
a wrong one.

For the key table it is `KeysInv`. `ReplyInv` and `EventInv` are about the calls:
replies of one connection do not meet, until the device has accepted one the
connection is not being paired, and a pairing lasts until its event. `SlotsInv` is
about the table of an adapter on which no reply or event has failed half-way. It
cannot say that active slots have different handles, for the slot of a reply is
active before it has its handle, and a slot that was given back keeps the handle of
its last pairing; so `FirstOfHandle` says that an active slot that has its handle
is the first of all slots with that handle, active or not, which is
what the search from the front needs; `LiveNamed` that the connections with such a slot
are those being paired or on their way there; `KeysetsMatch` that a slot has the
keyset the device accepted; and `NamingSlot`, `StoringSlot` and `EventSlot` which
slot a reply and an event have between their steps.

**UartTransport.** `Refinement` (`ImplementsChannel`), `NoFrameLost`
(`NothingLost`) and `NoFrameForgotten`, for any number of threads, the io thread
among them. The first two hold until `overlapped`: two threads found
`asyncWriteInProgress` FALSE before either set it, from when on
`uart_sent_is_written` of section 5 shows frames lost. The inductive invariant is
therefore `UntilOverlap`: `IInv` unless `overlapped`. Of its parts `WriteInv` says: a
single token is held either by the thread in `asyncWrite()` or by the one write
under way, whose frames are the buffer; `asyncWriteInProgress = FALSE` says that
nobody has it, and that is what makes the unlocked test harmless. `OrderInv`:
frames in the buffer are older than those in the queue, and what has not left is
newer than what has. `NoFrameLost` needs more than order: `LosslessInv` numbers the frames
over the wire, the rest of the buffer and the queue without a gap (`Numbered`),
where the buffer counts only while a write is under way or about to start, for
afterwards it keeps frames that are out; and `SessionInv` says when the one session
of the claim has not begun or is not over.
`NoFrameForgotten` is what `QueueDrains` needs besides fairness. `Attended` says
that while a thread may find `asyncWriteInProgress` set, a write is under way or
about to start, whose handler looks at the queue again (this in every session);
and that a queue with frames in it has such a write, or the thread
that has queued one and not tested the flag yet (this in the first session: a
later one may begin with frames that `close()` left and nobody to send them). A
write that fails ends the claim, for its handler neither looks at the queue nor
clears the flag.

**SerializationCommands.** `TypeCorrect`, `DecodesOwnResponse`,
`NoticesOwnResponse`. The invariant follows the last command on its way to the
device and back, in five stages (`Progress`): while no call has ended without its
response, at most one response is about, it is this command's, and the call
decodes only after the last stage (`OwnInv`). `NoticedInv`: a response that has
been handled is flagged while its call waits, late responses or not.

**DriverLifecycle.** `TypeCorrect`, `InsideSession`, `WakesUp`, `NeverStale`,
`Refinement`, for any set of application threads and any number of events.
`LockInv`: which steps hold `publicMethodMutex` and `isOpenMutex`, and that no two
threads are there; `SessionInv`: the transport is open when the event thread is
started, the link is closed only when it is joined, and `open()` waits only for a
thread that has not waited yet and will wake it; `QueueInv`: the events in the
queue are the newest that arrived, in order, what was handled is older, and once
the event thread has drained the queue none of them is from before the session.
`NeverStale` and `Refinement` follow from `QueueInv`.
`UsesLink`: its link follows `H5Link`, which closes the gap to `ImplementsLink`.
`OnlyNestedCloseStops` is the half of `OnlyNestedCloseHangs` that is about deadlock,
without `ENABLED` and for any number of application threads: when nothing goes on in
the driver, no call is under way, or a callback is in `close()` while the thread that
joins it holds `publicMethodMutex`. `CanGoOn` and `EventThreadGoesOn` spell out the
guards (TLC has found them equivalent to `ENABLED` of the steps). The invariant gets
two parts more: `OwnerInv`, a mutex that is locked has an owner at a step that will
unlock it; and `JoinInv`, the event thread that `close()` joins has been told to end
and does not sleep.
`GapStateFollows` (`GapStateOfOpenTransport`), for one application thread: `GapInv` says
that the transport is open from the moment `open()` starts the event thread until the GAP state
is created, that a GAP state without an open transport is about to be
deleted by the call that closed it, and that the event thread gets to `close()`
only from a callback, where it is refused before it touches the link.

**AdvBufferPool.** `TypeCorrect`, `OutParamsOfCall`, `HangsAsExplained`, for any
threads, adapters and buffers and a pool of any size. `HolderInv`: from `Enter` to
`Leave` a call is that of the holder of the mutex, and only then has the context an
adapter; `CallInv`: only a `scan_stop` gets to the late unset, and only scans get
stuck. The one `mp_out_params` for all calls is safe because a call holds the
request context while it is in use.

`BuffersComeBack` (`BufferBack`), under `Apart`. Numbers of slots are in four places:
with the advertising set and with the scan of the device, in an event that is
not decoded, and in the call under way (`Owners`). `PoolInv` says that each number
is that of a slot with the buffer it was given for and that no slot has two
owners (`Owned`); that all slots with one buffer are in one state and that slots
of scan buffers never become dirty (`Sound`), so that the loop that frees by
address frees the dirty slots and no other; and that the slots of a call are in
use when its configuration ends. `OpInv` carries the buffers of a call through
`mp_out_params` to the set. `Apart` is needed: TLC finds `BufferBack` violated when a
buffer is used for both, since a configuration then marks the slot of the scan
dirty and a later one frees it. There is no run for it, for no comment promises
the contrary.

`PoolIsLargeEnough` (`Fits`), under `Apart` and `LargeEnough`. Here buffers may be
given twice and events overtaken, so neither `Sound` nor `Owned` is available, and
the argument is about numbers (`FitInv`): slots of advertising that are not those of the
call are at most those of two sets, and those of one set at most are in use, all of them
with buffers of the set the driver remembers, so that the next configuration marks them;
a scan buffer is only in the slot of the scan, of an undecoded report, or of the
call. `FreeDirtyCount` is the lemma it rests on: the loop frees
the first slots with an address, dirty or not, but as many as are dirty, whatever
the states of the slots with one address. The count goes address by address
(`ClassCount`); its two inductions are arguments about a least counterexample
(`LeastOfNumbers`). With sets of two buffers `LargeEnough` is `PoolSize >= 8`, which is
`APP_BLE_GAP_ADV_BUF_COUNT`; with 7 slots TLC finds `Fits` violated, so the
code's number is exactly enough. With sets of one buffer it is 5, that of the run.

**Slip, H5Packet, H5Framing.** In `H5Receive_proofs`, for any packets, any noise and
pieces of any size. `SlipRoundTrip`: `slip_decode` gives back what `slip_encode` was
given. `H5RoundTrip`: `h5_decode` gives back the packet that `h5_encode` was given, its
fields and its payload. `CutsNeverMatter` (`CutsDoNotMatter`), `OnlyNextIsLost`
(`OnlyNextLost`) and `UndamagedSession` (`AcceptedAsSent`: of a session that is not
damaged and does not begin with something left over, what is accepted is the first
packets in their order, and at its end all of them) are about the stream.

The loops of the code are recursive functions over sequences. `LoopOver` and the
lemmas around it say of each loop what it is over no element and over a sequence with
one element more; from there on a proof is an induction over sequences, which
`OnSequences` makes an argument about a set of sequences (and `UpTo` about a set of
numbers), as the induction rules of the library are out of reach. `HandledFacts`
reduces `dataHandler` to what it makes of one byte (`ByteHandled`). `OverPacket` is the
heart: at the start of a packet (`AtPacketStart`) the bytes of a packet are taken for
it, and in any other state the first END of the packet is taken for an end or a start
and its last one leads to the start of a packet. So a packet resynchronises whatever
the state before it was, and one that comes after it is accepted. `SoFar` carries this
over the packets of a session, and the invariant `WithinSession` says that
`unprocessedData`, `c0Found` and `accepted` are what `dataHandler` makes of the bytes
of a session taken so far, from whatever the session before it left.

TLC has checked the invariants above before they were proved, except `WithinSession`,
which quantifies over all byte sequences; of that one it has checked what follows.

## 7. What is only model-checked, what is not modelled

Only model-checked:

- every liveness property, and `OnlyLostCloseHangs` and `OnlyNestedCloseHangs`:
  fairness and `ENABLED` are beyond the prover. `OnlyLostCloseStops` proves the first
  and `OnlyNestedCloseStops` the deadlocks of the second with the guards in the place of
  `ENABLED`; `NoFrameForgotten` is the part of `QueueDrains` that is safety;
- `Intact` of `H5Framing`: it is false for an arbitrary CRC, which need not tell a
  damaged packet from another, and true for the damage of the run because of
  the CRC and the header checksum the code has. `Crc16` uses `Bitwise`, which the prover
  cannot use; and some damage of several bytes would pass any CRC of 16 bits. For
  sessions without damage `UndamagedSession` proves more than `Intact` says;
- `ArgumentsArrive`, `ResultsArrive`, `OnlyOwnAnswer` and `EventsArrive` of `CodecCalls`:
  their operators are recursive over items, and what they say of the codecs is decided
  by the tables of each version, not by an argument for all of them. They are
  finite in what matters, and TLC goes through all of it.

Not claimed at all is what the properties and the hypotheses of section 6 leave out:
what becomes of the frames of `UartTransport` after two threads both started a write,
and `GapStateOfOpenTransport` when several threads open and close.

Not modelled, inside modelled components:

- durations: a timed wait may end at any time, so that nothing depends on
  300 ms being longer than 250 ms, and nothing is shown about it either;
- a link reset under a running `send()`: `H5Send` is one session in ACTIVE. The
  numbers are reset when ACTIVE is entered (`h5_transport.cpp:837`) while a call
  may be waiting for them to change; `PROJECT.json` lists the hazard;
- the destructors, and `sd_rpc_adapter_delete()` of an open adapter;
- replies without a keyset, which keep that of the slot's last pairing;
- data races on `adapters_gap_state` (a `std::map` used without a lock).

- of the codecs: lengths of buffers and the minimum lengths that decoders assert,
  `sd_ble_evt_get`, the L2CAP commands and events and the channel survey for which
  there is no wrapper or no decoder that is called, `sd_ble_uuid_vs_remove`,
  `sd_ble_gap_adv_addr_get`, and the functions that only lend memory
  (`app_ble_user_mem_*`). Pointers of L2CAP events travel as numbers.

Not modelled at all: UART settings and port enumeration (parsing and system
calls), the transport callbacks (no state), logging, and everything that is not
part of the driver (examples, tests, tools, firmware, vendored code).

Model boundaries that a property rests on: the device of `H5Send`/`H5Receive` is
a mirror image of the host; the link of `DriverLifecycle` is an `H5Link`, which
`H5StateMachine` implements, except that in `DriverLifecycle` its `close()` always
returns (the lost close of section 5 is not repeated there); in `SerializationCommands`
the device answers in order; a packet of an earlier session that `H5Framing`
lets through is not repeated in `H5StateMachine`, where a response heard since a
state was entered is the device's of this session; the window in which
`AppBleGap` shows a context unlocked and not cleared is closed in
`AdvBufferPool`; events of the device reach `AdvBufferPool` and `CodecCalls`
whole, as the layers below promise.

## 8. How the project grew, and what is left

In this order: `H5StateMachine` with proofs; `AtMostOnceChannel`, `H5Send` and
`H5Receive` with proofs; `UartTransport`; `SerializationCommands`;
`DriverLifecycle`; `AppBleGap` with proofs of its contexts; then `AdvBufferPool`,
the codecs and `H5Framing`, and the proofs about commands, sessions, the
advertising pool, the write queue and exactly-once delivery; last the proofs about
what is kept in tables: frames that are queued, the GAP state, the slots of
pairings and their keysets, the buffers of advertising and the size of their pool;
and that the threads of the link and the write queue do not wait for each other in vain;
and at the end the abstract link between two layers, the deadlocks of a session, and
packets as bytes, for which the loops of `H5Framing` became recursive functions.

Left:

1. `H5Session`: `H5StateMachine` with `H5Send` and `H5Receive`, that is, link
   resets under a running `send()`. It needs a device with the same state
   machine, and the window between the change of `currentState` to ACTIVE and
   the reset of `seqNum`, in which a call can start with an old number. The
   hazard at `h5_transport.cpp:837` waits for it; until then the properties of
   `H5Send` and `H5Receive` are about one session of the link;
2. the open adapters themselves: creation and deletion of adapters and the
   unlocked map `adapters_gap_state`;
3. theorems: every safety property of the state machines and of the framing has one
   now, `OnlyLostCloseHangs` and `OnlyNestedCloseHangs` in the form without `ENABLED`,
   except `Intact`, which needs the CRC itself. What is left are the theorems without
   their hypotheses: the GAP state with several application threads, where it
   depends on the order in which they close, and frames over several sessions
   of the port, where what `close()` left in the queue goes out late.

## 9. How to run it

    tlasany M.tla                          parse
    tlc -workers 2 -config X.cfg M.tla     model-check
    tlapm M_proofs.tla                     check the proofs

The longest runs are `adv_pool` (3.1 million states) and `gap_keys`, a minute or
two each with two workers; `codecs` and `framing` take about 40 seconds; a
proof module takes a minute or two.
