# Verification project for the ESP32-C3 multi-axis firmware

The firmware under `src/main/` receives TCode commands (multi-axis position
commands such as `L0500I200`) over seven inputs, keeps the target of every axis
and drives servos, stepper pulses, an SPI bus or CAN motors from it. Settings
are changed at run time over HTTP or BLE, and the part of the program that
moves the machine is then destroyed and rebuilt while commands keep arriving.

This directory holds TLA+ models of the firmware's concurrent core, the TLC
configurations that check them on small instances, and TLAPS proofs for every
value of the constants. All paths below are relative to the repository; line
numbers of every modelled definition are in `PROJECT.json` (`map`).

## 1. Inventory

Tasks: `app_main`; the *select task* (TCP, UDP, UART, UART2); *httpd* (HTTP and
WebSocket handlers); *nimble* (the BLE host); *handy* (Buttplug protocol); per
executor a *parser task* (priority 6), an *executor task* and a hardware timer;
the default event loop; small tasks for USB detection, LED, voltage and CPU
statistics.

| Component (source) | State | Operations | What makes it correct | Status |
|---|---|---|---|---|
| Receive queue and packets (`select_thread.cpp`, `select_thread.hpp`) | `global_rx_queue` of 20 pointers, heap blocks of each `data_packet_t` | allocate, send with a timeout, free on every error path | one owner per packet, nothing leaks or is read after its free, order kept | modelled: `PacketPipeline`, `CommandChannel` |
| Inputs (`tcp_server`, `udp_server`, `uart`, `uart2`, `websocket_server`, `ble/def.hpp`, `handy_handler`) | one packet being prepared each | read, allocate, send | as above, for seven slightly different copies of the same code | their packet code: `PacketPipeline` |
| Executor (`executor.cpp`, `executor_factory.cpp`, `globals.cpp`) | `g_executor`, `parserTaskRunning`, the task handles, the timer | construct, parse, tick, exchange, destroy | exactly one consumer of the queue, no command stranded, nothing left behind | modelled: `PacketPipeline` (parser task, exchange), `ExecutorLifecycle` (timer, executor task, event handler) |
| Select task and TCP server (`select_thread.cpp`, `tcp_server.cpp`) | `tcp_client_fds`, `tcp_client_count`, `lwip_mutex`, the socket table | select, accept, serve, close, reply to `D1` | the table is the socket table, nobody blocks under the mutex, a reply goes to the one that asked | modelled: `TcpServer` |
| UART2 framing (`uart/uart2.cpp`) | `uart2_rx_buffer`, `uart2_rx_len` | gather bytes, cut lines | framing does not depend on how the bytes were cut into reads | modelled: `Uart2Framing` |
| Settings (`setting.cpp`, `http/def.hpp`, `ble/def.hpp`, `main.cpp`) | `/spiffs/setting.bin`; what the executor and the Wi-Fi driver were built from | create, load, save, apply; boot | what runs is what is stored; an error leaves a file the next boot can use | modelled: `SettingStore` |
| Wi-Fi (`wifi.cpp`) | driver mode, interfaces, event handlers, the web server | init, reconfigure, events | whoever can reach the device finds the web server started | modelled: `EventLoop`, `SettingStore` |
| TCode and Handy conversion (`tcode.hpp`, `handy_handler.cpp`) | `current`, `last` per axis; the Handy payload being decoded | parse, store, interpolate; decode a payload into commands | a position survives the formatting; interpolation stays between its ends and does not jump; the vectors of a payload become commands in their order | one axis: `AxisMotion`; payloads: `ProtoDecode` |
| Axis executors and actuators (`osr`, `sr6`, `sr6can`, `trrmax`, `o6`, `actuator/`) | RMT channels, LEDC timer, SPI device, motors | construct, compute, set target, destroy | the new executor drives its outputs although the old one's destructor shuts them; no pulse outside the servo's range | life of a PWM and of a CAN executor: `ExecutorLifecycle`; the twist axis of OSR (LEDC) and of SR6 (RMT) down to the pulse: `AxisMotion`; other kinematics not modelled |
| CAN and MIT motors (`twai/`, `sr6can_executor.cpp`) | `MIT::mutex`, `stats_mutex`, `feedback_mutex_`, frame counters | start, command, receive, report | every frame is counted once; nobody keeps the bus from the installed executor | modelled: `CanBus`, `ExecutorLifecycle` |
| WebSocket clients (`event_websocket.cpp`) | `event_clients` | join, broadcast, leave | the list names open sessions, each knows the USB state | modelled: `EventLoop`; the list of `websocket_server.cpp` is never read |
| USB monitor and LED (`usb_monitor.cpp`, `led.cpp`, `main.cpp`) | last USB state, LED mode and colour, `g_system_initialized` | poll, post, show | the LED tells the last state, whoever showed it | modelled: `EventLoop` (not how the LED is drawn) |
| Default servo settings (`setting_config.cpp`) | - | select a table | the executor factory accepts it | modelled: `DefaultSettings` |
| Decoy (`decoy.cpp`) | pins, voltage level | init, set | the level picks the row it names | start-up in `SettingStore`; the table is not modelled |
| BLE host set-up, HTTP router and files, mDNS, SPIFFS, monitors, geometry, PID | none shared | set-up, I/O, numeric code | - | not modelled, see section 7 |
| nanopb and the messages (`components/nanopb`, `setting.pb.*`, `handyplug.pb.*`, `SettingWrapper`) | streams, the call stack of a nested decode, the struct being filled | encode, decode, skip what is unknown | a setting survives being written and read back; only a complete one is taken; nothing is read outside what arrived | what these messages use: `ProtoMessages`, `ProtoEncode`, `ProtoDecode`, `ProtoRoundTrip` |

Interaction. Inputs and parser share the queue and the heap. The parser task
calls back into the inputs' modules to answer `D1`, under `lwip_mutex`, which it
shares with the select task. httpd and nimble write the settings file and
assign `g_executor` without a lock; the destructor deletes the parser task
wherever it is. `app_main` does the same two things once, after httpd and
nimble have been started. Wi-Fi reads the settings file back on its own. The
default event loop runs the handlers of Wi-Fi, USB, statistics and executor
events one after the other on one task, which everybody who posts waits for;
its handlers start the web server, set the LED and send to WebSocket clients.

Hard behaviours, each listed at its line under `hazards` in `PROJECT.json`:
tasks deleted in the middle of a step; pointers exchanged without a lock;
descriptors used after the socket behind them has changed; snapshots taken
before `select` and used after it; a file truncated before it is rewritten;
errors met halfway through a reconfiguration; buffers and queues at their
limits; a mutex unlocked twice or left by a deleted task; commands torn by the
task that interpolates them; events lost, early, or answered out of order.

## 2. Modules

| Module | Models | Extends / uses |
|---|---|---|
| `CommandChannel` | abstract: a bounded first-in first-out channel that delivers a command at most once | - |
| `PacketPipeline` | inputs, queue, heap, parser tasks, the exchange of `g_executor` | instantiates `CommandChannel` |
| `TcpServer` | select task, client table, sockets, `lwip_mutex`, `D1` replies | - |
| `Uart2Framing` | the UART2 line cutter | - |
| `SettingStore` | settings file, boot, settings writes, what is applied | - |
| `ExecutorLifecycle` | timers, executor tasks, derived constructors and destructors, the outputs, the default event loop | - |
| `CanBus` | the CAN bus of SR6CAN: executor tasks, feedback receivers, the bus-load task, their three locks | - |
| `AxisMotion` | one axis from the text of a command to the pulse of a servo | - |
| `EventLoop` | default event loop, Wi-Fi and its events, web server sessions, `/event` clients, USB monitor, LED, the end of `app_main` | - |
| `DefaultSettings` | tables of default servo settings, what the factory makes of them | - |
| `ProtoMessages` | field lists of the messages, what a field can hold, a new device's setting | extends `DefaultSettings` |
| `ProtoEncode` | `pb_encode` | extends `ProtoMessages` |
| `ProtoDecode` | `pb_decode` field by field, settings and Handy payloads, the callbacks of `handy_task` | extends `ProtoMessages` |
| `ProtoRoundTrip` | that what `pb_encode` writes, `pb_decode` reads | extends `ProtoDecode` and `ProtoEncode` |
| `MCPacketPipeline`, `MCTcpServer`, `MCSettingStore`, `MCCanBus`, `MCAxisMotion`, `MCEventLoop`, `MCProtoDecode` | instances for TLC | the modules above; `MCSettingStore` and `MCAxisMotion` take their settings from `DefaultSettings` |
| `PacketPipelineProofs` | type correctness, ownership and heap invariants, the order of commands, one parser task after an exchange; the pipeline implements the channel | `PacketPipeline` |
| `ByteStreamProofs` | the UART2 framing does not depend on the reads; `pb_decode` and its callbacks keep their streams in step, end, and fill in values of the fields' types, for every input | `Uart2Framing`, `ProtoDecode` |
| `TcpServerProofs` | the client table, `recv` without blocking, replies that stray | `TcpServer` |
| `SettingStoreProofs` | what runs is what is stored, what damages the file | `SettingStore` |
| `ExecutorLifecycleProofs` | one timer, whose executor the shared state belongs to | `ExecutorLifecycle` |
| `CanBusProofs` | who holds the locks, which tasks exist, frames counted once | `CanBus` |
| `EventLoopProofs` | the client list, what clients and LED show, the web server | `EventLoop` |
| `AxisMotionProofs` | where the axis is sent and how fast, the pulses, Handy positions | `AxisMotion` |

The models meet where the code does: `PacketPipeline` treats a read of an input
as one choice of source, `TcpServer` and `Uart2Framing` say which packets those
reads produce; `SettingStore` treats the exchange of `g_executor` as one step,
`PacketPipeline` splits it into the steps of `unique_ptr::reset`, and
`ExecutorLifecycle` follows the constructor and the destructor on both sides of
it, for one task at a time. `CanBus` repeats the exchange for SR6CAN executors
only, with what `ExecutorLifecycle` leaves out: the receivers, the statistics
and the locks they share with a cycle of several motors. `AxisMotion` is what
happens between `ParserPreprocess` of the pipeline and `ExecutePwm` of the
lifecycle. `EventLoop` has the queue that `ExecutorLifecycle` floods, with the
handlers of the other events; `SettingStore` says which Wi-Fi configuration
runs, `EventLoop` what becomes reachable through it. `SettingStore` calls a file
that does not decode `Torn`; `ProtoDecode` says which files those are, and which
commands the packets of the Handy task hold.

### PacketPipeline

Every task has a program counter `pc[t]`; an action is the code between two
points at which another task can run and see a difference. An input is
`AllocPacket` (malloc of the packet), `AllocData` or `AllocDataFails` (its data
and, for UDP, the address block; all is freed on failure), then `Send` or
`SendTimeout` (`xQueueSend`; the packet is freed on failure). The seven
handlers are the seven disjuncts of `Receive`; they differ in their task and in
the address block. A failed malloc of the packet itself changes nothing.

A parser is `ParserLoop` (look at the run flag), `ParserReceive`
(`xQueueReceive`), `ParserPreprocess` (apply to tcode), `ParserSkip` (data
without a payload, or `D1` on an input that has no answer) or `ParserReply`,
`ParserFree`. An answer to `D1` is a state of its own, which `ParserReplyEnds`
leaves; over TCP and UDP it waits for `lwip_mutex` and, over TCP, for a `send`
without a timeout. `applied[e][t]` keeps the last packet of task `t` that
reached the tcode of executor `e`.

A settings write is `CreateExecutor` / `CreateNothing` / `ConstructorThrows`,
then `LoadOld`, `StoreNew` (the two halves of `unique_ptr::reset`), then
`StopParser` (clear the flag) and `DeleteParser` (`vTaskDelete`, wherever the
parser is; its packet leaks). `raced` is a history variable: a store has
overwritten a pointer its task had not read, that is, two exchanges overlapped.
After that a second destructor may run on one object, which is undefined
behaviour; the outcome modelled is that it finds the flag already cleared.

### TcpServer

`sock` is the socket table (lwIP hands out the lowest free descriptor),
`clients` the used part of `tcp_client_fds`. `Select` takes the two snapshots
`read_fds` and `client_count`; `HandleNewClient` accepts, or accepts and closes
when the table is full; `Scan` picks the first readable slot and breaks;
`RecvData`/`RecvEnd`, `PushPacket` and `RemoveClient` are
`tcp_server_handle_client_data`. The parser answers `D1` in `LockForReply` and
`SendResponse`. The socket blocks and has no send timeout: if the connection has
no `room` for the reply, because its peer has not read for a while,
`SendResponse` waits with `lwip_mutex` until the peer reads (`PeerReads`) or
closes. `ReplaceExecutor` deletes the parser task, with `lwip_mutex` if it is
inside `send`: the mutex is then locked for ever (`lock = "deleted"`). Peers are
external: they connect, send, read and close at any time. That two parser tasks
overlap during an exchange is in `PacketPipeline` only.

### Uart2Framing

One action, `HandleData`: the bytes of a read that fit are appended
(`Fits`), the buffer is cut at its newlines, a carriage return at the start of a
line is stripped, empty lines are dropped, the rest stays in the buffer. The
loop over the buffer is `Scan`, a step of it `ScanByte`.

### SettingStore

Of a setting four things are kept: its Wi-Fi part, whether its MODE is known and
its actuators can be configured (`mode`), whether its decoy pins and its mDNS
name are valid. `Refused` are the Wi-Fi configurations the driver does not take,
such as an access point's password of fewer than 8 characters. The default
setting is that of any build: also one whose MODE is unknown. `file` is absent,
a setting, or `Torn` (empty or incomplete, does not decode). `boot` follows
`app_main`: `SettingInit`, `SaveDefault`, `DecoyInit`, `WifiInit`, `InitMdns`,
`LoadSetting`, `CreateFirst`; an uncaught exception or an `ESP_ERROR_CHECK` is a
restart, so a refused configuration or name is one, too. A settings write is
`BeginWrite` (load the old setting, decode the new one), `OpenFile` (truncates),
`WriteFile` / `FlushFails` / `WriteIsShort`, `CreateExecutor` / `CreateThrows`,
and, if the Wi-Fi part differs from the old file's, `StopWifi`/`StopFails` and
`StartWifi`/`StartFails`: here a refused configuration leaves the driver
stopped. Two endpoints that have the file open together leave either content or
a mixture (`shared`). `alone` and `doubt` are history variables: the change no
other has overlapped, and the parts (executor, Wi-Fi) an overlap or a failure
has left undetermined until the next change that rebuilds them alone.

### ExecutorLifecycle

`pc` is where the task that replaces `g_executor` is: the base constructor
(`BaseConstruct`, which starts timer and tasks, or `BaseThrows`), the derived
one (`EnterDerived`, `ConfigurePwm` or `ConfigureCan`, `Constructed`, or
`DerivedThrows`), `Store`, the derived destructor of the old executor
(`DestroyPwm`, `DestroyCan`) and the base one (`EnterBaseDestructor`,
`StopTimer`, `DeleteTask`). `phase[e]` says which class the virtual functions of
`e` belong to; a tick that calls a pure virtual `compute()` is a `Restart`. An
executor task is `Take`, `Post` (the four events of a cycle, each with an
unlimited wait), `Compute`, `ExecutePwm` or `ExecuteCan` with `Send`.
`driver[k]` is the executor that commanded the outputs of kind `k` last, 0 if a
stop came after it. The event loop is `HandleEvent` and the post of the
statistics, `PostStats` or `PostStatsTimeout`. A task deleted while it holds
`MIT::mutex` leaves it `Lost`.

### CanBus

A sender (the task of an executor, or the settings write in a constructor or a
destructor) sends one command per motor: `Command` takes `MIT::mutex`,
`Transmit` or `TransmitTimeout` is `twai_transmit`, `LockStats` and `EndCommand`
count the frame under `stats_mutex`, in a read and a write. A receiver is
`Receive`, `LockStats`, `EndReceive`, and `LockFeedback`/`StoreFeedback` for a
frame that carries a position. The bus-load task is `MonitorLock` (snapshot),
`MonitorReset`, which ends in the destructor of the guard called by hand, and
`MonitorReport`, whose end of scope unlocks a second time. Unlocking a mutex of
another task is undefined; the outcomes modelled are no effect, the owner loses
it (`stolen`), or a failed assertion (`UnlockFails`). `Delete` is
`vTaskDelete`: locks of the task stay with `Lost`. `unreported` is a history
variable, the frames a correct count has still to report.

### AxisMotion

Digits are what they are read as, a number and the power of ten above it
(`DigitsType`). `Match` makes a fraction of them and wraps the interval to 16
bits; `Store` is `processToken`; `ParseHandy` prints the position of a Handy
client first (`Rounded`, `Printed`). The executor task reads the clock, the
letter and then the fields one by one, in any order (`StartCompute`,
`ReadType`, `ReadField`): the parser's task has the higher priority on the only
core, so a command is stored whole between two of these steps. `EndInterpolate`
and `Execute` are the arithmetic, in thousandths, down to the width of the
pulse. An LEDC channel gets it as a whole number of duty steps of 14 bits
(`targetToDuty`), computed for the frequency its actuator was given; what comes
out (`OnTime`) depends on the one timer all of them set. Limits, scale and zero
are any integers; with floats that compute to NaN (`number` is FALSE) the width
is anything. An RMT channel has a queue (`TransQueueDepth`, 4 in the code) of
transmissions that point to the `pulse_width` of the call that made them
(`Transmit`), and encodes each when the one before has ended (`TransmitNext`,
`Symbol`); what it finds then is `width`. `hull`, `smooth`, `asked`, `at`,
`executed` and `late` are history variables the properties compare with.

### EventLoop

`queue` is the queue of the default event loop; `Handle` takes its head and runs
the handlers of that event in order of registration (`HandleUsb`: the LED, then
the broadcast). A broadcast is `LockClients`, `SendNext` or `SendFails` per
client, `EndBroadcast`. The driver owes events (`owed`) and posts them in order.
`WifiInit`, `StopWifi` and `RestartWifi` are `wifi_init` and the two halves of
`wifi_reconfigure`; `boot` is the mode `wifi_init` created interfaces for.
`RestartFails` leaves the driver stopped, in the old mode or already in the new
one (`mode`, `running`). `StartServer` may fail; `failed` remembers at which
event. httpd does one thing at a time: `Accept`, `Handshake`, `ReadForClient`,
`Answer`, `CloseFrame`, `EndSession`. The branch for CLOSE is reached only if
httpd hands control frames to the handler; a session that ends any other way is
`EndSession`. `missed` keeps who may not know the last USB state and why, `left`
the listed sockets whose session ended without CLOSE, `owner` who set the LED
last.

### DefaultSettings

One record per function of `setting_config.cpp`, written as differences from
the first. `ModeOf` is what `ExecutorFactory` and the actuators make of a table:
an executor, `nullptr` (modes 1, 2 and 7, which some builds have by default) or
an exception.

### ProtoMessages, ProtoEncode and ProtoDecode

Integers are words of ten groups of seven bits, as a varint carries them; floats
and doubles are their bytes. `FieldList` gives each message its fields as the
generated descriptors do, `Encode` is what `pb_encode` writes, `default_setting`
the setting of a new device. `ProtoDecode` is a stack machine: `frames` is the C
stack of one decode, a frame a call of `pb_decode_inner` or of a callback of
`handy_task` with its own stream (pointer `at`, count `left`), a step one field.
`ReceiveSetting`, `ReceivePayload` and `HandyQueueFull` say how much of the
input arrives. A field is `SkipUnknown`, `DecodeStatic`, `OpenSubmessage` or
`OpenCallback`; the end of a message is `MissingField`, `Decoded` or
`CloseSubmessage`. The callbacks are `OtherMessage`, `OpenLinearCmd`,
`CloseLinearCmd`, `OpenVector`, `SendVector` or `VectorRefused`. `Fail` unwinds
the stack to the call that looks at the result, which for a `LinearCmd` is the
callback for messages, not the caller of `pb_decode` (`abandoned`). That
callback ignores a failure of `pb_make_string_substream`. With a length that is
too large it goes on in a copy of its stream, whose bytes the stream itself goes
on counting (`overrun`), and later reads what is `Behind` the payload in memory,
any sequence of bytes over and over; without a length the copy is uninitialised,
and the decode ends as `undefined`.

## 3. Runs

| Run | Question | Bounds and why they are enough |
|---|---|---|
| `pipeline_inputs` | Do seven inputs with their error paths keep the heap accounted for and each input's commands in order? | queue of 2, 3 packets: full, partly full and empty queue, a packet in the queue, one in the parser and one being prepared at the same time |
| `pipeline_replace` | Does replacing the executor under load keep one owner per packet, one parser, and strand nothing? Is the whole a bounded at-most-once FIFO channel? | queue of 1, 2 packets, 2 executors, one endpoint that races `app_main`: the shortest history with an overlap (`raced`), a packet in a deleted parser, and an input on the endpoint's own task |
| `tcp` | Is the client table the socket table, is `recv` never called where it would block, are waiting peers answered and first-slot descriptors returned, also if a peer does not read its reply? | table of 2, 3 peers (one is rejected, a descriptor is reused, two contend), queue of 1 (full), one replacement |
| `tcp_reply` (violation) | Does a `D1` reply reach the one that asked? | as above without a replacement |
| `uart2` | Does framing depend on how bytes are cut into reads? | buffer of 4, 7 bytes of 3 kinds in every cut: longer than the buffer, so overflow and several lines in one read occur |
| `settings` | Is what runs what is stored? When can the file be damaged? Does the boot end? | 3 writes over 2 endpoints (an overlap and a repair), 2 faults (one inside the recovery of the other), 6 settings: default ones of three builds, one of them of an unknown MODE, without Wi-Fi or with a refused mDNS name, and one for each other reason a boot can end |
| `settings_flush` (violation) | Is a write error always reported? | 1 write, 1 fault, 1 endpoint |
| `lifecycle` | When an exchange is over, does only the installed executor tick, does it drive its outputs, does the exchange end, can the event loop wait for itself? | 2 executors of either kind: each can fail, replace the other or be replaced by `nullptr`; event queue of 1 (full or empty) |
| `can_bus` | Is each lock held by the task inside, does no task outlive its executor, are frames counted once? Do settings writes, the installed executor and its feedback get through the three locks? | 2 executors (two receivers share the bus, the old one is deleted anywhere), 1 motor per cycle, 2 sent frames and 1 received one between two reports: a lost count needs two |
| `axis_motion` | Does the axis stay within what was commanded, without jumps, and the pulse within the servo's range? Does a Handy position survive? | 2 commands, 4 milliseconds, moves of 3 or (wrapped) 0 milliseconds, from the middle to an end or to a position of a Handy client; servo D of the default OSR with limits, reversed, shifted and scaled so that targets leave the range, with a setting that computes to NaN, and on a timer of another frequency; servo G of the default SR6 on RMT, beside a timer of another frequency, one transmission waiting at most: a cycle can be late, the queue full |
| `event_loop` | Do the client list, the LED and the web server follow the events, whatever is lost, early or late? | queue of 2 (full, partly full), 2 sockets, 2 changes of the USB host, 1 reconfiguration; every pair of modes without clients, clients with the access point alone (`Focus`); sockets are symmetric |
| `wire` | Does a setting survive encoding and decoding? Is only a complete one taken? Do the streams of a nested decode agree, does every step use up bytes or end a call, and does every value fit its field? Which commands does a payload make? | the zero setting cut off at every byte; the setting whose fields are all longest; different values, backwards and between unknown fields of every wire type; every required field of every message missing; the default setting of every build; a number of 33 bits, a string too long, a tag of zero; Handy payloads with one, two and no `LinearCmd`, a wrong field, a scalar message, a `Ping` with an unlucky id and one whose contents are a `LinearCmd` with a length that is right or, cut off, too large, more bytes than a write may have; each vector accepted or refused |

`MaxPacket`, `MaxExecutor`, `MaxReplace`, `MaxFault`, `MaxInput`, `MaxFrames`,
`MaxTime`, `MaxCommand`, `MaxChange`, `MaxReconfigure` and, in `SettingStore`,
`MaxWrite` are bounds of the model, each a guard of the action it limits.
`QueueSize` (20; 32 in `EventLoop`), `EventQueueSize` (32), `MAX_CLIENTS` (5),
`UART2_BUF_SIZE` (512) and `TransQueueDepth` (4) are constants of the code made
smaller; `MaxWrite` in `ProtoDecode` is the code's own limit of 256 bytes.
`wire` checks for deadlock as well: a decode never stops in the middle. Every
other run disables TLC's deadlock check, because behaviours stop when a bound is
used up, and because the system itself may rest: with no input everything waits.

What the passing runs show that is not obvious from the code:

- `SingleOwner`, `HeapAccounted`: despite seven copies of the error handling and
  tasks deleted anywhere, the only packet memory ever lost is the packet held by
  a parser that is deleted.
- `SingleConsumer`: two parsers live during an exchange and one after it, but
  only unless two exchanges overlapped. If they did, two parsers may live for
  good; the code has no lock against it.
- `AcceptedTaken`: an accepted packet is taken whenever some executor is
  installed; with an unsupported MODE (`nullptr`) it waits for the next write.
  The exception (`Replying`) is an installed parser that never comes out of an
  answer to `D1`: behind a TCP peer that does not read, or `lwip_mutex` lost
  with a deleted parser, packets stay in the queue.
- `PendingAnswered` and `FirstSlotReleased` carry the exception `Blocked`:
  `lwip_mutex` lost with a deleted parser, or held in a `send` to a peer that
  does not read. Both are reachable, and the code has no defence against them.
  Only the first slot has a guarantee, since the loop serves the first readable
  client and breaks.
- `FramingIgnoresReads`: the lines do not depend on how the bytes were cut. What
  the model also shows is that an unfinished line that fills the buffer blocks
  the input for good: the newline that would end it is discarded with the
  overflow.
- `Applied`, `DamageNeedsFault`, `BootsUnlessUnbootable`: what runs is what is
  stored except after an overlap or a failure, and the exceptions are real. With
  no hardware fault at all, `app_main`'s last load (`main.cpp:168`) can meet a
  half-written file, throw, and leave the device restarting for ever on it. A
  setting with negative decoy pins, an unusable PWM frequency, a Wi-Fi
  configuration the driver refuses or a refused mDNS name is stored before it is
  tried and does the same (`Bootable`).
- `OneTicker`, `SharedSetForCurrent`, `DrivenAgain`: although the old destructor
  runs after the new constructor and shuts the same channels, the next tick of
  the new executor drives them again. On the way the run reaches the restart of
  a tick that comes before the derived constructor has begun. The exceptions are
  real: after a constructor that threw, the event handler's argument and the
  frequency of `LEDC_TIMER_0` are those of an executor that no longer exists.
- `ReplacementEnds`: a settings write ends unless a task was deleted while it
  held `MIT::mutex`; then the next SR6CAN constructor blocks for good.

- `CommandsInOrder`: two parsers take packets during an exchange, but each
  writes to the axes of its own executor, and never an older command of a task
  over a newer one.
- `LocksHeld`, `NoStrayTask`: a task deleted inside critical sections leaves
  exactly their locks to nobody; destructors and failed constructors delete
  every task they have to.
- `CanExchangeEnds`, `InstalledDrives`, `FeedbackStored`: the old receiver, the
  statistics and a cycle that holds `feedback_mutex_` over all motors cannot
  lock each other out, unless a deleted task left `MIT::mutex` or `stats_mutex`
  (`Stuck`, reachable). `FramesCounted`, and what `LocksHeld` says of
  `stats_mutex`, end where the second unlock has taken it from another task
  (`stolen`, reachable).
- `PositionWithinCommands`: a torn pair of commands keeps the axis within the
  positions commanded; a command stored after the interpolation has read the
  clock does not (it extrapolates backwards), and `setTarget` alone limits it.
  `NoJump` needs moves that follow each other, and allows for the rounding of a
  division, one thousandth; `I65536` is not one, its duration
  wraps to 0. `HandyHeard` is false for positions from 0.001 to 0.099.
- `PulseInRange` holds for every pair of frequencies: on LEDC the pulse is the
  500 to 2500 microseconds scaled by the ratio of the actuator's frequency and
  that of `LEDC_TIMER_0`, less at most a step of the duty, which is rounded down
  (499 microseconds at 50 Hz). It holds on RMT as long as cycles are further
  apart than a pulse is long, and says nothing of settings that compute to NaN,
  which passes every limit. So the headers of the actuators, which promise 500
  to 2500 microseconds, are wrong in two cases the run reaches. Every LEDC
  actuator sets the one `LEDC_TIMER_0`: a constructor that sets another
  frequency and throws leaves the servos of the installed executor with scaled
  pulses. And `rmt_transmit` is given a pointer to a local variable: after a
  cycle that comes within a pulse (`late`) the next transmission waits, and when
  it is encoded the width is whatever is on the executor task's stack.
- `ListMatchesSessions`: an entry of the broadcast list can be stale only if its
  session ended without CLOSE. `ClientsKnowUsb` and `LedTellsUsb`: nobody keeps
  an old USB state but after a post that timed out, or when the state changed
  during the handshake or while `app_main` showed it. After a Wi-Fi error even
  USB states are shown in red until the station has had an address, and an
  address sets the LED solid whatever the USB host does.
- `ServedWhenReachable`: with a station beside the access point, the web server
  waits for the station's address; a reconfiguration to a mode whose interface
  `wifi_init` did not create never gets one (`HasStation(boot)`, `HasAp(boot)`).
  A failed `httpd_start` is excepted (`failed`): with the access point it is
  tried again at the next event, with the station's address never, because
  `http_server_started` is set all the same.

- `SettingSurvives`, `OnlyComplete`: every setting, the longest included, fits
  the buffer of 1086 bytes and comes back, and no cut of the bytes is taken for
  a shorter setting. All fields are required: a file of a firmware that did not
  have one of them yet is refused, and the device restarts on it for ever
  (`main.cpp:168`, see `Applied`). A body or a write that arrives in pieces is
  cut after the first (one `httpd_req_recv`, one `mbuf`), and is refused for
  that reason.
- `StreamsAgree`, `VectorsInOrder`: they hold until a `LinearCmd` is given up
  (a full receive queue is enough). The error leaves the substream of its
  vectors unclosed, and the callback goes on at bytes already read but with the
  count of those that follow, so that later messages of the payload are lost;
  nothing is repeated, reordered or read past the end. A vector whose fields
  are all zero is an empty field and makes no command. The callback for other
  messages is called again until their bytes are used up and takes their
  contents for tags: the id 3226 of a `Ping` is encoded as `9A 19`, the tag of
  a `LinearCmd`, whose length is then missing, and an uninitialised stream is
  decoded (status `undefined`, where the run stops: no outcome of it can be
  listed). With a length that is too large the callback goes on in a copy of its
  stream and the stream goes on counting the same bytes, so that as many are
  decoded again from behind the payload (`overrun`, which the run reaches).
  These two properties are about all other payloads.
- `DecodingProgresses`: the callback for messages is called again as long as its
  stream has bytes, and a failed `LinearCmd` sends its stream back to bytes
  already read; both end all the same, also past the end of the payload: the
  count of bytes left only falls, and a call nested in another, of which there
  are at most five, starts anew only after the one below has used up bytes.
  `ValuesFit`: a string field of 65 bytes takes 64 and its terminator; a 32-bit
  integer takes the low half of what arrives, sign-extended.

Findings (runs that end in a violation):

- `tcp_reply`: `client_fd` is used after the queue, when its connection may have
  closed and another one may have been accepted on the descriptor.
  `MisdeliveryNeedsClose` shows it takes a close. A long stay in the queue is
  realistic: there is no reader at all while `g_executor` is `nullptr`.
- `settings_flush`: `saveToFile` looks at `fwrite` only; an error of `fflush` or
  `fclose`, which do the writing, is reported as success.

Every property of a passing run has a mutant in `PROJECT.json`: a plausible bug
in a mapped definition that makes TLC find the property violated.

## 4. Fairness

- `PacketPipeline`: weak fairness of each parser's steps but the end of an
  answer to `D1`, which needs others. `parser_task` has the highest priority of
  the application's tasks and none of the others spins. Inputs and settings
  writes are not fair: they may stop at any time.
- `TcpServer`: weak fairness of the parser task; strong fairness of the select
  task, because it can be blocked again and again by `lwip_mutex`, which
  FreeRTOS hands to the highest-priority waiter, and the parser, the only other
  user, waits on the queue between two replies. Peers are not fair: they need
  not read a reply, and `send` ends only if they do or close.
- `SettingStore`: weak fairness of `app_main`, which waits for no other task.
  Settings writes and faults are not fair.
- `ExecutorLifecycle`: weak fairness of the timers (hardware) and of the event
  loop (priority 20); strong fairness of the executor tasks and of an exchange
  that has begun, because `MIT::mutex` and the room in the event queue come and
  go: both wake their waiters by priority and then in order of arrival, and they
  are held for one frame or one event. Strong fairness of `Send`: the CAN bus
  does not refuse every frame. Settings writes do not have to begin.
- `CanBus`: strong fairness of each executor task, receiver (once it has a
  frame), the bus-load task and an exchange that has begun, for the same reason:
  a mutex is handed to a waiter. That motors answer, or that a frame is
  accepted, is not assumed.
- `AxisMotion`, `EventLoop`, `Uart2Framing` and `ProtoDecode` are checked for
  safety only (`ProtoDecode` for deadlock too); nothing in them is fair.

## 5. What is proved

From the named assumptions on the constants only: inputs and endpoints are some
of those that exist, bounds are natural numbers, queues and tables have room for
something. So they hold for every choice of inputs, endpoints, settings and
peers, every length of a queue, and any number of packets, executors, writes and
faults:

| Module | Theorem | Statement | Argument |
|---|---|---|---|
| `PacketPipelineProofs` | `TypeCorrect` | `Spec => []TypeOK` | `TypeInv`: `TypeOK`, and a task between allocation and send holds a packet |
| | `OneOwner` | `Spec => []SingleOwner` | `IInv`, below |
| | `NoOtherLeak` | `Spec => []HeapAccounted` | `IInv` |
| | `InOrder` | `Spec => CommandsInOrder` | `OrderInv`, below |
| | `ImplementsChannel` | `Spec => ChannelSpec` | each action maps to `Offer`, `Accept`, `Refuse`, `Take`, `Finish` or a stutter under `IInv` |
| | `OneConsumer` | `Spec => []SingleConsumer` | `ExchangeInv`, below |
| `ByteStreamProofs` | `Uart2TypeCorrect`, `NoLineIsKept`, `NeverOverflows`, `ReadsDoNotMatter` | `Uart2Spec => []Uart2TypeOK`, `[]UnfinishedLineFits`, `CopyFits`, `[]FramingIgnoresReads` | `FramingIInv`, below |
| | `StreamsStayInStep`, `DecodingEnds`, `DecodedValuesFit` | `Spec => []StreamsAgree`, `DecodingProgresses`, `[]ValuesFit` | `DecoderIInv`, below |
| `TcpServerProofs` | `TypeCorrect`, `TableIsSockets`, `RecvReady`, `OnlyLateRepliesStray` | `Spec => []TypeOK`, `[]TableMatchesSockets`, `[]RecvDoesNotBlock`, `[]MisdeliveryNeedsClose` | its `IInv`, below |
| `SettingStoreProofs` | `TypeCorrect`, `StoredIsApplied`, `DamageExplained` | `Spec => []TypeOK`, `[]Applied`, `[]DamageNeedsFault` | its `IInv`, below |
| `ExecutorLifecycleProofs` | `TypeCorrect`, `OnlyCurrentTicks`, `SharedStateFollows` | `Spec => []TypeOK`, `[]OneTicker`, `[]SharedSetForCurrent` | its `IInv`, below |
| `CanBusProofs` | `TypeCorrect`, `LocksAreHeld`, `TasksHaveExecutors`, `FramesAreCounted` | `Spec => []TypeOK`, `[]LocksHeld`, `[]NoStrayTask`, `[]FramesCounted` | its `IInv`, below |
| `EventLoopProofs` | `TypeCorrect`, `ListIsOfSessions`, `ClientsAreTold`, `LedIsTold`, `ServerIsStarted` | `Spec => []TypeOK`, `[]ListMatchesSessions`, `[]ClientsKnowUsb`, `[]LedTellsUsb`, `[]ServedWhenReachable` | its `IInv`, below |
| `AxisMotionProofs` | `TypeCorrect`, `StaysWithinCommands`, `PulsesInRange`, `HandyIsHeard`, `NeverJumps` | `Spec => []TypeOK`, `[]PositionWithinCommands`, `[]PulseInRange`, `[]HandyHeard`, `NoJump` | its `IInv`, below |

The `TypeOK` named here are proved and not checked again by a run, nor are
`UnfinishedLineFits` and `CopyFits`, which follows from it. In the last three
modules the theorem `Invariants` is that the whole of `IInv` holds, and in
`ByteStreamProofs` `DecoderCorrect` is that `DecoderIInv` does; the others
follow from it.

`SingleOwner` and `HeapAccounted` are not inductive alone: a state in which a
parser without a packet is about to free one, or in which a packet not yet
allocated has blocks, satisfies them and breaks them in one step. `IInv` adds
`PointersBuilt` (no pointer to an executor not yet built), `ParserHolds` (a
parser has a packet exactly between receiving and freeing it, unless deleted)
and, in `PacketInv`, that ids not yet allocated are nowhere and hold nothing
and that what a task is sending is complete.

`CommandsInOrder` compares two states. `OrderInv` says why a packet a parser is
about to apply is not older than what it applied before: packets of a task are
numbered in the order of their allocation, and each is newer than those of its
task that any parser has applied or holds (`NewerThanHandled`) and than those
before it in the queue (`NewerThanQueued`). It is proved for any number of
executors and replacements; the run that checks it has one executor.

`SingleConsumer` speaks of rest states only. `ExchangeInv` says what holds in
between: a new executor is known to its builder alone until it is stored; a
task that destroys has a pointer; the run flag is cleared before the task is
deleted; and, unless a pointer was lost (`raced`), destructors run on distinct
executors other than `g_executor`, every executor somebody still points to runs
its parser, and every live parser belongs to an executor somebody points to.
`LoadOld` followed by another task's `StoreNew` is the step that would break it;
there the second store sets `raced`.

`TableMatchesSockets` alone does not survive a turn of the select task, which
works with snapshots. The invariant of `TcpServerProofs` adds `ScanInv` (what
the snapshot lists is still open and would not block; the slots it counts are
still there), `FdInv` (the descriptor being handled is in the table, and its
socket is open until the task has closed it), `AnswerInv` (a query waiting in
the queue or at the parser is on the descriptor of the one that asked, or that
one has closed) and `ReplyInv`. The free descriptor of `accept` and the ready
slot are least elements of sets of numbers, which exist by `LeastNatural`, from
the library's well-founded order on finite sets.

`Applied` speaks of states in which nothing is being changed. The invariant of
`SettingStoreProofs` says how it gets there: at most one change runs alone, and
changes that overlapped leave everything in doubt (`AloneInv`); a change that
runs alone has got as far as its program counter says (`BootingInv`,
`WritingInv`: the file is the old setting, torn, or the new one, and executor
and Wi-Fi follow one after the other); what runs is what is stored at rest
(`QuietInv`). `SharedInv` and `DamageInv` do the same for a damaged file,
`BootInv` and `StartInv` for what the boot has reached and for the
configuration handed to the driver.

`OneTicker` speaks of the moments after an exchange. The invariant of
`ExecutorLifecycleProofs` says that what is built, destroyed and installed are
different executors and which of their timers and tasks exist at each step
(`LifeInv`), and that event handler and LEDC timer are those of the executor
built last unless its constructor threw (`SharedInv`).

`FramesCounted` relates a history to counters that several tasks update in two
steps. The invariant of `CanBusProofs` adds what makes the two steps one:
`LocksHeld`, and in `StatsInv` that whoever owns `stats_mutex` has read what the
counters still hold. `ExchangeInv` and `TaskInv` say which executor the settings
write is at and which tasks exist then, so that a deletion takes back the frame
of exactly one task (`PendingAdded`, `PendingRemoved`, on cardinalities).

`ByteStreamProofs` is about functions defined by recursion over the bytes: the
loop over the UART2 buffer, the byte-wise decoder, the sums of a stack. Such a
function is a CHOOSE, and says something only once a function with its equations
is known to exist: `Follows`, from the existence for every shorter length. The
induction is done with sets: a set of numbers that holds 0 and, with a number,
the next one, holds all of them, because a least number outside it would exist
(`InductionUpTo`, from the library's well-foundedness of `<`).

`FramingIgnoresReads` compares the packets of all reads so far with the
byte-wise decoder of all bytes that fitted. In its invariant the unfinished line
is what the decoder is in the middle of (`FramingIInv`); a read then continues
the decoder, which after the first bytes of a longer sequence is where it was
after those bytes alone, and the scan of the buffer reaches the same packets and
the same start of a line byte by byte. It holds for buffers and reads of any
length.

For `ProtoDecode` the input is any sequence of bytes, and any of the cuts it may
have. `StreamsAgree` is not inductive: an error takes frames off and goes on
with one in the middle of the stack. `StackIInv` therefore says of every frame
that its stream, with all that is still counted below it, ends inside the input
(`Kept`), that it is a call its caller can make, of the type its caller's field
names (`Decodes`), and that the pointer below a copied scalar is past it; and,
until a `LinearCmd` is given up, that the innermost pointer is at the first byte
not read (`InStep`). A `LinearCmd` with a length that is too large moves that
end (`Aligned`), to wherever it is going to be read. All actions put one frame
on what is left of the stack after some have been cut off (`Pushed`, `IsCut`).
Each leaves fewer bytes in some call and those below it alone, or takes calls
off (`Shrinks`, a lexicographic order); that the stack is at most five deep
(`Shallow`), which makes this order well-founded, follows from the level each
type of call has in `Decodes` (`Nested`). `Values` says that a result, and every
vector sent, is a value of its type; it rests on `IsFrame`, by which the struct
of every frame is one at every moment, also half filled in, and on what each of
the readers of `pb_decode` returns for any stream.

The properties of `EventLoop` speak of moments at which nothing is on its way.
The invariant says what is true before: the last USB event in the queue, or the
one the timer has still to post, tells what the monitor has last seen
(`UsbInv`); clients the broadcast has passed have heard it (`ClientInv`); the
LED shows it from the last step of `app_main` on (`LedInv`); and the Wi-Fi event
that starts the web server is on its way until the server is on or has failed to
start (`ServedInv`).

In `AxisMotion` the fields of a command are read one by one while another can be
stored. `ReadInv` keeps each field that has been read within the commands so
far, and a torn move to one that has its starting point or needs none; that the
interpolation stays between its ends is `PartOf`, on integer division. `NoJump`
takes the longest way: while no command could make the axis jump, the axis is on
the current move or at most as far behind its start as the time since then
allows (`OnMove`, `BehindMove`); a step of the axis is then along one move, or
up to the end of one and along the next. `ChannelInv` says that an RMT channel
used in time has nothing waiting. `PulseInRange` is arithmetic on the rounded
duty (`Duties`, `OnTimes`). Digits are any natural numbers, scales, zeros and
limits any integers.

## 6. What is only model-checked

Liveness (`AcceptedTaken`, `PendingAnswered`, `FirstSlotReleased`,
`BootsUnlessUnbootable`, `DrivenAgain`, `ReplacementEnds`, `LoopGoesOn`,
`CanExchangeEnds`, `InstalledDrives`, `FeedbackStored`): fairness and ENABLED
are out of the prover's reach. Every safety property of a passing run is proved
except `SettingSurvives`, `OnlyComplete` and `VectorsInOrder`. These compare
what is decoded with what somebody meant to encode, and the theorems about the
decoder are about bytes that nobody encoded: for these three `wire` is a test of
chosen inputs, each in every cut and with every refusal, not a statement about
all of them. A proof would need the inverse of `pb_encode`, which is a RECURSIVE
operator in `ProtoEncode`: modules with proofs reach none, so that one is kept
out of `ProtoMessages` and `ProtoDecode`, where messages nested three deep are
written out. `DecodingProgresses` says that a decode makes finitely many steps;
that the next one is made is the task's fairness and is not stated.

## 7. Not modelled, and abstractions to know

- Kinematics other than the twist axis of OSR and SR6, geometry, PID, voltage
  and CPU statistics: floating-point code without shared state, or reports
  only. The TrR Max executor's zero is applied twice, by its kinematics and by
  the actuator. LEDC, RMT, SPI and CAN transfers: peripheral I/O. BLE/GATT,
  HTTP routing, static files, mDNS, SPIFFS: set-up of libraries outside the
  repository.
- Of nanopb, arrays, extensions, oneofs, pointers, default values and stream
  callbacks are left out: no message of the firmware has them. The answers of a
  Buttplug server (`handy_handler.cpp`) are encoded and sent, and keep no state.
  `handy_queue` is full or not.
- `select_stop`, `tcp_server_stop` and `tcp_server_close_client` are not called
  by anything and are left out.
- Allocation failures of one packet are all or nothing per step; a parser
  deleted inside its frees is modelled as deleted before or after them.
- A parser that leaves its loop deletes itself; the freed control block that a
  later `vTaskDelete` would use is not modelled (listed as a hazard).
- In `PacketPipeline` a throwing constructor in `app_main` (a restart) is left
  out; `SettingStore` has it (`CreateFirst`).
- In `SettingStore`, that an actuator cannot be configured is a property of the
  setting. On the chip it also depends on the RMT channel the old SR6 executor
  still holds; in `ExecutorLifecycle` that is one of the causes of
  `DerivedThrows`.
- In `SettingStore` `wifi_init` and `init_mdns` abort for what is stored or for
  a reason of the moment (`Restart`); which configurations and names the
  libraries refuse is a constant. In `EventLoop` such an abort is a restart,
  which is not followed.
- In `AxisMotion` floats are thousandths, and infinite ones are among those that
  compute to NaN.
- In `ExecutorLifecycle` one channel stands for all of a kind, and one frame for
  the six of a cycle; exchanges do not overlap and there is no parser task (both
  are in `PacketPipeline`); the task that receives motor feedback is in
  `CanBus`. An actuator used while it is destroyed is undefined: the output
  keeps its state or the CPU restarts. The event handler reads one pointer, the
  log tag, of its argument; reading it from a destroyed executor is not a state.
- `loadFromFile` closes its file a second time when decoding throws; with no
  other task in between this has no effect, and only that case is modelled.
- In `CanBus` the timer of an executor is its fairness, a frame's content is
  only whether it carries a position, and a restart forgets the bus. Parameter
  queries (`MIT::wait_response`) and `TWAI::stop` are not called.
- In `EventLoop` a session is closed, HTTP or `/event`; texts, statistics and
  executor events are one kind of event; `led_init` and the first USB state are
  in `Init`; the LED's timer draws what mode and colour say (`showErrorCode(0)`
  would take its mutex twice; nothing calls it with 0). A station that
  loses its access point stays lost, as in the code.
- A setting written again after its Wi-Fi reconfiguration failed is not applied,
  because it no longer differs from the stored one: `doubt` keeps such states
  out of `Applied`.

## 8. Plan

Done, in this order: `CommandChannel` and `PacketPipeline` with their proofs,
`TcpServer`, `Uart2Framing`, `SettingStore`, `ExecutorLifecycle`, `CanBus`,
`AxisMotion`, `EventLoop`, `DefaultSettings`, the `Proto` modules, and the
proofs of `SettingStore`, `TcpServer`, `ExecutorLifecycle`, `CanBus`,
`EventLoop`, `AxisMotion`, `Uart2Framing` and `ProtoDecode`. Next:

1. Proof: that the exchange of `PacketPipeline` is the one step `SettingStore`
   makes of it.
2. `handy_queue` and the Handy task as a bounded channel, composed with the
   payloads of `ProtoDecode`.
3. How the LED timer draws a mode; the integrator of the O6 PID.
