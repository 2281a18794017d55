# A specification of the PoE Ethernet GPIB adapter firmware

This directory holds TLA+ specifications of the firmware in `SW/src`, the TLC
configurations that check them on small instances, and theorems about them that
TLAPS checks for every value of the constants.

The firmware makes a small board into a network interface for GPIB instruments.
It is built in one of two ways: `INTERFACE_VXI11` (a VXI-11 server with its RPC
port mapper) or `INTERFACE_PROLOGIX` (a server for the Prologix `++` commands).
Both share the GPIB bus driver, the EEPROM configuration and the user interface
with its web page. Everything runs on one thread, from `loop()`; what makes it
hard is that requests of different clients, on connections that come and go,
share one bus, one bus object, one read buffer and one cached address, that
instruments are switched on and off, that every byte on the bus may time out, and
that the power may fail while the configuration is written.

## Components

| component | source | state | operations | who calls it |
|---|---|---|---|---|
| GPIB bus driver | `AR488_GPIBbus.*` | `cstate`, `deviceAddressed`, `cfg`, the bus lines | `addressDevice`, `unAddressDevice`, `sendCmd`, `sendSDC`, `sendData`, `receiveData`, `setControls`, `readByte`, `writeByte`; device mode | the SCPI handler, the web page, the Prologix server |
| SCPI handler | `main.cpp` | none of its own: `cfg.paddr`, `cfg.eoi`, `cfg.eos`, `cfg.rtmo` of the bus | `write`, `read`, `read_stb`, `devclear` | the VXI-11 server |
| VXI-11 server | `vxi_server.*` | `clients[]`, `addresses[]`, the static read and send buffers | `loop` (reap, accept, serve), `create_link` … `destroy_link`, `killClients` | main loop, port mapper, user interface |
| RPC port mapper | `rpc_bind_server.*` | one UDP socket, one TCP client | `loop`, `process_request` | main loop |
| RPC packets | `rpc_packets.*` | the shared buffers | get and send, UDP and TCP | both servers |
| Web server | `web_server.*` | `clients[]` | pages; find, send, read, query | user interface |
| User interface | `user_interface.*` | IP address, LED, serial menu | `loop_serial_ui_and_led` | main loop |
| Prologix server | `prologix_server.*`, `EthernetStream.*` | parse buffer, modes, one client | the `++` commands, device mode | main loop of the other build |
| EEPROM configuration | `AR488_Eeprom.*` | stored `cfg` and checksum | save, load, erase | boot, serial menu, Prologix commands |
| Board layouts, serial ports, UID EEPROM | `AR488_Layouts.*`, `AR488_ComPorts.*`, `24AA256UID.*` | pins, streams | I/O | everything |

How they interact, in the VXI-11 build: one pass of `loop()` runs the port
mapper, then the VXI-11 server (close what is gone, accept at most one, serve
each slot at most once), then the web server and the rest of the user interface.
A VXI-11 request is executed on the bus to its end before its reply is sent. The
web page uses the same `gpibBus` object, and the same `cfg.paddr`, as the SCPI
handler. The user interface closes all connections when the IP address changes.

In the Prologix build one pass of `loop_prologix()` is a sequence of sections,
each with an `if` over flags the others set: run a macro, execute a command line,
send a data line and read the answer, continue an automatic read, poll on SRQ, do
the device's part when the adapter is not the controller, and parse what the one
client has sent. `deviceAddressed`, `cfg.paddr`, `lnRdy`, `isQuery`, `autoRead`
and the parse buffer live from one section, and one pass, to the next; talk-only
and listen-only mode have loops of their own inside the section.

What each must do to be correct:

* **bus driver and SCPI handler**: while an address is cached, nobody else is
  addressed; the cache is true of the instruments; a message cut into parts is
  one message; the settings come back; failures of any byte leave both sides in
  agreement;
* **VXI-11 server**: a linked client reaches its own instrument only; connections
  do not influence each other; every request is answered; existing connections
  survive when slots run out; what is executed is what the client has sent;
* **port mapper**: the port is never 0; every request is answered;
* **web page**: does not mix up the instruments of VXI-11 clients;
* **handshake**: bytes arrive once, in order and whole, unless the talker itself
  was late; the end is the end; no wait is circular;
* **Prologix parser**: lines are taken as they were typed, escapes included; after
  a line that is too long it finds its place again; it stays in its buffer;
* **Prologix server, controller mode**: one instrument is addressed at a time;
  lines and reads are for the one the client named; serial polls leave nobody in
  the serial poll mode;
* **Prologix server, device mode**: what is heard and said keeps its order, once
  each; the adapter takes the controller's messages and comes back to its client;
* **EEPROM configuration**: a start loads a configuration that was saved whole, or
  the default, wherever the power failed; a save that ended is kept; a start ends.

`PROJECT.json` lists the hazards, each at its line and with the properties for it.

## Modules

```
GpibBus        <-  ScpiHandler  <-  WebInteractive  <-  Gateway
Gateway        <-  MCGateway (runs), GatewayProofs
                   INSTANCE VxiService

GpibBus, PrologixParser  <-  PrologixServer
PrologixServer <-  MCPrologix (runs), PrologixProofs
PrologixParser <-  PrologixDevice  <-  MCPrologixDevice (runs), DeviceProofs
PrologixParser <-  PrologixLines   <-  MCPrologixLines (run), ParserProofs

GpibHandshake  <-  MCGpibHandshake (run), HandshakeProofs
                   INSTANCE MessageTransfer

EepromConfig   <-  MCEepromConfig (run, with Crc16), EepromProofs
                   INSTANCE ConfigStore

BusTheorems    <-  GatewayProofs, PrologixProofs
ParserTheorems <-  ParserProofs, PrologixProofs, DeviceProofs
```

(`A <- B`: B extends A.)

The VXI-11 build:

* **GpibBus**: the driver in controller mode. A bus is a record of the
  controller's variables (`cstate`, `deviceAddressed`, `cfg.paddr`, `cfg.eoi`,
  `cfg.eos`) and of what the firmware cannot see: which instruments are on,
  listening, talking. Every operation of the class is an operator that returns
  the *set of outcomes* the operation can have, each with the bus it leaves; a
  sequence of calls in the code is the union over the outcomes of the first. A
  byte's three-wire handshake is abstracted to its result: it succeeds with every
  instrument concerned, or (no acceptor, or `HandshakeFaults`) it times out after
  any of them has latched it.
* **ScpiHandler**: `class SCPI_handler` on top of it, one operator per method.
* **WebInteractive**: `fndl`, `gpibWrite`, `gpibRead` and the request dispatch of
  the web page, on the same bus.
* **Gateway**: the state machine. `pc` and `turn` are the position of the main
  loop; `conn`, `inbox` and `addresses` are the sockets behind `clients[]`, what
  has arrived on them and the array of that name; `backlog`, `bindReq`, `webReq`
  are what the network has ready. One action per handler: `Bind`, `Reap`,
  `Accept`, `Skip`, the procedures of `handle_packet`, `Answer`, `Web`, `Ui`; and
  the environment: peers that connect, send, close or reset, or go away in the
  middle of a request (`GoesAway`), instruments switched on and off, reboots.
  `buffer` is `vxi_read_buffer`, in which a request that was cut off leaves the
  one before it. `link` is a history variable: the address of the link each
  client has created, which the code does not keep apart from `addresses`.
* **VxiService**: the abstract specification of what VXI-11 clients are promised:
  sessions that open, link, reach the instrument of their link, and close.

Below the driver:

* **GpibHandshake**: `readByte`, `writeByte` and the loops of `sendData` and
  `receiveData` around them, for one message from a talker to several listeners.
  A step is one access to a signal: each `getGpibPinState`, `assertSignal`,
  `clearSignal` and access to the data bus is an action of its own, so that all
  interleavings of the stations happen. NRFD and NDAC are wired-or. Any waiting
  loop may run out of time; the controller may assert ATN as soon as it has seen
  its last byte accepted. `accepted` and `late` are history variables.
* **MessageTransfer**: the abstract specification of one message, as the callers
  of `receiveData` see it and without signals: each listener puts out the bytes
  in order, and none is given a byte before all that are still there have put out
  the one before. It stops promising anything once the talker was late. In the
  refinement, what a listener has heard is `received`, why its call ended is
  `rstate`, and all the steps of a byte before the last one of `Receive` stutter.

The Prologix build:

* **PrologixParser**: `parseInput` and `serialIn_h` as functions of a record of
  the parser's variables and a character. A character is `CR`, `ESC`, `PLUS` or
  one of `Others`, which are whole words, since nothing but their identity is
  looked at.
* **PrologixLines**: the parser alone with a client that types anything, and a
  second reading of the whole of what was typed (`Meant`), written from the
  escaping rules and not character by character, to hold the parser's results
  against.
* **PrologixServer**: `loop_prologix` in controller mode. A step is one section
  of the pass (`pc`), so that whatever the client or an instrument does falls
  between two of them. Command words stand for a handler and its parameters;
  every handler that puts something on the bus is an operator of the handler's
  name on the outcomes of `GpibBus`. `polled` are the instruments in the serial
  poll mode; `moved` (the transfers of the last step, and for whom they were
  meant) and `clean` are history variables.
* **PrologixDevice**: `loop_prologix` in device mode, with `attnRequired`,
  `lonMode` and `tonMode`, beside a controller, another talker and other
  listeners. `readByte` is two steps, the look at ATN and the taking of the
  byte, because the controller may act in between; as the code tells the
  controller's messages from data by where it reads them, `Looks` gives for each
  data byte the message it is equal to. Clients may be lost and replaced
  (`EthernetStream::checkClient`). `heard` and `spoken` are history variables.

The configuration, of both builds:

* **EepromConfig**: the bytes of the EEPROM and of `gpibBus.cfg`; a step is the
  next write of `epErase` or `epWriteData` that changes a byte, a step of
  `setup()` (`Load`, erase, write the default, `Begin`), or a command that changes
  or saves the configuration (`cmd1_DoIt`, `cmd2_DoIt`, `save_h`, `default_h`).
  The power may fail between any two. The checksum is the constant `Crc`.
* **Crc16**: the checksum of the code, for `Crc` in the run.
* **ConfigStore**: the abstract specification: one stored configuration, which
  a start loads and only a save or an erasure that was asked for changes. In the
  refinement, `stored` is what the next start would load (`Effective`), so that
  every state in the middle of a write stands for a whole configuration.

**GatewayProofs, HandshakeProofs, EepromProofs, ParserProofs, PrologixProofs,
DeviceProofs** hold the theorems, **BusTheorems** and **ParserTheorems** the lemmas
that several of them use; the modules whose names begin with MC hold the sets for
the runs.

What is abstracted in the Gateway. Bytes of a message are their number; white
space at the end of a message is a number too, because `write` trims it. Packets
arrive whole and are at most 1024 bytes, except one cut off by a client that goes
away, of which nothing but the length prefix arrives. A GPIB operation is atomic with respect
to the network (it is: the code does not return to the loop in between).
`cfg.rtmo`, `eot_en` and the serial poll status are not represented; `cmode` is 2
and `saddr` is 0xFF, as in every call of this build. Where `sendData` reads an
uninitialised variable (length 0 modulo 256), both outcomes are allowed.

In the handshake: IFC is not asserted, `detectEoi` is true, the wait for the
release of ATN at the start of `receiveData` is over, and of the controller's
commands after the message only the first byte is there. In the Prologix server:
text for the client, settings nothing else depends on, `tct`, `xdiag`, `rst`,
`savecfg`, `++fndl` without parameters and secondary addresses are left out. In
device mode: IFC, secondary addresses, end characters and the value of the status
byte.

In the configuration: the firmware is built with `AR488_GPIBconf_EXTEND`, as
`config.h:109` has it, for a processor with an EEPROM (not an ESP); the padding
bytes 87 to 91 of the union are 0. A byte is written whole or not at all.

## Runs

| run | instance | checks | shows |
|---|---|---|---|
| MCRouting | Gateway: 2 slots, partial writes and limited reads on two instruments | `RoutedToLink`, `CacheCoherent`, `SlotIsolation`, `RequestsAnswered` | two clients never reach or hear each other's instrument; the cached instrument is addressed in the direction the driver believes; no step of one connection closes another, takes or reorders its requests or changes its link; every request is served unless its connection is closed first |
| MCFailures | Gateway: 1 slot; time-outs, resets, requests cut off, power failures, IP changes, reboots | `ExclusiveAddressing`, `CachedMeansAddressed`, `ImplementsService` | the cache stays true through every failure; the gateway refines `VxiService` |
| MCWeb | Gateway: 1 slot, default instrument 2, EOI and eos 1, the operations the other runs leave out beside reads and writes, every web request, the port mapper on both transports | `TypeOK`, `ReadFromOwnInstrument`, `MessageEnded`, `PortNeverZero`, `PortMapperAnswers` | types; a read is never answered by another instrument, whatever the web page did in between; a message in parts is ended once, at its end; the port is never 0 and every port mapper request is answered once a slot is free |
| MCHandshake | a talker and 2 listeners, all of whom may be late, or 3, of whom 2 may; five messages | `TypeOK`, `InOrder`, `NothingLost`, `EoiMeansAll`, `ImplementsTransfer`, `Delivered` | no byte is lost, repeated or misread unless the talker was late (behind a late controller's ATN, up to two may be lost); the listeners keep step; without time-outs the message gets through |
| MCParser | buffer of 4, every sequence of 10 characters | `TypeOK`, `LinesAsTyped`, `Resynchronises`, `EscapedStaysData`, `DataInPieces` | the parser agrees with the reference reading |
| MCPrologix | 2 instruments, buffer of 4, every command, 2 macros | `TypeOK`, `OneAddressed`, `ReadFromNamed`, `StrayOnce`, `StatusIsNotData` | one instrument at a time, reads from the one that was named; a line goes astray at most once after `++send` or `++fndl`; no instrument is read from while in the serial poll mode |
| MCDevice | 2 client texts, 2 data bytes, 2 messages per look | `TypeOK`, `HeardInOrder`, `SpokenAsTyped`, `ClientServed` | order of what is heard and said, and the return to the client, whatever ATN and the talkers do |
| MCEeprom | both builds, the real checksum over all 92 bytes, 3 IP addresses, 2 instruments and what the firmware changes besides | `TypeOK`, `ImplementsStore`, `SavedUnlessClear`, `SetupEnds` | a start finds what was saved whole or makes the default; a finished save is found again; a start ends |
| MCUnsent | Gateway, smallest | `NoErrorMeansSent` | violated: a write of 300 bytes sends 44 and is answered with no error; one after a limited read sends none |
| MCStale | Gateway: 2 slots, requests cut off | `ServedAsAsked` | violated: when a client goes away in the middle of a request, the request read before it is executed again, on that client's slot |
| MCCut | as MCPrologix | `OneMessage` | violated: a long line is several messages |
| MCAttn | device mode, no client | `CommandsAreRead` | violated: `readByte` gives up as soon as it sees ATN, so what a controller sends under ATN is not read |

The four violations are the entries of `findings` in `PROJECT.json`, with the
lines of code and of documentation they set against each other. A known limit is
excepted in `SavedUnlessClear` and is no run of its own: a configuration whose
checksum is 0xFFFF reads as an erased EEPROM. With the default settings, IP
address 192.168.1.204 and instrument 28 it is, and that choice is wiped at every
start; MCEeprom has it among its configurations.

Bounds of the Gateway. Two instruments and two slots are enough for one client's
request to meet another's; a third would only add a bystander, and the theorems
below do not depend on the number. One request waiting per connection suffices for
the routing properties, since a request changes nothing before it is taken. One
waiting connection (two slots) makes "all slots taken and another client knocks"
happen. Lengths: 1 and 2 stand for all that fit in a byte, 300 for those that do
not. The web requests name each instrument once and address 31.

Bounds of the others. MCHandshake: to two listeners, one byte with two
terminators, three bytes in two calls, and two bytes read one at a time; to three,
two bytes in two calls with a terminator, and three in one; with the controller at
either end. With two listeners the slower and the faster differ; the third is
there because two bytes are only lost behind the ATN of a late controller when a
third station has already asked for the next one. MCParser: a buffer of four
is filled, overrun and left again within ten characters, and `++` with one letter
still fits. MCPrologix: each text is a whole line, a part of one, or one that
fills the buffer; one macro has a command and data, the other is empty;
instruments are on or off from the start; the client and SRQ act where the loop
looks for them, which loses no order the loop could tell; command bytes do not
time out there (MCFailures does that on the same driver). MCDevice:
`cmdbuflen` is 2 for the code's 35, so that it is reached; two data bytes, one of
which is equal to the talk address; the last client stays. MCEeprom: the
configurations differ in up to seven bytes (instruments, mode, IP address), so that
a write that is cut off leaves a mixture; one has the checksum 0xFFFF; 31 and 284 are
numbers the menu refuses and takes for 28.

Deadlock is checked in all runs but four. It is not in MCHandshake and MCParser,
whose one message and bounded typing end; and in MCDevice and MCAttn, where the
model ends when the adapter becomes the controller, and where the bus really stops
when a character of `++ton 1` meets ATN: the adapter becomes a listener that reads
nothing and holds NRFD and NDAC.

Fairness. Gateway: `WF_vars(Loop)`, the firmware's only thread goes on as long as
its next step can be taken; nothing is assumed of peers, instruments or browsers.
The one step that may be disabled is `Answer` to a connection that was reset,
which is the busy wait of `send_vxi_packet`: the loop really stops there. The two
runs with liveness properties, MCRouting and MCWeb, leave resets out; MCFailures
has them. GpibHandshake: weak fairness of the talker and of each listener,
each a processor of its own; none of time-outs, which `Delivered` excludes.
EepromConfig: `WF_vars(Setup)`, because `setup()` waits for nobody; nothing is
assumed of the commands and of the power.
PrologixDevice: `WF_vars(Adapter)` as above, and `SF_vars(TimeOut)`, because
`readByte` ends by its clock (`cfg.rtmo`) however often ATN or the bus change
while it waits. Nothing is assumed of the controller, the talkers or the client.
PrologixServer and PrologixLines have safety properties only.

## Theorems

Checked by TLAPS for all values of the constants that satisfy the assumptions
named in the modules: any number of slots, listeners and instruments, any requests,
messages, disturbances and bounds. Where a theorem needs more, it says so.

Gateway (GatewayProofs). `BusTheorems` has the lemmas about the driver, one per
operation: what it does to the addressed instruments, to the cache and to what was
moved; the first part of GatewayProofs has those about the handler.

* `TypeCorrect`: `Spec => []TypeOK`, web requests included. The invariant is
  `TypeInv`: the types and "only instruments that are on are addressed", which
  the outcome operators need of the bus they are given.
* `RoutedCorrect`, `ExclusiveCorrect`: `Spec => []RoutedToLink` and
  `Spec => []ExclusiveAddressing` when `WebRequests = {}`. `RoutedToLink` says
  something of the reply pending now; it is inductive only together with
  `ExclusiveAddressing` (the handler skips the addressing when the address is
  cached) and `Linked` (the slot holds the link's address). `RoutingInv` is their
  conjunction. The assumption is needed: with web requests `ExclusiveAddressing`
  is false.
* `CachedCorrect`, `CoherentCorrect`: what is cached is addressed, and in the
  direction the driver believes; both when `WebRequests = {}`, the second where
  bytes do not time out and instruments do not lose their power, without which it
  is false.
* `ReadCorrect`: `Spec => []ReadFromOwnInstrument` where bytes do not time out, web
  requests included. The invariant adds `Talks`: nobody but the cached instrument
  is addressed to talk.
* `EndedCorrect`: `Spec => []MessageEnded` where bytes do not time out and the
  stored `eos` is 0 or 1, web requests included. The invariant, `Configured`, is
  that `cfg.eoi` and `cfg.eos` are the stored ones between requests; `write`
  changes and restores them.
* `PortCorrect`: `Spec => []PortNeverZero`.
* `IsolationCorrect`: `Spec => SlotIsolation` when nothing disturbs but resets and
  power failures (an IP change and a reboot close connections of all clients on
  purpose, and for a request that is cut off see MCStale). The invariant `SlotInv`
  says that `addresses[]` agrees with the links and that requests are whole.
* `ServiceImplemented`: `Spec => ImplementsService`, by step simulation from
  `RoutingInv`, when `WebRequests = {}`.

Handshake (HandshakeProofs), for any number of listeners, any of them late.

* `TypeCorrect`, `OrderCorrect`, `EoiCorrect`: `TypeOK`, `InOrder`, `EoiMeansAll`. The
  invariant `DeliveryInv` ties each program counter to the lines and to the bytes:
  who is not ready holds NRFD (`Holds`), what a listener that is reading sees is
  the byte after those it has (`Reads`, `Marks`), and where the listeners can be
  when the talker is at each of its states (`InStep`). It holds until the talker
  runs out of time, and nothing is said after that.
* `LostCorrect`: `NothingLost`. `LossInv` counts how far the talker has seen its
  bytes accepted (`Past`), what each listener has and can still get (`Taken`,
  `Reach`), and, once the controller has asserted ATN, that nobody is further
  behind than the exception of `NothingLost` allows (`Level`, `Apart`, `Halts`).
* `TransferImplemented`: `Spec => ImplementsTransfer`. `StepInv` says that who is at
  a byte has put out no more than anybody who is still there.

The configuration (EepromProofs), for any checksum that tells a configuration
from the first bytes of another over the rest of it (`CrcTells`; a 16 bit checksum
misses about one in 65536, the real one misses none of those in the run).

* `TypeCorrect`, `StoreImplemented`, `SavedKept`: `TypeOK`, `ImplementsStore` and
  `SavedUnlessClear`. The invariant `IInv` lists the images the EEPROM may hold at
  each place of the firmware: whole, erased checksum, a mixture under the old
  checksum, complete with one byte of the new checksum, or an erasure cut off;
  the lemmas say what each is loaded as.

The Prologix parser (ParserProofs), for every buffer size above 2 and every set of
keys.

* `ParserTypeCorrect`: `TypeOK` of PrologixLines: the parser stays inside its
  buffer, has room for the next character, and hands on no line longer than the
  buffer. The invariant `PInv` says the buffer is a sequence shorter than PBSIZE and
  not marked as cut between two characters, and of every line handed on that it
  fits; the lemmas follow one character through `EndLine`, `AddChar` and `WhenFull`.
* `EscapedCorrect`: `EscapedStaysData`. The property speaks of the parity of the ESC
  before a plus, in the whole of what was typed, the code keeps one flag. `EscapeInv`
  ties them together: the text ends in some number of ESC (`EndsInEsc`) that is odd
  exactly when `isEsc` is set; and as long as every plus was escaped, a buffer that
  begins with one has `isPlusEscaped` (`Guarded`), so that it is not a command.
* `LinesCorrect`: `LinesAsTyped`. The reference is a function of all that was typed;
  lemmas say what one more character makes of it (`EndsGrow`, `PendingGrows`,
  `FullEndsGrow`, `MeantGrows`), and of the parser (`ParseCases`, `EndLineMeans`,
  `CharJoins`). `LineInv` ties the two: a pending line that fits is what the buffer
  holds (`Holds`), whatever came before; `isPlusEscaped` says what it should of that
  line (`Knows`) only if the line before it fitted too (`Clean`).
* `ResyncCorrect`: `Resynchronises`, from the same invariant. `Clean` is why it takes
  two lines: after an overlong one whose last piece filled the buffer, its line end
  finds nothing, and an escaped plus of it is still remembered in the next line.
* `PiecesCorrect`: `DataInPieces`. `PieceInv`: as long as no plus was typed, what was
  handed on and what waits are together all the text there was.

The Prologix server in controller mode (PrologixProofs), for any instruments,
commands with any numbers, macros and input.

* `TypeCorrect`: `TypeOK`, with lost command bytes too. The invariant is `TypeInv`.
* `AloneCorrect`, `StrayCorrect`, `PolledCorrect`: `OneAddressed`, `StrayOnce` and
  `StatusIsNotData`, all from `AddressingInv`: at most one instrument is addressed,
  none is in the serial poll mode, and while `clean` holds none is left to listen
  and the driver does not believe so. Each handler has a lemma that says which of
  these it keeps (`Keeps`) on every outcome of the driver.
* `NamedCorrect`: `ReadFromNamed`. `NamedInv` adds `NobodyTalks`: nobody is left
  addressed to talk, but between `++read` under `++auto 3` and the automatic read of
  the same pass.

All but the first assume `~HandshakeFaults`: a byte of a command may be lost only
because no instrument is on. Without it they are false, as TLC finds: when the
address of a second talker times out, after `UNL` has gone out but no `UNT`, two
instruments are left talking (`++spoll 2 1`). `NamedCorrect` also assumes
`QuietMacros`: every macro line holds something, and none is `++read`. A macro may
end between a `++read` under `++auto 3` and the automatic read, and switch that off
with `++auto 0`; the driver then takes the instrument it left talking for the one
the next `++read` names. A client cannot, since its commands are a pass apart.

The device mode (DeviceProofs), for any messages, texts, data and buffer sizes.

* `TypeCorrect`: `TypeOK`. `TInv` adds where in the loop the buffers have room.
* `HeardInOrderCorrect`: `HeardInOrder`. The invariant adds that everything heard is
  at most `said`, and older than the byte that is on the bus.
* `SpokenCorrect`: `SpokenAsTyped`. `OrderInv` orders four places (`Ordered`): what was
  said, the line that is held, the characters that wait, and the texts that are
  still to come; and says that the unbuffered talk-only mode, which overtakes the
  held line, is only entered with an empty one and never left.

Loops. `serialIn_h`, the poll of `++spoll`, `++trg`, `++fndl`, the tokens of
`attnRequired` and the parser's reference are loops over data, written as recursive
functions of a number. ParserTheorems proves what is needed of them from the
well-foundedness of `<`: `IntervalInduction` for a set of indices, from it that the
function exists (`LoopExists`, `EndlessLoopExists`), that there is only one
(`LoopUnique`) and that its values stay where its steps stay (`LoopStays`).

Assumptions. Those on the constants are the ASSUMEs of the modules: the sizes; that
handlers get no number outside the range they check for (`CommandTypes`,
`CommandsAssumption`, from `notInRange`); that what is typed is characters; and, in
PrologixDevice, that `Words` names the data in the order in which the client sends
it (`TextsAssumption`), which is what `SpokenAsTyped` means by order.

Only model-checked: the liveness properties, which are outside what TLAPS proves
(`RequestsAnswered`, `PortMapperAnswers`, `Delivered`, `ClientServed`, `SetupEnds`),
and the four properties that the code violates. Every safety property of a passing
run is a theorem, some under the hypotheses named above. PrologixLines writes its
reference with recursive functions (`InSequence`, `Joined`) and not with `SelectSeq`
and `FlattenSeq`: those take an operator, of which the provers know nothing.

## Plan

Done, in this order: the bus driver, the SCPI handler, the VXI-11 server with port
mapper and web page, their abstract service and the theorems; the handshake; the
Prologix parser, its server in controller mode, and its device mode; the
configuration with its abstract store; requests that are cut off; the handshake's
theorems and the transfer it implements; the theorems of the Prologix server, in
both modes, and of its parser.

Left, in order of importance:

1. The outcomes of `GpibBus` (a send or a read with all its bytes at once) as an
   abstraction of `MessageTransfer`; the handshake implements the latter already.
2. Requests larger than the read buffer, whose rest is parsed as the next one.
3. `EthernetStream`: the buffered output, the idle clock, and the change of the
   client in controller mode; a liveness property for SRQ with `++srqauto 1`; the
   order of texts when a macro starts behind a line; a long line with a poll
   between its pieces.
4. The eight hardware sockets shared by all servers.

Not modelled, and why: the pin tables and register accesses of the boards, the
serial menu, the LED and the debug output carry no protocol state; the test tools
and the hardware files are not part of the program.
