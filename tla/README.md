# Wireless UART in TLA+

`src/` makes a serial line travel over TCP. A **server** next to the serial
port (`server/wireless_uart_server.py`) accepts connections; a **client**
(`client/wireless_uart_client.py`) opens a serial port of its own, connects and
tells the server by packets which port to open at which rate. From then on both
ends forward what their UART receives as `data` packets. A **packet generator**
(`tools/wireless_uart_packet_generator.py`) prints single frames to be pasted
into a terminal. A third implementation of the packets, in C, is the beginning
of **firmware** for an ESP8266. Everything else under `src/` is a vendored SDK.

This directory holds TLA+ models of that code, TLC configurations that check
them, and proofs for TLAPS. Names follow the source; `PROJECT.json` maps each
definition to the lines it stands for.

## 1. Inventory

| Component | State | Operations | Works with |
|---|---|---|---|
| wire format: class `Packet` of server, client, generator | key, value, size, checksum | `set_key_value`, `get_bytes`, `calc_checksum`, `parse` | written by `send_packet`, read by the receive loops |
| printable encoding (`-e`): `is_word`, `bytes_encode`, `bytes_decode`; the same in the firmware | the decoder's state, first digit, output | one loop over a value each | `do_encode` before sending, `do_decode` after `parse` |
| receive loop: `handle` of server and client, same code | `recv_buffer` | `select`, `recv().strip()`, inner loop over `parse`, cut, discard rule | TCP below, `handle_packet` above |
| server session: `WirelessUartClientHandler`, a thread per connection | `uart_path`, `uart_baud`, `uart_dev`, `is_running` | `path`, `baud`, `start`, `stop`, `data`, `error`, others; polling the UART | serial ports shared with other sessions; the client by packets |
| client: `WirelessUartConnectHelper`, one thread | one socket object, `recv_buffer`, `uart_dev` | `start_forever`, `uart_open`, `handle`, `handle_packet` | the server by packets, its own UART |
| packet generator | none | build and print a frame | stands in for a peer; writes no END |
| firmware packets: `wuart_packet.c`, `wuart_utils.c` | heap pointers, size and checksum of a `Packet_t` | init, set, encode, decode, to string, to bytes, release; copies with a limit | `wireless_uart_main.c`; the heap |
| firmware log, build scripts, SDK | - | - | not modelled (section 6) |

What is hard in it, and what would make each part correct:

- **The stream.** TCP has no message boundaries. A recv may end inside a frame
  or hold several; the loop strips white space, keeps END in its buffer, cuts
  by a length it recomputes, and drops the buffer by a rule of its own. Correct
  means: what `handle_packet` sees is what was sent, once each and in order;
  and where that cannot be had, at least nothing invented and nothing
  reordered.
- **The codec.** Encoder and decoder share no code, and there are two
  decoders. Correct means: a round trip is the identity on every value, what is
  on the wire is printable, no decoder needs more room than its input, and the
  two read the same.
- **Sessions.** Every packet may arrive at any time, every open, close, write
  and poll may fail half way through a handler, and sessions in other threads
  compete for the same ports. Correct means: a session never serves another
  device than the one its settings name, does not reopen what is already open,
  and loses nothing of what its port receives as long as it keeps the device and
  its client is there.
- **Connection life.** Either end may fail, be stopped or be started again at
  any moment, with bytes under way in both directions. Correct means: what gets
  through is gapless, what waits gets through or somebody is told, a lost
  connection is replaced, and a port is given back when its client goes.
- **Firmware.** Ownership of heap blocks along error paths, output buffers of
  fixed size, and a `Packet_t` that its caller leaves uninitialised.

`PROJECT.json` lists these hazards with their lines.

## 2. Modules

| Module | Stands for |
|---|---|
| `WuartPacket` | the wire format as operators: `data_bytes`, `calc_checksum`, `get_bytes`, `parse` |
| `WuartEscape` | the codec as operators: `EncodeByte`, `DecodeByte`, the firmware's `FirmwareByte`, and their folds over a value |
| `EscapeStream`, `MCEscapeStream` | encoder and both decoders as steps: `WriteOne`, `DecodeOne` |
| `PacketChannel` | abstract specification: a channel that delivers every packet once, in order |
| `WuartReceiver`, `MCReceiver` | one direction of a connection: sender, TCP and receive loop |
| `WuartSession`, `MCSession` | the server's sessions and their serial ports |
| `WuartClient` | the client program |
| `WuartLink`, `MCLink` | client and server sessions joined by their connections |
| `FirmwarePacket`, `MCFirmware` | the firmware's packet object on its heap |
| `EscapeStreamProofs`, `WuartReceiverProofs`, `WuartSessionProofs`, `WuartLinkProofs`, `FirmwarePacketProofs` | theorems about the module each is named for |
| `WireFormatProofs` | theorems about the operators of `WuartPacket` and `WuartEscape` |
| `WuartEndToEndProofs` | theorems about `WuartLink` that rest on those about `WuartSession` |
| `SequenceInduction` | the facts on which every induction over a sequence rests |

How they are composed: `WuartReceiver` and `FirmwarePacket` extend
`WuartPacket` and `WuartEscape`; `EscapeStream` extends `WuartEscape`;
`WuartLink` extends `WuartClient` and instantiates `WuartSession` over its own
variables. `PacketChannel` is instantiated three times: by `WuartReceiver` for
the frames of one direction, and by `WuartLink`, per connection, for the data
of each direction.

Definitions called `X_y` are `X` with the plausible mistake `y` in it. No
specification uses them; they are put in the place of `X` to see that a
property notices.

### WuartPacket

Bytes are numbers, byte strings sequences of them. The while loop of `parse`
becomes a set: `StartsAt` are the positions of START, `Deciding` the ones at
which the loop does not go on searching, and the result is the least of them.
That is sound because two STARTs cannot overlap. The XOR of the checksum is
stated by the parity of each bit. `Decodable` is the UTF-8 decoding of the key,
reduced to "no byte above 127", which is exact for the ASCII keys in use.

### WuartReceiver

`Send` is a `send_packet`: a whole frame enters the network. `Recv(n)` is one
`recv` of n bytes with its `strip`; `HandleOne` is one turn of the inner loop
(parse, decode, cut, hand on), `HandleRaises` the turn in which decoding
throws and `handle` is left, `EndDrain` the end of the inner loop with the
discard rule. What the code gets wrong is kept as it is: the cut counts from
the front of the buffer wherever the packet was found, uses the size after
decoding, and leaves END behind.

`config` holds the circumstances, chosen in `Init` and never changed: whether
the peer is the other endpoint or somebody who plays the output of the packet
generator, which side runs with `-e`, what the peer sends, and how the network
cuts the stream (`Cuts`). The loop keeps different promises in each:

- "any": a recv returns any prefix of what is pending; the peer sends when it
  likes. All TCP guarantees.
- "coalesced": a recv returns all that is pending, up to the buffer size.
- "paced": the peer sends the next frame after the last one was received; the
  frame may be cut anywhere except inside START and next to white space.

### EscapeStream

The encoder writes the encoding of one byte, both decoders read it byte by byte.
With `peer_encodes` false the peer writes the byte itself: an endpoint with
`-e` whose peer runs without. `firmware` is the decoder of `wuart_utils.c`: it
gives up where its output is full (`EmitWithin`), and takes from `sscanf`
whatever that leaves when a character is no digit (`Scanned`), a byte of the
stack included. Its output is given the least room `packet_do_decode` ever
gives it, the number of bytes read so far.

### WuartSession

One action per keyword and outcome of `handle_packet`, one per exit of
`handle`, and `PollUart` for the UART half of its loop. `uart_open` is the set
of its outcomes: it may always fail, and has closed the old device by then. A
port has a driver buffer (`pending`) that opening clears; bytes are numbered by
port, and each opening of a device is told from the next, so that "no gap" can
be said. A handler is one step although other threads run meanwhile: sessions
share nothing but the ports, and a port that is taken between `uart_close` and
`serial.Serial` is one of the reasons for which an open fails.

`ClientCloses` leads to the life "fin", in which no packet arrives any more and
the UART is still polled. `Exit` closes the device, because pyserial closes a
port when its object is collected and the handler object goes with its thread.

### WuartClient

`stage` is "handle" while the program is in `handle()` and "apart" between two
attempts of `start_forever`. `session` is what its socket object is connected
to: it is set by the first `connect` that succeeds and stays set until the user
starts the program again (`Restart`), because the object is never replaced and
never closed. `Connect` is therefore guarded by `session = NoSession`;
`AttemptFails` is an attempt whose `connect` raises. Both begin with
`UartOpen`, whose result the code ignores. `Leave` is any exception in
`handle()`: on writing to a device that failed or that is None, on polling it,
on a reset connection.

### WuartLink

A connection is two sequences of packets, all that was ever sent in each
direction, with a reading position for each end. `ServerHandles` takes the next
packet of the client to the action of `WuartSession` that stands for it
(`Dispatch`) and ties the value the action chooses to the one in the packet;
what the action answers or forwards goes into `to_client`. The errors and bytes
sent are read off the change of `errors` and `forwarded` rather than stated a
second time. `client_closing` and `server_closing` say how an end was closed: a
socket that is closed with something unread in it may reset the connection, and
what is sent into a closed one is lost and may bring a reset back.

The streams are sequences of packets, not of bytes: what the receive loop makes
of bytes is `WuartReceiver`, and `WuartLink` stands on the case in which it
delivers.

### FirmwarePacket

Every function is an operator on the memory: which blocks are in use, what they
hold, the `Packet_t`, whether anything was damaged. Each call takes the set of
its allocations that fail; a full heap makes them fail by itself. A free of what
is not in use, or a byte written behind a block, sets `corrupt`, and what
happens after that is undefined and not modelled. `Init` is the state of
`app_main` at its first statement: the `Packet_t` is whatever the stack holds
(`Leftovers`), and a pointer in it is NULL or `Wild`, which no `malloc` has
returned. Until `packet_init` has been called (`made`) the packet is only read
and printed. `misused` remembers that a caller has passed what the functions
cannot take: a `Packet_t` with pointers in it to the first `packet_init`, which
frees them, or a buffer of no bytes, for which `limit - 1` is no bound.
`set_bytes_auto_alloc` and the macros it is built from become one operator;
buffers that a call allocates and frees within itself do not appear between
calls.

## 3. Runs

| Run | Checks | What it shows |
|---|---|---|
| `stream` | `TypeOK`, `HandledFollowsSent`, `CutStaysInFrame` | under any fragmentation, with values that hold START, `=`, white space and escapes: of these values nothing is invented or reordered (section 5 has one of which something is), and no cut goes into the next frame |
| `delivered` | `QuiescentDelivered`, `ChannelFairSpec` | without fragmentation, four packets of an opening in any order, with ENDs piling up in the buffer; and with one frame in flight, `-e` on both ends or on none: each packet is handled once, in order, eventually |
| `coalesced_921600` | violates `QuiescentDelivered` | the checksum of `baud=921600` is `#`; with END it makes a START in the leftovers and the receiver hangs |
| `escape` | `TypeOK`, `RoundTrip`, `FirmwareAgrees`, `WireIsPrintable`, `DecodeNeverGrows`, `FirmwareHasRoom` | the codec and both decoders, on values of the classes of bytes they tell apart; the two decoders agree on what an encoder wrote, and nothing is said of their agreement on other input |
| `firmware` | `TypeOK`, `HeapSound`, `Owned`, `InitAllOrNothing` | all sequences of calls on a small heap, with every allocation failing, from any contents of the uninitialised `Packet_t`: which calls corrupt the memory (the first one of `app_main`, unless its stack happens to hold NULL twice), and that no others do; ownership and `packet_init` as long as it is intact |
| `firmware_value` | violates `ChecksumCoversPacket` | `val_size` is never set, so that the checksum leaves the value out |
| `session` | `TypeOK`, `DeviceMatchesConfig`, `NoByteLost`, `ReopenedOnlyForChange` | two sessions, two ports, two rates, exclusive opens: no wrong device, no needless reopening, and a connected session that keeps its device loses none of its bytes. What waits when it is closed (stop, new settings, the end of `handle`) is lost, and so is what arrives after the client has closed its end |
| `session_drain` | `UartDrained` | shared port, closes that fail: received bytes are always read in the end |
| `session_data` | violates `DataAnswered` | data for a session that runs without a device ends it instead of being answered |
| `link` | `TypeOK`, `EndToEnd`, `UpstreamSpec`, `DownstreamSpec`, `ReachesServer`, `ReachesClient` | one connection from its opening to its end, everything failing that can: each direction is a channel, what is written is a gapless run of the other port's bytes, and what waits gets through or somebody is told |
| `reconnect` | violates `Reconnects` | `connect` on a socket that is already connected raises at every attempt: the client never comes back |
| `port_kept` | violates `PortReleased` | a client goes, its handler takes the end of the stream for white space and keeps thread and port |

The five violations are disagreements between the code and what its comments and
messages say; `PROJECT.json` quotes both under "findings".

Deadlock is not checked: the models stop when the bounds on packets and bytes
are reached, and the programs stop when nothing arrives.

### Bounds, and why they are enough

- `MaxSent` (2 to 4 frames). The receive loop has no memory but its buffer, and
  what matters is how the rest of one frame meets the next: two frames show
  every such pair. `delivered` uses four, the length of a client's opening with
  some data. It is not enough to see what many short frames in one recv do:
  END is never cut off, so that each frame leaves two bytes more in front of the
  next, and when these amount to a frame, one is handled twice. The shortest
  frame of a client, `start`, has 14 bytes: six of them in one recv are handled
  correctly, seven are not. `PlainCoalesced` (section 4) has this bound as its
  hypothesis.
- `Offered` and `offers`. Small values chosen for what they contain: white
  space at an edge, START, END, `=`, backslashes, control characters; and the
  real opening of a connection with real rates, because checksums of real
  packets decide whether leftovers look like START. `delivered` says nothing of
  other values: any packet whose checksum is `#` fails there like
  `baud=921600`.
- `BufSize` is 4096 as in the code, larger than all that is ever in flight
  here. Under "any" the stream is cut everywhere already, so a full buffer adds
  no cut.
- `MaxLen = 4` bytes from 15 classes in `escape`. The decoders' memory is one
  state and one digit; four bytes pass through all states and come back. The
  proofs remove the bound.
- `MaxRequests = 3` packets per session suffice for path, baud and one more
  packet that changes the setting or fails; `session_data` needs 4. Two
  sessions and two ports give every conflict between sessions, as they interact
  only over who holds a port. `MaxRx` is 3 bytes per port: three polls, with
  bytes before, between and after.
- `link`: one connection, as a client makes one per run of the program and two
  connections share only the port, which `session` looks at; two bytes
  from the client (two data packets, of which the first may fail), three from
  the port. `MaxRequests` is the opening and one packet per byte, so that it
  never stops a session. The theorems remove these bounds for all of its safety
  properties. `reconnect` and `port_kept` have two connections, since there must
  be one to come back to, and one byte each way.
- `Leftovers`: pointers that are NULL or not, with any of `ready`, sizes and a
  checksum that are 0 or not. `Limits`: 0, 1, and sizes below and above the keys.
- `Blocks`: five, for a key, a value, a working buffer, and two strings that
  are not freed yet; the heap is therefore also seen full. Keys: none, a plain
  one and one whose checksum is 0; values: none, a plain one and one with bytes
  to escape. The proofs remove these bounds too.
- Sessions and ports are symmetric in `session`; it checks no liveness.
- A length of a frame is below 2^31 in all runs, as TLC's integers end there.

### Fairness

- `FairSpec` of `WuartReceiver`: `WF` of `Receive` and of the inner loop. The
  thread polls its socket at least every `recv_timeout` and the inner loop waits
  for nothing; TCP delivers what is in flight. Nothing is assumed of the sender.
  `LoopFairness` is `WF_vars(Loop)` written out: `Loop` is enabled exactly in
  phase "drain" (`HandleOne`, `HandleRaises` and `EndDrain` exhaust it).
- `FairSpec` of `WuartSession`: `WF` of `PollUart` for each session. Every turn
  of `handle` ends with the poll, and a turn takes at most `recv_timeout` plus
  the handlers. Nothing is assumed of clients, ports, opens or closes.
- `FairSpec` of `WuartLink`: `WF` of a turn of each handler (`ServerTurn`) and
  of the client (`ClientTurn`): each runs in a thread or a process of its own
  and turns within `recv_timeout`, and `start_forever` tries again every ten
  seconds. Weak fairness of a turn as a whole, not of each thing it may do, is
  enough because a turn that goes on handling packets comes to the end of them:
  the sequences are finite. Nothing obliges the user to restart the client, a
  device to fail or a port to receive.

## 4. Proofs

All proof modules are checked by TLAPS to the last leaf, from the named
assumptions on the constants alone (`PlainAssumption`, `MaxLenAssumption`,
`ConfigAssumption`, `OfferedAssumption`, `SessionAssumption`,
`NoDevAssumption`, `ClientAssumption`, `LinkAssumption`, `FirmwareAssumption`)
and, where it says so, `~CloseMayFail` and `ExclusiveOpen`. `OfferedAssumption`
is what the callers of `send_packet` guarantee: a key is an ASCII word without
`=`, and the size fits its four bytes. `LinkAssumption` is what `WuartSession`
assumes of the constants the two modules share.

`SequenceInduction` has the induction the other modules use. The library states
induction for an arbitrary predicate, which the installed provers cannot
instantiate; here it is stated for an arbitrary *set* instead, which is a value
like any other: a set that holds 0, and with each i below n also i + 1, holds
0..n (`IntervalInduction`, from the existence of a least element). A proof by
induction defines the set of the indices for which its claim holds. From this
follow that a recursive function over 0..n is unique (`RecursionUnique`) and
exists (`RecursionExists`), and with it what the folds and recursive functions
of the models compute.

`WireFormatProofs`, for byte strings of any length:

- `DecodeUndoesEncode`: `bytes_decode(bytes_encode(v)) = v`, without an
  exception on the way. One step of the induction decodes the encoding of one
  byte, from the state in which the decoder begins a byte.
- `ParseReadsFrame`: a frame at the front of the buffer is found at position 1
  and read back as the packet it was made of, whatever stands behind it. The
  value may hold START, END or `=`: the search stops at the first START, and
  the first `=` ends the key.
- `ParseWaitsForFrame`: as long as a frame is incomplete nothing is found, also
  if its value holds a START.
- `FrameReadAnywhere`: a frame that is whole in a buffer is read as its packet
  wherever it begins, with the right checksum.

The rest of the module is about a stream: `LaidOut(w, F, s)` says that F is the
frames w one behind another, each with one START, at its front, and s the places
between them; `Stretch(F, a, b)` is the piece of it from a to b. In such a piece
every START is that of a frame (`StartInPiece`), also where the last byte of one
frame is `#`; so `parse` finds the first frame that is whole in the piece, or
nothing (`FoundFrame`, `FindsFrame`).

`WuartReceiverProofs`, for any packets, bounds and sizes of the buffer:

- `TypeCorrect`: `Spec => []TypeOK`, with any fragmentation.
- `CutInFrame`: `Spec => CutStaysInFrame`, an action property, with any
  fragmentation. It needs that decoding never makes a value longer, over a whole
  value (`CutShort`).
- `PacedDelivered`: `Spec /\ Paced => []QuiescentDelivered`. `Paced` says of the
  circumstances: the network is the "paced" one; both ends agree on `-e`; the
  encoded size still fits four bytes; and what the cut leaves of each frame is
  dropped by the discard rule. Each of these is needed. In particular
  the last one is a condition the proof found and no run had shown: with `-e`
  the rest is the end of the encoded value, the checksum and END, and if the
  checksum is `0x23` it holds a START that nothing completes. (The two bytes
  `01 2b` as data do it.) The invariant `PInv` says where in a frame the loop
  stands: k bytes of a frame are received and the rest of it is on the way, and
  the buffer holds just those k; or the frame is handled and the buffer holds
  what the cut left. While a frame arrives its beginning is in the buffer from
  START on, so that it is neither dropped nor parsed (`ParseWaitsForFrame`).
- `PlainDelivered`: without `-e` the rest of a frame is END or nothing, so that
  `Paced` holds of any packets, and the theorem asks nothing of them.
- `PacedChannel`: `Spec /\ Paced => Channel!Spec`; the loop implements
  `PacketChannel`, from the same invariant. Only its fairness is left to TLC.
- `HandledIsSent`: `Spec /\ Marked /\ [][Unstripped]_vars =>
  []HandledFollowsSent`, for any network, any number of frames and either
  setting of `-e` at either end. `Marked` says of the packets that a frame holds
  no START but its own; a value with a whole frame inside would otherwise, sent
  after a START that was cut and dropped, be handled as a packet. `Unstripped`
  says that no recv loses white space; what happens otherwise is in section 5.
  The invariant is `SInv` (`StreamHolds`): what is buffered and what is on its
  way are two neighbouring pieces of the stream of all frames sent, and there is
  a place in `sent` for each handled packet, which arrives as what was handled.
  These places never decrease, and all frames before the last of them begin in
  front of what the buffer holds, so that none of them is found any more
  (`Matched`). The buffer may lose its front (the cut) or all of itself (the
  discard rule), and stays such a piece. `Place`, with which
  `HandledFollowsSent` is stated, matches from the left, and is never behind such
  an assignment.
- `PacedIsSent`: on the "paced" network `Unstripped` always holds, so that
  nothing is asked but `Marked`; unlike in `PacedDelivered` the ends need not
  agree on `-e`, and the rest of a frame may be kept.
- `CoalescedDelivered`: for any L,
  `Spec /\ Bundled(L) /\ []Sparse(L) => []QuiescentDelivered`. `Bundled(L)`
  describes the circumstances: the "coalesced" network, both ends agree on `-e`,
  `Marked`, and each cut leaves at most L bytes of a frame, which does not end
  in white space or, if L is not 0, in `PACKET_MIN`. `Sparse(L)` says that what is
  pending fits the buffer and that L times the number of packets not yet handled
  is less than the shortest frame. The bound is tight: seven frames of 14 bytes,
  at two bytes each, are handled wrongly (section 3). The invariant `JInv(L)`
  keeps account of the rests: of the frames of one recv, after h - g have been
  handled, the next frame begins at most `L * (h - g)` bytes into the buffer. This
  is less than a frame, so that none of the frames already handled is whole any
  more (`HandledGone`), `parse` finds the next one (`FoundNext`), always finds
  one while there is one (`FindsNext`), and what is left at the end of the inner
  loop holds no START and is dropped (`BundleEnd`). `baud=921600` is no
  counterexample: its frame has a second START, and `Marked` fails.
- `CoalescedChannel`: the same hypotheses give `Channel!Spec`.
- `PlainCoalesced`: without `-e`, between two endpoints, L is 2, and `Bundled(2)`
  follows from `Marked`.

`WuartSessionProofs`, for any sets of sessions, ports and rates and any bounds:

- `TypeCorrect`: `Spec => []TypeOK`. `TypeOK` is inductive. `OpenOutcomes` and
  `StartType` carry the one difficult part, the outcomes of `uart_open`.
- `DeviceCorrect`: if close does not throw, `Spec => []DeviceMatchesConfig`.
  The invariant is inductive together with `TypeOK`, for one reason: each handler
  that changes `uart_path` or `uart_baud` to something complete goes through
  `uart_open`, and `OpenLeaves` says that this leaves no device or the one that
  was asked for. When close may throw it is false: the old device stays.
- `NoNeedlessReopen`: `Spec => ReopenedOnlyForChange`, an action property: by
  `OpenCases` a device is replaced only if `Same` failed, that is, if its path
  or rate differs.
- `PortsShared`, where moreover ports are opened exclusively: `Spec => []GInv`.
  `GInv` says: two sessions that hold the same port are one (`HoldersAgree`);
  nothing waits for a port that nobody holds (`UnheldEmpty`); what waits is the
  last that the port has received (`WaitsLatest`); no opening is numbered in the
  future (`OpeningsPast`); and if the last byte a session forwarded belongs to
  the device it holds, it is the byte before the first that waits (`Continues`).
- `BytesConserved`, under the same two conditions: `Spec => NoByteLost`, an
  action property. For a session that is connected and keeps its device, what is
  sent followed by what waits in the driver grows by exactly what arrives, over
  every step of any session, one lemma per kind of step: its own poll moves the
  front of what waits to the end of what is sent (`PollConserves`), because a
  held device is running (`HeldServed`); nobody else's poll, open or close
  touches its port (`OthersWait`, from `HoldersAgree`); its own handlers either
  keep the device and what waits, or do not keep it (`StartConserves`,
  `ClosedConserves`); a byte that arrives is put behind the others
  (`ReceiveConserves`). It promises nothing for a step that closes the device,
  nor in "fin", where the code reads and discards.

`WuartLinkProofs`, for any number of connections and bytes and any bounds:

- `UpstreamImplemented`: `Spec => UpstreamSpec`, the composed system implements
  the abstract channel: under the mapping `accepted <- SentData(s)`,
  `delivered <- server_wrote[s]` its initial states map to initial states, and
  each step to `Put`, to `Deliver` or to a stutter. The invariant is `LInv`. Its
  heart is `InStep`: while a session lives and runs, it has written exactly the
  data it has read. That holds because a session that refuses data is one that
  is not running, that it can only begin to run in the opening, which lies
  before all data, and that one that fails to write is gone. `LocalLatest` says
  that what waits in the client's port is a run of consecutive bytes, as the
  channel's `Offered` demands.

- `DownstreamImplemented`: `Spec => DownstreamSpec`, the other direction. It
  differs in that a session sends its errors on the same stream as its data, so
  that the place of a packet in `to_client` is not its place in the channel:
  `DataOf` numbers the data packets by counting those up to each. The invariant
  is `DInv`, which adds to `LInv`: what waits in a port is the last that it has
  received (`PortsInv`), so that what is forwarded is a run; a handler that has
  seen its client go sends no more (`Flowing`); and, the heart of it, `InTurn`:
  while the client handles a connection, it has written as many packets as there
  are data packets among those it has read. `ErrorsAppended`, `DataAppended`,
  `NextError` and `NextData` say what one packet more at the end, or one packet
  read, does to this count. None needs an induction, because `Reached` (each
  number up to the count is that of some packet) is part of the invariant.

`WuartEndToEndProofs`, likewise:

- `ServerImplemented`: `Spec => Sess!Spec`. Each step of the composed system is a
  step of `WuartSession` or leaves its variables alone, `Dispatch` being a
  `HandlePacket` with the value fixed. So the theorems about sessions under
  arbitrary clients hold of the sessions of the link (`ServerFacts`), and need
  not be proved again.
- `LinkTypeCorrect`: `Spec => []TypeOK`, from `DInv` and the rest of the client's
  state (`Ends`), with the fact that a session reads no more than it was sent.
- `UpstreamConsecutive`: the half of `EndToEnd` that concerns the remote port,
  under no condition. That the direction is a channel says that what is written
  is a first part of what was sent; what is missing is that the runs which are
  sent follow one another (`Chained`). The invariant is `UpEnd`: while what the
  client sends arrives, the last byte it has sent is the last that its port
  received before those that wait (`Continued`). A device that comes late would
  break this, were it not that the client opens its device only between
  connections. `FlatConsecutive` is the induction that makes one sequence of
  bytes of the runs; `FlattenSeq` is a recursive function, and `Flattening` says
  what it computes.
- `EndToEndCorrect`: `ExclusiveOpen` and `~CloseMayFail` give
  `Spec => []EndToEnd`. For the client's port the first byte forwarded must
  follow the last of the poll before, which is `Continues` of `GInv`: it speaks of
  bytes read from one opening of a device, and `OneOpening` says that a session
  of this client forwards from no more than one, since `path` comes before
  `baud` and a `start` for an unchanged configuration keeps the device.
  Without `ExclusiveOpen` the property is false as soon as there are two
  connections: the session of a client that has left and come back shares the
  port with the new one, and each is sent a part of the bytes.

`EscapeStreamProofs`, for values of any length made of any bytes:

- `TypeCorrect`, `NeverGrows` and `HasRoom`: the inductive invariant is `IInv`,
  the types with `DecodeNeverGrows` and `FirmwareHasRoom`. One byte adds at
  most one to the sum of output and state, for each state of each decoder.
- `RoundTripCorrect`: `RoundTrip` speaks only of moments when all is read and is
  not inductive. `RInv` says where the decoder stands at the others: the output is
  the value without its last byte r, and the state, the digit kept and the
  bytes still to be read are those of a position inside `EncodeByte(r)`
  (`Pending`). `PendingStep` follows one step through each position.
- `FirmwareAgreement`: from the same invariant. The two decoders can only part
  on a character that is no hexadecimal digit or for want of room; `RInv` rules
  out the first, `HasRoom` the second.
- `PrintableCorrect`: the unread bytes are printable; each `EncodeByte` is.
- `FirmwareFinishes` and `FirmwareUndoesEncode` say the same of
  `FirmwareDecoders`, the firmware's loop over a whole value that
  `FirmwarePacket` uses: with an output as long as the input it never gives up,
  whatever it reads and whatever `sscanf` leaves, and on the encoding of any
  value its only outcome is that value. The loop keeps a set of outcomes, on which
  the induction runs; `AlikeStep` keeps it a singleton.

`FirmwarePacketProofs`, for any heap, keys, values and limits:

- `TypeCorrect`, `OnlyMisuseCorrupts`, `Ownership`, `InitComplete`. From the
  first `packet_init` on the invariant is `Sound`, proved per function: types,
  no damage, every block in use owned once, and `val_size = 0`; before it, what
  the stack holds, with nothing owned but strings. The first `packet_init`
  releases NULL or corrupts (`ReleasedFirst`), and a copy corrupts if and only
  if its limit is 0 (`CopiesFit`, `NoRoom`): so `OnlyMisuseCorrupts` states
  `m.corrupt <=> misused`, in both directions. `val_size = 0` is a defect of the
  code (run `firmware_value`) that keeps another one from showing:
  `packet_do_encode` and `packet_do_decode` would free their output twice if
  they ever got that far. A fix of `packet_set_key_value` alone makes
  `OnlyMisuseCorrupts` false, which the mutant of `HeapSound` shows.

What is only model-checked:

- Liveness (`ChannelFairSpec`, `UartDrained`, `ReachesServer`, `ReachesClient`
  and the violated `Reconnects` and `PortReleased`): ENABLED and fairness are
  out of the prover's reach.
- `HandledFollowsSent` where a recv begins or ends in white space, or for values
  that hold a START: run `stream` has both, and the theorems exclude them, as the
  property is not true of all such values (section 5).

## 5. What the runs leave out on purpose

The positive results hold in these circumstances only, and each restriction is
the place of a weakness of the code:

- A START that is cut in two: the discard rule drops its first byte, since it
  compares with 8 (`PACKET_MIN & 0xFF`) and not with the first byte of START.
  `stream` allows such cuts, and shows that no false packet comes of them;
  `delivered` does not (`StartUncut`).
- A cut next to white space: `strip` takes the white space out of the frame
  (`InkedCut`). Such a frame is completed by bytes behind it, if at all. As a
  rule the checksum then refuses it, but not always: of the frame of `data` with
  the value `x\r\n`, cut right behind the value, `x` and the checksum arrive,
  and END; its `$` is taken for the last byte of the value and its `#` for the
  checksum. This is the right one, because `\r` and `\n` differ from each other
  as `#` and `$` do, in the bits of 7. `handle_packet` is given a packet that
  nobody sent, and `HandledFollowsSent` is false there. No value of run `stream`
  ends so; `HandledIsSent` excludes it by `Unstripped`.
- With `-e`, a value that holds START and a byte that grows when it is encoded:
  the cut is too short by the growth and leaves the encoded rest in the
  buffer. The offered values hold the one or the other.
- With `-e`, a value that needs encoding and whose encoded frame has the
  checksum `0x23`: the cut leaves `#`, and END behind it begins with `$`. The rest
  then holds a START of a frame that never arrives, and nothing is handled any
  more (section 4, `PacedDelivered`). No offered packet is such a one.
- With `-e` on one side only, `fromhex` throws on values that only look like
  escapes: `stream` has them, `delivered` does not.
- Several frames in one recv together with `baud=921600`: `coalesced_921600`; and
  so many short ones that their ENDs amount to a frame (section 3).
- Ports that two sessions may open at once: they split the bytes, and nothing
  in the code says otherwise. `session_drain` covers what still holds.
- Closes that throw: allowed in `session_drain`, excluded elsewhere.
- What a program does with a corrupted heap: `FirmwarePacket` stops there.
  `app_main` may get there by its first `packet_init`, as it leaves its
  `Packet_t` uninitialised; what else is checked of the firmware holds of it
  only if the stack holds two NULL pointers there.
- Bytes that wait in a driver when the device is closed, and those that arrive
  after the client has closed its end: the code loses them, and `NoByteLost`
  does not speak of them.

## 6. Not modelled

- The ESP8266_RTOS_SDK under `esp8266/`, more than 99.9 % of the C and header
  lines of the repository. It is a vendored copy of a vendor's SDK (FreeRTOS,
  lwIP, mbedTLS, FatFs, wpa_supplicant, console and others). The repository's
  programs use nothing of it but `malloc`, `calloc` and `free`, the set-up of
  the UART driver in `app_main` and logging; the heap is in `FirmwarePacket` as
  an external part. A model of its other components would not be about this
  system. The models cover the repository's own C code, `wuart_packet.c` and
  `wuart_utils.c` with their headers and the calls of `wireless_uart_main.c`,
  except for the log module.
- `wuart_log.c`: it prints, and changes no state.
- The firmware under `docker_on_win10` is the same code as that under
  `docker_on_linux`.
- Build scripts, containers, sdkconfig.
- `sendall` blocking for ever: both ends send from the thread that receives, so
  that two full TCP windows would leave each waiting for the other. The streams
  of `WuartLink` are unbounded; a serial line does not fill a window while its
  reader lives.
- `recv_buffer` outliving a connection in the client: since a socket object
  connects at most once (run `reconnect`), there is no second connection that
  would see it.
- `serial.Serial.write` blocking for ever.
- Values and keys with multi-byte characters. A key that is not ASCII ends in
  the same exception or the same "unknown keyword" whatever it holds.
- `client_count`, which is incremented without a lock and appears in log lines
  only; `parse` of the packet generator, which nothing calls; logging, argument
  parsing and time itself. Time-outs of `select` appear as "the loop takes
  another turn", and the end of the server's process as the end of each of its
  sessions.

## 7. What a continuation would do

- A run for the value `x\r\n` of section 5 and one for seven short frames in one
  recv, should the code come to promise anything of them.
- `Bundled` for endpoints with `-e`: which L the growth of the encoded values
  asks for.
- If the client is changed to make a new socket per attempt, `Connect` loses its
  guard, `recv_buffer` becomes a hazard, and `Reconnects` should then pass.
