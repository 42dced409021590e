# A TLA+ verification project for qwnet_library

qwnet_library is the client side of the QuakeWorld network protocol as a C
library: it gets a connection, sends movement commands at a fixed rate, carries
console commands and server messages over a reliable channel on top of UDP, and
parses what the server sends. This directory models it in TLA+, checks the
models with TLC and proves the central ones with TLAPS. All paths below are
relative to the repository (`src/netqw.c` is line-numbered as `netqw.c:N`).

The build that is modelled is the one of `compile.sh`: Linux, pthreads, `-O0`, so
that each memory access in the source is an access of the program.
`src/net_chan.c` is not part of that build; it holds the other end of the
channel, and is modelled as the server. The thread and socket functions of the
other ports (Windows, MorphOS, none) are modelled where the lifecycle depends on
them, and a clock that can be set back (sys_linux.c:165) where waiting does.

## 1. Inventory

### Threads and how they meet

| Thread | Runs | Shares |
|---|---|---|
| net thread, one per `struct NetQW` | `NetQW_Thread`: receive, handle delayed packets, send; waits at most 50 ms | everything in `struct NetQW` |
| client thread, one per `struct qw_connection` | `QWC_Thread_Handler` → `QWC_Thread`: read messages, generate and copy frames, parse | the packet queue, the frame ring, the reliable buffers (by `NetQW_*` calls), `struct qw_connection` |
| application threads | `QWC_Connect`, `QWC_Disconnect`, `QWC_Quit`, `QWC_Say`, `QWC_GetConsoleOutput`, ... | `struct qw_connection`, the reliable buffers |
| the server | external | the network: packets are lost, repeated, reordered |

One mutex in `struct NetQW` protects what its comment calls "Shared between
threads" (netqw.c:114). Several places do without it; most of the hazards below
come from there.

### Components

| Component | State | Operations | Hard behaviour | What makes it correct | Module |
|---|---|---|---|---|---|
| reliable channel | sequence numbers, two even/odd bits, the batch in flight | `NetQW_AppendReliableBuffer`, `DoSend`, `DoReceive`, `HandleReceivedPacket` | loss, duplicates, reordering of packets *and of acknowledgements* | commands and messages are read once and in order; nothing is freed before it is read | `ReliableLink` |
| server end of the channel | `struct netchan_s` | `Netchan_Process`, `Netchan_Transmit` | the same | the same | `ReliableLink` |
| reliable buffer list | a linked list with head and tail | append, walk, release | the release takes no mutex | no buffer is lost or used after being freed | `ReliableBuffers` |
| received packet queues | two lists of reference-counted packets | arrive, handle when due, read, delete | two threads free the same packet; the lag changes while packets wait | freed once, never while in use; read once and in order; handled in order | `PacketQueue` |
| movement frames | a ring of 64 frames and counters of what is to be sent and copied | generate (both threads), send, copy, set the delta point | ring overrun, unlocked reads, late frames | each packet has the last three commands; delta points are fresh; the copy tells what was sent | `FrameRing` |
| handshake | `state`, challenge, resend timer, Huffman context | request, repeat, answer | late and repeated answers | one connection, with what the server accepted, in the end | `Handshake` |
| delayed sending and packet loss | a send queue; a ring of 200 marks | `SendPacket`, the queue's part of `NetQW_Thread`, `HandleReceivedPacket` | lag changes and clock jumps while packets wait; unsigned windows over slots used again | only packets that did not wait overtake; the figure is the share of unanswered packets | `SendPath` |
| Huffman coding | tables | compress, decompress | bit boundaries, incompressible packets, what lies behind the input | what is sent can be read | `Huffman`, `HuffmanTables` |
| connection lifecycle | two threads, `netqw`, `run_thread`, `quit`, `abort`, and what the system gave | create, delete, connect, disconnect, quit | a thread uses what another has freed; a thread joins itself; every creation may be refused | no use after free, nothing left behind, every call returns unless it joins a thread that never ends | `Lifecycle` |
| threads, mutexes, sockets | system objects | `Sys_Thread_*`, `Sys_Net_*` on four ports | one of several acquisitions fails | what was acquired is given back | `Ports` |
| addresses | `struct netaddr` | `NET_StringTo*`, `NET_Compare*` | strings of people | only the named server connects | `Network` |
| message reader | read position, `msg_badread` | `MSG_BeginReading`, `MSG_Read*` | messages that end early | the end is noticed | `MsgRead` |
| server message parser | sign-on, download, entities, delta point | `ParseServerMessage` and its helpers | conditional payloads; levels that change; interleaved downloads | the parser keeps its place; the sign-on loads each part once; files and deltas are right | `Payloads`, `ServerMessage`, `SignOn` |
| console output | a line buffer, a list of strings | `ParsePrint`, `QWC_StringAdd`, `QWC_GetConsoleOutput` | appended by one thread, taken by another, freed by a third | every line is delivered once and whole | `ServerMessage` |
| clock, sleeping, utilities, Perl binding | – | – | – | – | the clock in `PacketQueue` and `SendPath`, sleeping in `Lifecycle`; the rest not modelled |

`PROJECT.json` lists every hazard at its line, with the property that covers it
or the reason why none does yet.

## 2. Modules

### ReliableStream – what a direction of the channel promises

An abstract specification: items are written; unread items are read, some at a
time, once and in order.

### ReliableLink – the channel itself

Both ends and the network. Client state keeps the names of `struct NetQW`,
server state those of `struct netchan_s` with the prefix `sv_`. Commands and
messages are numbered in the order of writing, so the client's list is the
interval `reliablebufferhead .. reliablebuffertail`, and a packet's payload is
"`count` items after item `after`".

| Action | Code |
|---|---|
| `AppendReliableBuffer` | `NetQW_AppendReliableBuffer` |
| `DoSend` | one pass of the connected loop of `NetQW_Thread_DoSend` |
| `DoReceive(q)` | `NetQW_Thread_DoReceive` and `NetQW_Thread_HandleReceivedPacket`, without lag |
| `ServerReceive(p)` | `Netchan_Process`, then the server's synchronisation of its sequence number |
| `ServerTransmit` | `Netchan_Transmit` |
| `ServerWrite` | the server program writes a message |

`c2s` and `s2c` are sets of all packets ever sent: a receive takes any of them at
any time and leaves it there. Loss is never receiving one, duplication is
receiving it again, reordering is receiving another one first.

*Assumption on the server.* The server is outside the repository. `SyncSequence`
and `MayTransmit` say what the client's code relies on: the server's own
sequence number follows the client's and it sends one packet in answer to what
it has read. `NetQW_Thread_HandleReceivedPacket` compares a reply's *own*
sequence number with that of its batch (netqw.c:461) and not the acknowledged
one. With a server that sends when it likes (`MayTransmit` replaced by
`sv_outgoing_sequence <= MaxFrames`) the client believes
such a packet, and `RetransmitOnlyAfterDrop` and `CommandsInOrder`
both fail. The assumption is therefore needed, and everything said about the
channel depends on it.

### ReliableBuffers – the list behind it, one memory access at a time

`ReliableLink` changes the list atomically. Here every access of the three
functions that touch it is an action: `Lock`, `TestTail`, `Link`/`First`,
`SetTail` of the append (under the mutex); `Send` (the walk, under the mutex);
`Take`, `Unlink`, `Free`, `Check`, `Clear` of the release (without it). A
write through a null or freed pointer ends the behaviour, with `fault` set.
Accesses interleave sequentially; a weaker memory could only add behaviours.

### PacketQueue – received packets

The net thread receives and handles, the client's thread reads through
`GetPacketLength`, `GetPacketData` and `FreePacket`, the application changes the
lag and deletes. One action is what a thread does under the mutex. The delay of a
packet is `lag / 2` in ticks, or 0.

`QWC_Disconnect` calls `NetQW_Delete` before it stops and joins the client's thread
(main.c:1062-1067), so the steps of `NetQW_Delete` come between any two of the reader's:
`DeleteThread` (the net thread is joined), `DeleteMutex`, then one packet at a time. The
reader is followed as long as there is a mutex to take (`Locks`). Behind that it
reads freed memory, which `Lifecycle` has as an illegal access. The clock may be set
back once: the net thread makes its packets due (`SanityCheck`, netqw.c:893), but a reader
between `GetPacketLength` and `GetPacketData` is given no packet and copies from null
(`phase = "crashed"`). `HeldPacketStays` says that nothing else leads there, and that until
the mutex is deleted the packet in hand is allocated and the head of the queue.

### FrameRing – movement frames

`GenerateFrames` is called by both threads under the mutex; the sending loop of
`DoSend` reads three slots and then the delta (`Build`, `AppendDelta`) without it,
and updates the counters under it (`Commit`). `CopyFrames`, `SetDeltaPoint` and the
lookup of `ParseClientData` are the client's. A frame stands for its command: it
is named by its order of generation, which is the sequence number of the packet
it is sent in. Time is counted in frame periods: `due` is the number of periods
between `lastmovesendtime` and now. `overrun` is a history: the last frame generated when
more waited than the ring has slots.

### Handshake – getting connected

`DoSend` while not connected, the three answers in `DoReceive`, the timer, a server
that remembers a challenge and may forget it, and a network that loses and
repeats. A Huffman table is "none", "known" or "unknown" to the client.

### SendPath – sending, and what is measured of it

`NetQW_Thread_SendPacket` with compression and lag, the send queue, and the ring of
replies from which `packetloss` is computed. One action is one visit of the net
thread to the queue (`SendMove`, `Release`), to the socket (`Receive`) or the end
(`NetQW_Thread_Disconnect`, which sends three "drop" packets at once, past the queue;
what waits in the queue is never sent);
`step` is where its loop is. `wire` and `replied` are histories.

`Huffman` gives bytes to bytes, with the tables of `huffmantable_q3.h` as they are
(`HuffmanTables`; the decoding table, 2048 entries in the code, is written once per
code). `huffdecbyte` reads three bytes at a time, so decompression has the byte
that follows the packet as a parameter, and the round trip must not depend on it.
The proofs use of the tables only what `TablesAssumption` says of them, and TLC
evaluates that on the tables themselves: a code has 1 to 11 bits, and wherever the 11
bits under the reader begin with it, the decoding table has its byte and its length.

### Lifecycle – threads that start and end, on four ports

One action is one access to what threads share, so that `QWC_Disconnect` is
`CallDelete`, the steps of `NetQW_Delete`, three assignments and `JoinClient`.
`pc` and `stack` say where the application and the client's thread are; both may be
in `QWC_Quit` at once, because the client's thread quits when `abort` is set. Each
connection is a record `net[p]` with its own thread, its `state`, what it
holds of the system (`held`), the address it was given and the one that connected.
A bad access sets `fault` and ends the behaviour, as it may end the program.
`UseNet` is the reading and parsing of messages; it ends, or sets `abort`, or stays in
`FlushEntityPacket` for ever (`"flush"`), whose loop ends only at a word of 0
(main.c:326-334). A client's thread in there never looks at `run_thread`.

`Ports` is the table of the sets of functions: for each port, what
`Sys_Thread_CreateThread`, `Sys_Thread_CreateMutex`, `Sys_Net_Init` and
`Sys_Net_CreateSocket` acquire, in order, and what they forget when a later
acquisition is refused; what the deleting functions give back, and when they
return. `Network` reads the host string, as a sequence of tokens, and
compares addresses. A datagram may come from the server, from another port of its
machine or from another machine.

The application behaves as testprogram.c and test.pl: one thread, which does not
disconnect what it has not connected, and frees `qwc` once `QWC_GetQuit` or
`QWC_GetState` say that all is over. It does not call `QWC_Set_FPS`, as testprogram.c:23 does.

### ServerMessage – messages and their parsers

A message is a sequence of fields (`<<"byte", v>>`, `<<"string", s>>`, ...), possibly cut.
`MsgRead` has the read position and `msg_badread`, as message_reading.c moves and sets
them; `Payloads` has what each parser reads, and next to it what a server writes. The
parser has lost its place when the kinds of the two differ (`fault = "out of step"`).
One action is one command. The server sends on one topic per behaviour: the sign-on,
one message of any kind, prints, downloads, or entities.

The two sides are only as independent as the repository allows; it has no server:

| What the server writes behind | is taken from |
|---|---|
| the commands of `InProtocol` | the comments of protocol.h:64-135, written down without regard to the parser |
| entities (`Entity`) | protocol.h:203-222 |
| a player's movement (`Usercmd`) | the client's own writer, netqw.c:155-223; for protocol version 26, which it does not know, the parser |
| damage, setinfo, spawnbaseline, playerinfo, sound, temp_entity | the parser alone: protocol.h says nothing, "\<see code\>" or "variable", so that the parser keeps its place in them says little |
| stopsound, spawnstatic, serverinfo, nails2, maxspeed, entgravity, qizmovoice (`Undocumented`) | nothing: main.c reads them as empty and protocol.h does not say what they have, so a byte of any value stands for it |
| download | the parser: protocol.h:121 has a size and the data, main.c:74 reads a percentage between them; for a file that is missing the size is -1 and the percentage 0 or 50 |

`FlushEntityPacket` is followed word by word while the reader is in step. Once it is
not, whether a word is 0 depends on bytes that were written as something else, so it
ends or goes on for ever (`stuck`), whichever the bytes make it do. Two words lead there: the
first entity of *every* full update that is not empty, because
`ParsePacketEntities` flushes from the word behind it and `ParseDelta` is never called for it
(main.c:412-416), and every entity with U_MOREBITS, for which `ParseDelta` tests U_MODEL, one of
the bits it has just cleared (main.c:284-290; protocol.h:214 says "if MOREBITS is set, these
additional flags are read in next").

`SignOn` is the abstract specification of signing on: each part of the level that is
entered is loaded once and in order although levels change on the way, and a
client is in the end on a level. `SignOnSpec` is the refinement, with liveness.

### Seeded bugs

An operator whose comment starts with "Seeded bug" is not part of a
specification. It stands before the definition it would replace, and each
property of a passing run is violated when one of them does so (`PROJECT.json`,
"mutants"). This shows that the run's bounds are large enough for the property
to be able to fail.

## 3. Runs

`tlc -config X.cfg M` in this directory. A constant named `Max...` is a bound of
the run and appears only in guards.

| Run | Bounds | States | Shows |
|---|---|---|---|
| `link` (MCReliableLink) | 5 client packets, 2 commands, 2 messages, 2 commands per packet | 705,557 | commands and messages are read once and in order, are freed and cleared only when read, are sent again only after an acknowledgement of the packet; both directions implement `ReliableStream`; `IInv` holds |
| `packet_queue` (MCPacketQueue) | 3 arrivals with 2 sequence numbers, clock to 2 and set back once, a second of 1 tick, delays 0, 1, 2, `NetQW_Delete` between any two steps | 343,401 | counting, holding until the mutex is deleted, order of reading; every packet is handled and read in the end |
| `lag_duplicates` (MCPacketQueueLag) | the same packet twice | – | *violation* of `HandledInOrder`, finding 1 |
| `reliable_buffers` (MCReliableBuffers) | 6 buffers, two appending threads, 2 per packet | 12,196 | what survives the unlocked release |
| `buffers_lost` (MCReliableBuffersLost) | 3 buffers | – | *violation* of `NoCommandLost`, finding 2 |
| `frame_ring` (MCFrameRing) | ring of 4, 5 frames late, 6 frames | 387,678 | packets have the right commands while no more than 2 frames wait, delta points are kept by the server but for an overrun, the acknowledged frame is found, every frame is sent |
| `copied_delta` (MCFrameRingDelta) | ring of 4, 5 frames | – | *violation* of `CopyTellsDelta`, finding 3 |
| `clock_jump` (MCFrameRingJump) | ring of 8, a second of 2 frames | – | *violation* of `NoCatastrophe`, finding 4 |
| `handshake` (MCHandshake) | 2 challenges, 3 ticks between requests, the server forgets once | 10,563 | one connection, as accepted, requests spaced, connected in the end |
| `lifecycle` (MCLifecycle) | four ports, two connections, six host strings, any refusal | 126,040 | the net thread never outlives its NetQW; without a failure or an abort the only illegal access is the one of main.c:1062-1067; nothing is left behind; only the named server connects; every call returns, but for the join of a client's thread that flushes for ever |
| `server_message` (MCServerMessage) | 3 sounds, 2 models, 2 blocks, 2 levels, lines of 4 bytes, 4 messages | 62,259 | the parser keeps its place but for `NotRead`, a download of size -1 and the updates of `Misreadable`; cut messages are noticed but for the same and floats; lines, files, delta points; the sign-on is implemented |
| `wire` (MCSendPath) | ring of 4, lags 0 and 2, 5 packets, clock to 1 and set back once, contents of up to 4 bytes of {0, 1, 247} and every single byte between zeros | 1,280,672 | order of sending, round trip of compression, the packet loss |

The type invariants of `ReliableLink` and `Handshake` are proved (and part of
`IInv`), so no run repeats them; that of `ReliableBuffers` says nothing the other
properties do not.

Why the bounds are enough:

- *link*: five client packets are enough for a batch to be sent, lost, found lost
  by a late reply and sent again while its first copy is still on the way, and for a
  second batch to reuse the first one's even/odd bit. Two commands and two items
  per packet give batches of one and of several. Beyond any bound, the proofs hold.
- *packet_queue*: one packet handled before, one during and one after a change of
  lag, with delays that overtake each other; the deletion begins and goes on at every
  point of the reader's three calls.
- *reliable_buffers*: three batches of two, so a list is emptied and built again;
  two appending threads are as many as the program has kinds of.
- *frame_ring*: six frames go around a ring of four, and each packet needs three
  slots, so every slot is reused while its neighbours are in use. Up to five frames wait,
  which is more than the ring has slots: the properties say for themselves where they end.
- *handshake*: two challenges tell an old answer from a new one, and with an
  interval of three ticks a repeat can be early, on time and late.

- *packet_queue* again: a second of one tick and delays of one and two put packets on
  both sides of the check against clock jumps, before and after the jump.
- *wire*: five packets go around a ring of four; 0, 1 and 247 have the shortest code, one
  of 5 bits and the longest, so that packets end at every bit of a byte and some do not
  shrink; the first packet tries every byte's code.
- *lifecycle*: a second connection is what a first one that was not cleaned up would meet;
  the hosts are a name, a number, both with a port, one whose port or number is
  out of range, and "local".
- *server_message*: lists take two chunks, a level may change between any two of
  them, a download has a middle and an end, a line may be longer than the buffer,
  and four messages in any order make a full update between two deltas.

Deadlock is not checked: all runs are bounded and stop at their bounds, a deleted
connection and a faulted list are final states of the program.

### Fairness

- The net thread polls (its wait is at most 50 ms) and the client's thread loops at
  the frame rate: weak fairness of their actions in `PacketQueue` and `FrameRing`,
  and of `DoSend` in `Handshake`. The clock advances: weak fairness of `Tick`.
- The network does not lose every copy of a packet that is sent again and again:
  strong fairness of receiving the request and its answers in `Handshake`.
- In `Lifecycle` the threads of a process get to run: weak fairness of the
  application's calls, once it has made them, of the client's thread and of each net
  thread. Joins are part of these actions and wait for what they wait for.
- In `ServerMessage` the client's thread takes messages at its frame rate and the server
  answers requests: weak fairness of `Get_Message`, `ParseServerMessage` and `Answer`.
- `ReliableLink`, `ReliableBuffers` and `SendPath` assume none; only safety is claimed of them.

### Findings

1. *A lag disables the duplicate test* (netqw.c:638). `last_incoming_sequence_number`
   is assigned when a packet is handled, `lag / 2` after it arrived. A duplicate
   that arrives before that is accepted and handled, which flips the even/odd bit
   of the acknowledgement twice. The protocol is to "discard stale or duplicated
   packets" (net_chan.c:350). Without a lag the promise holds, by `ReliableLink`.
2. *The release of reliable buffers takes no mutex* (netqw.c:476-486). A command
   appended while the last one is released is neither sent nor freed. In the same
   race the appending thread can write to the freed buffer, or through a tail
   that was null between its test and its use; and a list can be left with
   a tail but no head, so that all later commands are lost. What survives is
   stated by `NetThreadSafe`, `ReleasedInOrder` and `HeadHasTail`.
3. *The delta point goes to the wrong copy* (netqw.c:265-266). It is written to the
   frame that is sent next, which the client may have copied before. The packet
   asks for a delta while the client's copy says "-1 = full update" (client.h:114).
4. *The guard against clock jumps covers one thread of two* (netqw.c:240, 711).
   `DoNetQWStuff` (main.c:57) generates the whole backlog from the client's thread.

Observations that are not findings:

- `PacketHasLastThree` holds while `framestosend <= UPDATE_BACKUP - 2`: with one frame more
  waiting, the generating thread overwrites a slot that is still to be sent. The
  real ring has 64 slots and the only limit is a second, 72 frames by default, and only in
  `DoSend`. `DeltaIsKept` excuses the frames up to the last overrun, whose slots may have got
  the delta point of another packet.
- `OnlyMisread` names all that makes the parser lose its place in a whole message: what it
  reads as empty (`NotRead`: svc_time, svc_intermission, svc_finale, svc_nails, svc_setview,
  svc_setpause, svc_deltapacketentities and, if anything is behind them, the seven of
  `Undocumented`); a download of size -1, behind which the position goes back a byte, so that
  its percentage is read again as a command (main.c:90); and an update whose first
  entity has a payload or a later one a second byte of flags (`Misreadable`).
- `CutIsNoticed`: `MSG_ReadFloat`, downloads and `NotRead` do not set or look at
  `msg_badread`, so a message that is cut there is taken for a whole one.
  `FlushEntityPacket` goes on for ever only on an update that is cut or of `Misreadable`; it
  does on whole ones, such as 47, a word with U_FRAME, the frame, 0, 0.
- `FileIsWhole`: the file pointer is compared with NULL instead of assigned at the end
  of a download (main.c:111), and a second download may begin inside a first.
- `LinesArrive`: a line longer than the buffer moves the position behind it
  (main.c:639); `QWC_Quit` frees lines that `QWC_GetConsoleOutput` still finds. `QWC_Destroy`
  is one step here, so a line that is freed *while* it is taken is not seen.
- `DeltaPointIsKept` holds because a full update that is not empty is flushed; so the
  client asks for deltas, which it does not read, only from empty ones.
- "reconnect" and svc_disconnect are printed and otherwise ignored.
- A lag set to 0 lets packets overtake those that wait; `SentInOrder` excuses them.
- `LossIsShare`: the two newest slots are outside of the window, and the ring is not
  cleared by `NetQW_Create`; the figure is right all the same.
- `QWC_Connect` assigns QWC_CONNECTING, which is 2, the value of `qwc_state_connected`, and
  QWC_IDLE, 1, that of `qwc_state_connecting` (qw_connection.h:5-15); and the client's thread
  sets `qwc_state_connected` as soon as its net thread has a socket (main.c:1125).
- A NetQW without a thread has no mutex, and the first lock follows a null pointer on
  all ports but the null one (netqw.c:1045, 1186).
- Windows never deletes a critical section; Windows and POSIX lose the descriptor when
  FIONBIO is refused (`Forgotten`). Windows and MorphOS cannot shut down a network
  that was not initialised.
- "local" never connects: no port has a socket for NA_LOOPBACK. With a port behind
  it, it is looked up as a name.
- When the client's thread quits after an abort, `QWC_Quit` of the application may
  return before that has ended; so `CleanAfterDisconnect` excuses an abort.
- `NET_Shutdown` takes the global `netdata` (net.c:53, 590), which nothing sets, instead of
  `qwc->netdata`; the library never gets there, its socket is not opened through net.c.
- A server that has forgotten the challenge answers every connect request with a
  printed message, and the client repeats the same request for ever;
  `EventuallyConnected` excuses such a server.

## 4. Proofs

Eight modules, each named after what it proves about (`ReliableLinkProof`, ...), hold for
every value of the constants, so for any number of packets, commands, messages,
frames, repetitions, challenges, appending threads and connections, for rings of any
size, any lags and any clock, for texts, files, lists and compressed packets of any
length, and on any of the four ports. What they assume is named in the component's
module and evaluated by its run:

| Assumption | Says |
|---|---|
| `LinkAssumption`, `HandshakeAssumption`, `SendPathAssumption`, `QueueAssumption`, `BuffersAssumption`, `RingAssumption`, `LifecycleAssumption`, `ServerMessageAssumption` | the bounds are natural numbers; a packet has room for a command; a ring has slots, that of the frames three; a level has a block, a line's buffer a byte; the interval between requests is not 0; no lag is among the lags; 0, which stands for "no challenge", is not a challenge; the ports are among the four |
| `TablesAssumption`, `BytesAssumption` | the tables of huffmantable_q3.h fit together (above); a packet's contents are bytes |
| `MAX_MSGLENAssumption`, `LengthAssumption` | no packet of the client is longer than MAX_MSGLEN: it stops at 1450 bytes (netqw.c:785) and its moves come before; without this, `Huff_DecompressPacket` stops early |

Each proof has the same plan: `IInv`, a conjunction of named parts, holds at first
(`InitInv`) and is kept by every step (`NextInv`, one lemma per action), and each
property follows from it. TLC has checked each `IInv` on the run of its component
before the proof; what the parts are for follows.

**ReliableLink.** `IInv` is inductive (`Invariance`), and the safety properties,
`RetransmitOnlyAfterDrop` and both refinements follow from it. None of the
properties is inductive by itself: that the next packet carries unread commands
depends on what old packets in the network say. `IInv` has, besides the types:

- `SequenceInv`: which sequence numbers exist. The server's never exceed the
  client's, and a reply's own number is at most the number it acknowledges. That is
  why the test of netqw.c:461 is sound.
- `CommandBits`: the batch in flight has been read, and the two ends' bits
  agree; or it has not, and they differ.
- `CommandLive`: of all packets in the network only the latest copy of the current
  batch can still be read: the older copies are stale once it is known that they
  were lost.
- `CommandReplies`: a reply as late as the batch carries the server's final bit.
- `MessageBits`, `MessageLive`, `MessageAcks`: the mirror image for the server's
  buffer. `MessageAcks` is longer because the server looks at *two* things, the
  acknowledged number and the bit, at two different times.

**Handshake.** `IInv` adds to the properties `OnlyMyConnect` (no connect request
precedes the challenge, and only one such request can ever be in flight, so any
connection answers it) and `TimerInv` (what is left of the timer and what has
passed since the last request make up the interval).

**SendPath.** `IInv` is `TypeInv`, `OrderInv`, `SentInOrder` and `RingInv`. `OrderInv` is what
`SentInOrder` lacks to be inductive: the queue is in the order of sending, and a
sent packet that overtook one that still waits did not wait itself. `RingInv`
says that the slots of the last `PLPACKETHISTORYCOUNT` packets tell which of these were
answered, whatever the ring held at first. From it, `LossIsShareAlways` compares the
loop of netqw.c:445-451, which counts slots, with a count of packets, by a
bijection between the two.

`RoundTrip` is the theorem about `Huffman`: whatever lies behind it in memory, a packet
is decompressed to what it was compressed from. It has no bound but MAX_MSGLEN. The
compressed packet is the bits of its bytes' codes, one after the other (`CodesRecursion`),
packed eight to a byte, with the length of the padding in the byte before; the
decompressor, having read the bits of k codes, has under it the bits of the next
(`TablesAssumption`), and stops where the padding begins. Both loops are recursive
functions, unfolded once each by `Recursion`, and what they compute is shown by
induction over the natural numbers; `Induction` states that with a set in the place of
the predicate, so that no backend needs to guess one. `SentIsReadableAlways` applies it
to every packet that was sent or waits.

**PacketQueue.** The client's queue holds the newest packets without a gap, the delayed
one an increasing selection of those allocated (`QueueInv`); a packet's `usecount` is
the number of queues that hold it (`CountInv`); what the reader has copied is what came
before the client's queue (`ReadInv`), and what it works on is the head of that queue
(`ReaderInv`). The last two support each other: only the reader takes packets off
the queue, and only because of that is the packet it holds without the mutex
still the one `FreePacket` frees. `NetQW_Delete` shortens the queues too, at any point of the
reader's calls, but only once it has deleted the mutex: so both parts compare the queue
with what the reader has only while there is one (`Locks`).

**ReliableBuffers.** The release takes no mutex, so the shape of the list depends on where
two threads are. `ListInv`: from the head on, each buffer leads to the next one
allocated, up to the last one linked (`Last`, which is not the newest while an appender
is between its allocation and its link). `NetInv`: the net thread, wherever it is in its
release, has as many buffers ahead of it as it is still to free (`AtLeast`). `TailInv`
is why an appender cannot take these away: while a batch is in flight the tail is
not null, so an appender links behind it and never takes the branch that writes
the head; and who found the tail null has the list for himself. `Reach` is the least
set that is closed under `next`; the walk of `DoSend` stays in it.

**FrameRing.** `HoldsLast` says of either ring that each of its slots holds the latest frame of
that slot, generated or copied; `PacketInv`, of the frames that wait, that only the next
one has a delta point, which the server still keeps, as long as it is newer than the last
`overrun`. Nothing is assumed of how late a thread is. That `PacketHasLastThree` asks for
`framestosend <= UPDATE_BACKUP - 2` is the weakest such bound: with one frame more, TLC finds
a packet with the wrong commands. `AcknowledgedFrameIsCopied` needs no such condition.

**Lifecycle.** `IInv` has six parts. `PlaceInv`: from where the application and the client's
thread are, what their stacks hold. `NetInv`: in every NetQW ever allocated, what it may
hold of the system by the state its thread is in, on the port at hand (`Held`), that it is
freed only without a thread, and that its address is what its host string names
(`Reached`). `HandInv`, of the pointer each caller has given to `NetQW_Delete`: behind the
join, that NetQW has no thread, and behind the deletion of the mutex nothing that is
not forgotten; two callers may be there at once, with the same pointer. `QwcInv`: what
`qwc` holds. `ClientInv`: when there is no client's thread, and that it is in `QWC_Quit`
only when `abort` is set. `FreedInv`: only the newest NetQW is not freed, and `qwc`
points at it. For `ConnectedAsNamed` lemmas about `Network` (`AddressIs` and those before it)
say what `NET_StringToAdr` makes of any sequence of tokens; for the ports, lemmas
such as `ThreadsOf`, `SocketsOf`, `GivenBack` and `Joining` say what all four have in common.

`OnlyClientRaces` needs a second invariant on top of the first, `RaceInv`: as long as
nothing was refused and `abort` is not set, the application has at hand what its next
step will use (`ReadyInv`), so every bad access is the client's. It is not part of
`IInv`, because a refusal or an abort ends what it says.

**ServerMessage.** What is proved of the parser rests on `BaseInv` (`BaseAlways`): each packet on
its way is a beginning of commands of its topic (`IsPacket`), each byte the client reads
is one a server may send in its place (`Says`), and each request is one that its
server answers (`Asks`). So a command is known to be the first of its message, a text
what a server stuffs, a block of a file one of that file, wherever the
reader stands; and each parser changes only the fields that are its own (`Alters`,
`Steps`). The lemmas before it say what the operators on sequences of sequences, the
loops of the reader (`ReadAll`, `Repeat`) and `Written` do for any argument.

- `LinesArrive`: `LinesInv` adds what `ParsePrint` relies on without saying so: as long as no
  line was too long, `buffer_position` is within the buffer. One line is taken away
  from the middle of the list (`LeftFirst`) or added at its end (`LeftMore`).
- `DeltaPointIsKept`: `DeltaInv` counts. The updates the client has had and those on their
  way are those the server has sent, in that order, so the one being read has the entities
  that the server believes; and `ParsePacketEntities` keeps the number of an
  update as its delta point only if its first word is 0.
- `FileIsWhole`: `FaultInv` says that a file is closed only behind the end of a download.
  `DownloadInv` follows one block around: as long as downloads did not overlap, of the request,
  the block and the request for more exactly one is on its way (`Alone`, among what else is
  said), and the file has what was sent before it (`Asking`, `Going`, `Coming`,
  `Reading`). Once they overlap, nothing of this is left. A file that does not exist is the
  case `Doomed`: the reader stands one byte back, on what will be read as svc_bad.

**Only model-checked:** all liveness properties, and with them the refinement `SignOnSpec`
(fairness and ENABLED are out of the provers' reach); `OnlyMisread` and `CutIsNoticed`, which
need in addition to `BaseInv` where the reader stands behind every payload that can be
written, cut or whole, misread or not, and are checked for the commands of `Catalogue` at
every cut. The four violated properties need no proof.

## 5. What is left out, and why

- *Payloads in the channel*: whether a buffer fits in a packet is a choice in
  `ReliableLink` (`Batch`); so a buffer that never fits is not found there.
- *Lag in the channel*: `ReliableLink` handles packets at once. With lag its
  promises fail (finding 1); `PacketQueue` shows where.
- *The 31-bit sequence number*: it wraps after 345 days at 72 frames a second.
- *`NetQW_SetFPS`*: testprogram.c:23 calls it, through `QWC_Set_FPS`, while both threads run.
  It writes the rate under the mutex (netqw.c:1120); `FrameRing` lets frames become
  due one after the other, at whatever rate. That it uses `qwc->netqw` after a failed
  `QWC_Connect`, as every other call may, is in `Lifecycle` only for these others.
- *`NetQW_SetTeleport`, `NetQW_LockMovement`*: nothing in the library calls them.
- *The checksum of a packet* (`COM_BlockSequenceCRCByte`): the server checks it, nothing in
  the library depends on it.
- *`NET_GetPacket`*: `ReadPackets` calls it (main.c:1028), but it never has a packet: nothing
  sends on the loopback ring and no socket is opened through net.c (net.c:431-437). Only its
  use of `qwc->netdata` is modelled (`ReadPackets` of `Lifecycle`).
- *The loopback ring, `NET_OpenSocket`, `NET_SendPacket`, `Sys_Net_Bind`,
  `Sys_Net_ResolveAddress` and the printing of addresses*: they have no caller in the library
  that gets there. `NET_ServerConfig` is called by `NET_Shutdown` and finds nothing to close.
- *malloc that fails*: folded into "no NetQW" and "refused"; the parsers do not check it.
- *Thread priorities, `Sys_Net_Wait`'s duration, the measurement of the sleep's granularity*:
  they change when something happens, and the models allow any time.
- *`ParsePacketEntities` with delta set, `ConnectionlessPacket`*: not called, or only printing.
- *The bandwidth estimate and statistics of `net_chan.c`*: they steer only the rate.
- *The Perl binding*: generated by SWIG.

## 6. Plan

Done, in the order of importance: `ReliableStream`, `ReliableLink`; `PacketQueue`;
`ReliableBuffers`; `FrameRing`; `Handshake`; `Lifecycle` with `Ports` and `Network`;
`ServerMessage` with `MsgRead`, `Payloads` and `SignOn`; `SendPath` with `Huffman`; and the
proofs of all of them.

Next, in this order:

1. `OnlyMisread` and `CutIsNoticed`: an invariant that says which fields of the message are
   still before the reader, and a lemma for each parser that it takes away exactly its own.
2. The steps of `SignOnSpec`, without its fairness, from that invariant.
3. Liveness of the reliable channel under a fair network, in a specification of its
   own, with lengths, to cover a buffer that never fits (netqw.c:785).
