---------------------------- MODULE ReliableLink ----------------------------
(***************************************************************************)
(* The reliable channel between a connected NetQW client (netqw.c) and its *)
(* server, over a network that may lose, duplicate and reorder packets.    *)
(*                                                                         *)
(* Client side: NetQW_AppendReliableBuffer, one pass of the connected loop *)
(* of NetQW_Thread_DoSend, and NetQW_Thread_DoReceive with the packet      *)
(* handler it calls at once when no lag is simulated.  Server side: the    *)
(* channel of net_chan.c, Netchan_Process and Netchan_Transmit, which is   *)
(* the far end of the same protocol (sock = NS_SERVER).                    *)
(*                                                                         *)
(* Commands (client to server) and messages (server to client) are named   *)
(* by the order in which they were written.  The client's buffer list      *)
(* therefore holds exactly the commands                                    *)
(* reliablebufferhead..reliablebuffertail and is empty when the first      *)
(* exceeds the second.  The list is changed atomically here; the steps of  *)
(* the unlocked release in the packet handler are those of ReliableBuffers.*)
(***************************************************************************)
EXTENDS Naturals, Sequences

CONSTANTS
  MaxFrames,    \* bound on the sequence numbers used by either side
  MaxCommands,  \* bound on the commands appended by the client
  MaxMessages,  \* bound on the messages written by the server
  PacketRoom    \* bound on the commands that fit in a packet (1450 bytes)

ASSUME LinkAssumption ==
  /\ MaxFrames \in Nat /\ MaxCommands \in Nat /\ MaxMessages \in Nat
  /\ PacketRoom \in Nat \ {0}

VARIABLES
  (* struct NetQW *)
  reliablebufferhead, reliablebuffertail, reliable_buffers_sent,
  reliable_sequence_number, outgoing_reliable_xor, incoming_reliable_xor,
  current_outgoing_sequence_number, last_incoming_sequence_number,
  cl_read,             \* messages handed to the client so far (history)
  (* struct netchan_s of the server *)
  sv_incoming_sequence, sv_incoming_acknowledged,
  sv_incoming_reliable_acknowledged, sv_incoming_reliable_sequence,
  sv_outgoing_sequence, sv_reliable_sequence, sv_last_reliable_sequence,
  sv_message,          \* how many messages wait in chan->message
  sv_reliable_length,  \* how many messages chan->reliable_buf holds
  sv_written,          \* how many messages were ever written (history)
  sv_read,             \* commands the server has read so far (history)
  sv_reply_due,        \* the server owes the client a packet
  (* every packet ever sent: a packet may be received late, twice or never *)
  c2s, s2c

bufferVars == <<reliablebufferhead, reliablebuffertail>>
sendBookkeeping == <<reliable_buffers_sent, reliable_sequence_number,
                     incoming_reliable_xor>>
sendVars == <<sendBookkeeping, current_outgoing_sequence_number>>
receiveVars == <<outgoing_reliable_xor, last_incoming_sequence_number, cl_read>>
clientVars == <<bufferVars, sendVars, receiveVars>>
chanInVars == <<sv_incoming_sequence, sv_incoming_acknowledged,
                sv_incoming_reliable_acknowledged,
                sv_incoming_reliable_sequence, sv_read>>
chanOutVars == <<sv_outgoing_sequence, sv_reliable_sequence,
                 sv_last_reliable_sequence, sv_message, sv_reliable_length,
                 sv_written, sv_reply_due>>
serverVars == <<chanInVars, chanOutVars>>
vars == <<clientVars, serverVars, c2s, s2c>>

Bit == {0, 1}
Flip(b) == 1 - b
Least(a, b) == IF a < b THEN a ELSE b

\* The n items that follow item k: what a packet carries.
Items(k, n) == [i \in 1..n |-> k + i]

\* The packet header of net_chan.c, and the items carried: count items after
\* item after.  The payload is empty unless reliable_message is set.
Packet == [sequence : Nat, sequence_ack : Nat, reliable_message : Bit,
           reliable_ack : Bit, after : Nat, count : Nat]

-----------------------------------------------------------------------------
(* The connection is up: the client has just appended "new" (command 1). *)
Init ==
  /\ reliablebufferhead = 1 /\ reliablebuffertail = 1
  /\ reliable_buffers_sent = 0 /\ reliable_sequence_number = 0
  /\ outgoing_reliable_xor = 0 /\ incoming_reliable_xor = 0
  /\ current_outgoing_sequence_number = 1 /\ last_incoming_sequence_number = 0
  /\ cl_read = << >>
  /\ sv_incoming_sequence = 0 /\ sv_incoming_acknowledged = 0
  /\ sv_incoming_reliable_acknowledged = 0 /\ sv_incoming_reliable_sequence = 0
  /\ sv_outgoing_sequence = 0 /\ sv_reliable_sequence = 0
  /\ sv_last_reliable_sequence = 0
  /\ sv_message = 0 /\ sv_reliable_length = 0 /\ sv_written = 0
  /\ sv_read = << >> /\ sv_reply_due = FALSE
  /\ c2s = {} /\ s2c = {}

(* NetQW_AppendReliableBuffer, called by QWC_Say and by the parser. *)
AppendReliableBuffer ==
  /\ reliablebuffertail < MaxCommands
  /\ reliablebuffertail' = reliablebuffertail + 1
  /\ UNCHANGED <<reliablebufferhead, sendVars, receiveVars, serverVars, c2s, s2c>>

\* Seeded bug: a batch goes out although one is in flight.
BatchInFlight == 0..Least(reliablebuffertail + 1 - reliablebufferhead, PacketRoom)

(* Unless reliable buffers are in flight, as many as fit go out with the    *)
(* next packet.  How many fit depends on their lengths, which are left out: *)
(* any number up to PacketRoom, and none if the first one is too long.      *)
Batch ==
  IF reliable_buffers_sent = 0
  THEN 0..Least(reliablebuffertail + 1 - reliablebufferhead, PacketRoom)
  ELSE {0}

\* Seeded bug: the bit is not flipped when a batch is sent.
SendBatchSameBit(j) ==
  IF j > 0
  THEN /\ reliable_buffers_sent' = j
       /\ reliable_sequence_number' = current_outgoing_sequence_number
       /\ UNCHANGED incoming_reliable_xor
  ELSE UNCHANGED sendBookkeeping

(* What a batch of j buffers does to the sender's bookkeeping. *)
SendBatch(j) ==
  IF j > 0
  THEN /\ reliable_buffers_sent' = j
       /\ reliable_sequence_number' = current_outgoing_sequence_number
       /\ incoming_reliable_xor' = Flip(incoming_reliable_xor)
  ELSE UNCHANGED sendBookkeeping

(* One pass of the connected loop of NetQW_Thread_DoSend. *)
DoSend ==
  /\ current_outgoing_sequence_number <= MaxFrames
  /\ \E j \in Batch :
       /\ SendBatch(j)
       /\ c2s' = c2s \cup
            {[sequence |-> current_outgoing_sequence_number,
              sequence_ack |-> last_incoming_sequence_number,
              reliable_message |-> IF j > 0 THEN 1 ELSE 0,
              reliable_ack |-> outgoing_reliable_xor,
              after |-> reliablebufferhead - 1, count |-> j]}
  /\ current_outgoing_sequence_number' = current_outgoing_sequence_number + 1
  /\ UNCHANGED <<bufferVars, receiveVars, serverVars, s2c>>

\* Seeded bug: off by one, the reply to the previous packet is believed.
ShouldHaveSeenEarly(q) ==
  reliable_buffers_sent > 0 /\ q.sequence + 1 >= reliable_sequence_number

(* "The server should have seen our reliable packet by now..." *)
ShouldHaveSeen(q) ==
  reliable_buffers_sent > 0 /\ q.sequence >= reliable_sequence_number

\* Seeded bug: the acknowledge bit is not looked at.
ReleaseAnyBit(q) ==
  IF ShouldHaveSeen(q)
  THEN /\ reliable_buffers_sent' = 0
       /\ reliablebufferhead' = reliablebufferhead + reliable_buffers_sent
       /\ UNCHANGED incoming_reliable_xor
  ELSE UNCHANGED <<reliablebufferhead, reliable_buffers_sent, incoming_reliable_xor>>

(* NetQW_Thread_HandleReceivedPacket: what it does to the reliable buffers. *)
ReleaseBuffers(q) ==
  IF ShouldHaveSeen(q)
  THEN /\ reliable_buffers_sent' = 0
       /\ IF q.reliable_ack # incoming_reliable_xor
          THEN /\ incoming_reliable_xor' = Flip(incoming_reliable_xor)
               /\ UNCHANGED reliablebufferhead
          ELSE /\ reliablebufferhead' = reliablebufferhead + reliable_buffers_sent
               /\ UNCHANGED incoming_reliable_xor
  ELSE UNCHANGED <<reliablebufferhead, reliable_buffers_sent, incoming_reliable_xor>>

\* Seeded bug: stale packets are accepted.
AcceptStale(q) == q.sequence_ack < current_outgoing_sequence_number

(* Stale packets, and packets that acknowledge the future, are dropped. *)
Accept(q) ==
  /\ q.sequence > last_incoming_sequence_number
  /\ q.sequence_ack < current_outgoing_sequence_number

(* NetQW_Thread_DoReceive, connected and without lag: an accepted packet is *)
(* handled at once and handed to the client.                                *)
DoReceive(q) ==
  /\ Accept(q)
  /\ last_incoming_sequence_number' = q.sequence
  /\ outgoing_reliable_xor' = IF q.reliable_message = 1
                              THEN Flip(outgoing_reliable_xor)
                              ELSE outgoing_reliable_xor
  /\ ReleaseBuffers(q)
  /\ cl_read' = cl_read \o Items(q.after, q.count)
  /\ UNCHANGED <<reliablebuffertail, reliable_sequence_number,
                 current_outgoing_sequence_number, serverVars, c2s, s2c>>

-----------------------------------------------------------------------------
(* The server program writes to chan->message. *)
ServerWrite ==
  /\ sv_written < MaxMessages
  /\ sv_written' = sv_written + 1
  /\ sv_message' = sv_message + 1
  /\ UNCHANGED <<clientVars, chanInVars, sv_outgoing_sequence,
                 sv_reliable_sequence, sv_last_reliable_sequence,
                 sv_reliable_length, sv_reply_due, c2s, s2c>>

\* Seeded bug: any packet clears the reliable buffer.
LengthAfterAckAny(p) == 0

(* The current reliable message has been acknowledged: clear the buffer. *)
LengthAfterAck(p) ==
  IF p.reliable_ack = sv_reliable_sequence THEN 0 ELSE sv_reliable_length

(* Netchan_Process: stale or duplicated packets are discarded. *)
NetchanProcess(p) ==
  /\ p.sequence > sv_incoming_sequence
  /\ sv_reliable_length' = LengthAfterAck(p)
  /\ sv_incoming_sequence' = p.sequence
  /\ sv_incoming_acknowledged' = p.sequence_ack
  /\ sv_incoming_reliable_acknowledged' = p.reliable_ack
  /\ sv_incoming_reliable_sequence' = IF p.reliable_message = 1
                                      THEN Flip(sv_incoming_reliable_sequence)
                                      ELSE sv_incoming_reliable_sequence
  /\ sv_read' = sv_read \o Items(p.after, p.count)

(* The server brings its own sequence up to the client's and then owes one  *)
(* reply.  netqw.c relies on it: it takes a packet's own sequence number    *)
(* for the newest of the client's packets the server had seen, here and in  *)
(* the packet loss statistics.                                              *)
SyncSequence(p) ==
  /\ sv_outgoing_sequence' = IF p.sequence >= sv_outgoing_sequence
                             THEN p.sequence ELSE sv_outgoing_sequence
  /\ sv_reply_due' = (p.sequence >= sv_outgoing_sequence)

ServerReceive(p) ==
  /\ NetchanProcess(p)
  /\ SyncSequence(p)
  /\ UNCHANGED <<clientVars, sv_reliable_sequence, sv_last_reliable_sequence,
                 sv_message, sv_written, c2s, s2c>>

\* Seeded bug: the message is sent again until it is acknowledged.
DroppedUntilAcked == sv_reliable_length > 0

(* The remote side dropped the last reliable message: resend it.            *)
Dropped ==
  /\ sv_incoming_acknowledged > sv_last_reliable_sequence
  /\ sv_incoming_reliable_acknowledged # sv_reliable_sequence

(* The reliable buffer is empty: the current message is copied to it. *)
FillBuffer == sv_reliable_length = 0 /\ sv_message > 0

\* Seeded bug: the message is not emptied when it is copied.
AfterFillKeepingMessage ==
  IF FillBuffer THEN <<sv_message, sv_message>>
                ELSE <<sv_reliable_length, sv_message>>

\* How many messages the reliable buffer, and then the message, hold.
AfterFill == IF FillBuffer THEN <<sv_message, 0>>
                           ELSE <<sv_reliable_length, sv_message>>

(* Netchan_Transmit, without the bandwidth estimate and the statistics. *)
NetchanTransmit ==
  LET send_reliable == IF Dropped \/ FillBuffer THEN 1 ELSE 0 IN
  /\ sv_reliable_length' = AfterFill[1]
  /\ sv_message' = AfterFill[2]
  /\ sv_reliable_sequence' = IF FillBuffer THEN Flip(sv_reliable_sequence)
                             ELSE sv_reliable_sequence
  /\ sv_outgoing_sequence' = sv_outgoing_sequence + 1
  /\ sv_last_reliable_sequence' = IF send_reliable = 1
                                  THEN sv_outgoing_sequence + 1
                                  ELSE sv_last_reliable_sequence
  /\ s2c' = s2c \cup
       {[sequence |-> sv_outgoing_sequence,
         sequence_ack |-> sv_incoming_sequence,
         reliable_message |-> send_reliable,
         reliable_ack |-> sv_incoming_reliable_sequence,
         after |-> sv_written - (sv_message + sv_reliable_length),
         count |-> IF send_reliable = 1 THEN AfterFill[1] ELSE 0]}

(* The server sends one packet for the packets it has read since its last   *)
(* one, and otherwise keeps silent.                                         *)
MayTransmit == sv_reply_due

ServerTransmit ==
  /\ MayTransmit
  /\ NetchanTransmit
  /\ sv_reply_due' = FALSE
  /\ UNCHANGED <<clientVars, chanInVars, sv_written, c2s>>

-----------------------------------------------------------------------------
Next ==
  \/ AppendReliableBuffer
  \/ DoSend
  \/ \E q \in s2c : DoReceive(q)
  \/ ServerWrite
  \/ \E p \in c2s : ServerReceive(p)
  \/ ServerTransmit

Spec == Init /\ [][Next]_vars

-----------------------------------------------------------------------------
(* Type invariant. *)
TypeOK ==
  /\ reliablebufferhead \in Nat \ {0} /\ reliablebuffertail \in Nat
  /\ reliable_buffers_sent \in Nat /\ reliable_sequence_number \in Nat
  /\ outgoing_reliable_xor \in Bit /\ incoming_reliable_xor \in Bit
  /\ current_outgoing_sequence_number \in Nat \ {0}
  /\ last_incoming_sequence_number \in Nat
  /\ cl_read \in Seq(Nat) /\ sv_read \in Seq(Nat)
  /\ sv_incoming_sequence \in Nat /\ sv_incoming_acknowledged \in Nat
  /\ sv_incoming_reliable_acknowledged \in Bit
  /\ sv_incoming_reliable_sequence \in Bit
  /\ sv_outgoing_sequence \in Nat /\ sv_reliable_sequence \in Bit
  /\ sv_last_reliable_sequence \in Nat
  /\ sv_message \in Nat /\ sv_reliable_length \in Nat
  /\ sv_written \in Nat /\ sv_message + sv_reliable_length <= sv_written
  /\ sv_reply_due \in BOOLEAN
  /\ c2s \subseteq Packet /\ s2c \subseteq Packet

\* How many messages the server has cleared from its buffers.
Cleared == sv_written - (sv_message + sv_reliable_length)

\* The items of a history are the first ones written, each once and in order.
InOrder(history, written) ==
  /\ Len(history) <= written
  /\ \A i \in 1..Len(history) : history[i] = i

(* Whatever the network does, the server reads the client's commands once   *)
(* each and in the order they were appended.  This is what the even/odd bit *)
(* of the header is for; netqw.c decides on it by packet sequence.          *)
CommandsInOrder == InOrder(sv_read, reliablebuffertail)

(* A reliable buffer is freed only after the server has read it, and none   *)
(* is still listed twice: the list starts where the server's reading ended, *)
(* or exactly one unacknowledged batch before.                              *)
FreedOnlyIfRead ==
  Len(sv_read) \in {reliablebufferhead - 1,
                    reliablebufferhead - 1 + reliable_buffers_sent}

(* The same two promises for the server's messages. *)
MessagesInOrder == InOrder(cl_read, sv_written)

ClearedOnlyIfRead == Len(cl_read) \in {Cleared, Cleared + sv_reliable_length}

(* Each direction implements a stream that is read once and in order. *)
Up == INSTANCE ReliableStream WITH written <- reliablebuffertail, read <- sv_read
Down == INSTANCE ReliableStream WITH written <- sv_written, read <- cl_read

UpStream == Up!Spec
DownStream == Down!Spec

(* The client gives up on a packet with reliable buffers, to send them      *)
(* again, only when the server has acknowledged that packet or a later one: *)
(* until then the first copy could still be read.                           *)
GivesUp ==
  /\ reliable_buffers_sent > 0 /\ reliable_buffers_sent' = 0
  /\ reliablebufferhead' = reliablebufferhead

RetransmitOnlyAfterDrop ==
  [][GivesUp => \E q \in s2c : /\ q.sequence = last_incoming_sequence_number'
                               /\ q.sequence_ack >= reliable_sequence_number]_vars

-----------------------------------------------------------------------------
(* The inductive invariant.                                                 *)

\* Sequence numbers: the server's follow the client's.
SequenceInv ==
  /\ sv_incoming_sequence < current_outgoing_sequence_number
  /\ sv_outgoing_sequence <= sv_incoming_sequence + 1
  /\ sv_reply_due => /\ sv_outgoing_sequence = sv_incoming_sequence
                     /\ sv_incoming_sequence > 0
  /\ last_incoming_sequence_number = 0
       \/ last_incoming_sequence_number < sv_outgoing_sequence
  /\ sv_incoming_acknowledged <= last_incoming_sequence_number
  /\ \A p \in c2s : /\ p.sequence < current_outgoing_sequence_number
                    /\ p.sequence_ack <= last_incoming_sequence_number
                    /\ p.reliable_message = 0 => p.count = 0
  /\ \A q \in s2c : /\ q.sequence < sv_outgoing_sequence
                    /\ q.sequence <= sv_incoming_sequence
                    /\ q.sequence <= q.sequence_ack
                    /\ q.reliable_message = 0 => q.count = 0

\* The batch in flight has been read, and then the server's bit agrees with
\* the client's; or it has not, and the bits differ.
CommandBits ==
  /\ reliable_buffers_sent = 0 =>
       /\ Len(sv_read) = reliablebufferhead - 1
       /\ sv_incoming_reliable_sequence = incoming_reliable_xor
  /\ reliable_buffers_sent > 0 =>
       /\ reliable_sequence_number < current_outgoing_sequence_number
       /\ \/ /\ Len(sv_read) = reliablebufferhead - 1
             /\ sv_incoming_reliable_sequence # incoming_reliable_xor
          \/ /\ Len(sv_read) = reliablebufferhead - 1 + reliable_buffers_sent
             /\ sv_incoming_reliable_sequence = incoming_reliable_xor
             /\ sv_incoming_sequence >= reliable_sequence_number
  /\ reliablebufferhead + reliable_buffers_sent <= reliablebuffertail + 1

\* Only the latest copy of the current batch can still be read.
CommandLive ==
  \A p \in c2s : p.reliable_message = 1 /\ p.sequence > sv_incoming_sequence =>
    /\ reliable_buffers_sent > 0
    /\ p.sequence = reliable_sequence_number
    /\ p.after = reliablebufferhead - 1 /\ p.count = reliable_buffers_sent

\* A reply as late as the batch in flight carries the server's final bit.
CommandReplies ==
  \A q \in s2c :
    reliable_buffers_sent > 0 /\ q.sequence >= reliable_sequence_number =>
      q.reliable_ack = sv_incoming_reliable_sequence

CommandInv ==
  /\ CommandBits /\ CommandLive /\ CommandReplies
  /\ \A i \in 1..Len(sv_read) : sv_read[i] = i

\* The mirror image for the server's reliable buffer.
MessageBits ==
  /\ sv_reliable_length = 0 =>
       /\ Len(cl_read) = Cleared
       /\ outgoing_reliable_xor = sv_reliable_sequence
       /\ sv_incoming_reliable_acknowledged = sv_reliable_sequence
  /\ sv_reliable_length > 0 =>
       /\ sv_last_reliable_sequence > 0
       /\ sv_last_reliable_sequence <= sv_outgoing_sequence
       /\ \/ /\ Len(cl_read) = Cleared
             /\ outgoing_reliable_xor # sv_reliable_sequence
          \/ /\ Len(cl_read) = Cleared + sv_reliable_length
             /\ outgoing_reliable_xor = sv_reliable_sequence
             /\ last_incoming_sequence_number + 1 >= sv_last_reliable_sequence

MessageLive ==
  \A q \in s2c : q.reliable_message = 1 /\ q.sequence > last_incoming_sequence_number =>
    /\ sv_reliable_length > 0
    /\ q.sequence + 1 = sv_last_reliable_sequence
    /\ q.after = Cleared /\ q.count = sv_reliable_length

\* What the acknowledge bits of the client's packets can tell the server.
MessageAcks ==
  /\ \A p \in c2s :
       /\ p.sequence > sv_incoming_sequence =>
            /\ sv_reliable_length = 0 => p.reliable_ack = sv_reliable_sequence
            /\ p.reliable_ack = sv_reliable_sequence =>
                 outgoing_reliable_xor = sv_reliable_sequence
       /\ /\ sv_reliable_length > 0
          /\ p.sequence_ack + 1 >= sv_last_reliable_sequence
          => p.reliable_ack = outgoing_reliable_xor
  /\ /\ sv_reliable_length > 0
     /\ sv_incoming_acknowledged + 1 >= sv_last_reliable_sequence
     => sv_incoming_reliable_acknowledged = outgoing_reliable_xor
  /\ \A p, r \in c2s :
       /\ sv_incoming_sequence < p.sequence /\ p.sequence < r.sequence
       /\ p.reliable_ack = sv_reliable_sequence
       => r.reliable_ack = sv_reliable_sequence

MessageInv ==
  /\ MessageBits /\ MessageLive /\ MessageAcks
  /\ \A i \in 1..Len(cl_read) : cl_read[i] = i

IInv == TypeOK /\ SequenceInv /\ CommandInv /\ MessageInv

=============================================================================
