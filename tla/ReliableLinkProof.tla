------------------------- MODULE ReliableLinkProof -------------------------
(***************************************************************************)
(* Proofs about ReliableLink, for every value of its constants: the        *)
(* inductive invariant IInv, the promises of both directions, and that     *)
(* each direction implements ReliableStream.                               *)
(***************************************************************************)
EXTENDS ReliableLink, SequenceTheorems, TLAPS

\* A history in order stays in order when the items that follow it are read.
LEMMA ReadOn ==
  ASSUME NEW s \in Seq(Nat), NEW k \in Nat, NEW n \in Nat,
         \A i \in 1..Len(s) : s[i] = i,
         n > 0 => k = Len(s)
  PROVE  /\ s \o Items(k, n) \in Seq(Nat)
         /\ Len(s \o Items(k, n)) = Len(s) + n
         /\ \A i \in 1..Len(s \o Items(k, n)) : (s \o Items(k, n))[i] = i
<1>1. Items(k, n) \in [1..n -> Nat] /\ \A i \in 1..n : Items(k, n)[i] = k + i
  BY DEF Items
<1>2. Items(k, n) \in Seq(Nat)
  BY <1>1, SeqDef
<1>3. PICK t \in Seq(Nat) : t = Items(k, n)
  BY <1>2
<1>4. Len(t) = n /\ \A i \in 1..n : t[i] = k + i
  BY <1>1, <1>3, LenProperties
<1> Len(s) \in Nat
  BY LenProperties
<1>5. /\ s \o t \in Seq(Nat) /\ Len(s \o t) = Len(s) + n
      /\ \A i \in 1..(Len(s) + n) :
           (s \o t)[i] = IF i <= Len(s) THEN s[i] ELSE t[i - Len(s)]
  BY <1>4, ConcatProperties
<1>6. ASSUME NEW i \in 1..(Len(s) + n) PROVE (s \o t)[i] = i
  <2>1. CASE i <= Len(s)
    BY <1>5, <2>1, LenProperties
  <2>2. CASE ~(i <= Len(s))
    <3>1. i - Len(s) \in 1..n /\ n > 0
      BY <2>2, LenProperties
    <3>2. (s \o t)[i] = t[i - Len(s)]
      BY <1>5, <2>2
    <3>3. t[i - Len(s)] = k + (i - Len(s)) /\ k = Len(s)
      BY <1>4, <3>1
    <3> QED BY <3>2, <3>3
  <2> QED BY <2>1, <2>2
<1> QED BY <1>3, <1>5, <1>6

LEMMA InitInv == Init => IInv
<1> SUFFICES ASSUME Init PROVE IInv
  OBVIOUS
<1>1. << >> \in Seq(Nat) /\ Len(<< >>) = 0
  OBVIOUS
<1>2. TypeOK
  <2>1. cl_read \in Seq(Nat) /\ sv_read \in Seq(Nat)
    BY <1>1 DEF Init
  <2>2. c2s \subseteq Packet /\ s2c \subseteq Packet
    BY DEF Init
  <2>3. sv_reply_due \in BOOLEAN
    BY DEF Init
  <2>4. 0 \in Bit
    BY DEF Bit
  <2>5. 0 \in Nat /\ 1 \in Nat /\ 1 \in Nat \ {0} /\ 0 + 0 <= 0
    OBVIOUS
  <2> QED BY <2>1, <2>2, <2>3, <2>4, <2>5, Zenon DEF Init, TypeOK
<1>3. SequenceInv
  BY DEF Init, SequenceInv
<1>4. CommandInv
  BY <1>1 DEF Init, CommandInv, CommandBits, CommandLive, CommandReplies
<1>5. MessageInv
  BY <1>1 DEF Init, MessageInv, MessageBits, MessageLive, MessageAcks, Cleared
<1> QED BY <1>2, <1>3, <1>4, <1>5 DEF IInv

LEMMA StutterInv == IInv /\ UNCHANGED vars => IInv'
BY DEF IInv, vars, clientVars, serverVars, bufferVars, sendVars,
       sendBookkeeping, receiveVars, chanInVars, chanOutVars,
       TypeOK, SequenceInv, CommandInv, CommandBits, CommandLive,
       CommandReplies, MessageInv, MessageBits, MessageLive, MessageAcks, Cleared

LEMMA AppendInv == IInv /\ AppendReliableBuffer => IInv'
<1> SUFFICES ASSUME IInv, AppendReliableBuffer PROVE IInv'
  OBVIOUS
<1> USE DEF IInv, AppendReliableBuffer, serverVars, sendVars, sendBookkeeping,
            receiveVars, chanInVars, chanOutVars
<1>1. TypeOK'
  BY DEF TypeOK
<1>2. SequenceInv'
  BY DEF SequenceInv
<1>3. CommandInv'
  BY DEF CommandInv, CommandBits, CommandLive, CommandReplies, TypeOK
<1>4. MessageInv'
  BY DEF MessageInv, MessageBits, MessageLive, MessageAcks, Cleared
<1> QED BY <1>1, <1>2, <1>3, <1>4

LEMMA ServerWriteInv == IInv /\ ServerWrite => IInv'
<1> SUFFICES ASSUME IInv, ServerWrite PROVE IInv'
  OBVIOUS
<1> USE DEF IInv, ServerWrite, clientVars, bufferVars, sendVars,
            sendBookkeeping, receiveVars, chanInVars
<1>1. TypeOK'
  BY DEF TypeOK
<1>2. SequenceInv'
  BY DEF SequenceInv
<1>3. CommandInv'
  BY DEF CommandInv, CommandBits, CommandLive, CommandReplies
<1>4. MessageInv'
  <2>1. Cleared' = Cleared
    BY DEF Cleared, TypeOK
  <2> QED BY <2>1 DEF MessageInv, MessageBits, MessageLive, MessageAcks
<1> QED BY <1>1, <1>2, <1>3, <1>4

\* What TypeOK says of the numbers, and of the fields of a packet.
LEMMA Numbers ==
  ASSUME TypeOK
  PROVE  /\ reliablebufferhead \in Nat \ {0} /\ reliablebuffertail \in Nat
         /\ reliable_buffers_sent \in Nat /\ reliable_sequence_number \in Nat
         /\ current_outgoing_sequence_number \in Nat \ {0}
         /\ last_incoming_sequence_number \in Nat
         /\ sv_incoming_sequence \in Nat /\ sv_incoming_acknowledged \in Nat
         /\ sv_outgoing_sequence \in Nat /\ sv_last_reliable_sequence \in Nat
         /\ sv_message \in Nat /\ sv_reliable_length \in Nat /\ sv_written \in Nat
         /\ sv_message + sv_reliable_length <= sv_written
BY DEF TypeOK

LEMMA Lengths ==
  ASSUME TypeOK
  PROVE  Len(cl_read) \in Nat /\ Len(sv_read) \in Nat
BY LenProperties DEF TypeOK

LEMMA Fields ==
  ASSUME NEW p \in Packet
  PROVE  /\ p.sequence \in Nat /\ p.sequence_ack \in Nat
         /\ p.reliable_message \in Bit /\ p.reliable_ack \in Bit
         /\ p.after \in Nat /\ p.count \in Nat
BY DEF Packet

LEMMA DoSendInv == IInv /\ DoSend => IInv'
<1> SUFFICES ASSUME IInv, DoSend PROVE IInv'
  OBVIOUS
<1> USE DEF IInv
<1>1. PICK j \in Batch :
        /\ SendBatch(j)
        /\ c2s' = c2s \cup
             {[sequence |-> current_outgoing_sequence_number,
               sequence_ack |-> last_incoming_sequence_number,
               reliable_message |-> IF j > 0 THEN 1 ELSE 0,
               reliable_ack |-> outgoing_reliable_xor,
               after |-> reliablebufferhead - 1, count |-> j]}
  BY DEF DoSend
<1>2. PICK new : new = [sequence |-> current_outgoing_sequence_number,
                        sequence_ack |-> last_incoming_sequence_number,
                        reliable_message |-> IF j > 0 THEN 1 ELSE 0,
                        reliable_ack |-> outgoing_reliable_xor,
                        after |-> reliablebufferhead - 1, count |-> j]
  OBVIOUS
<1>3. /\ j \in Nat /\ (j > 0 => reliable_buffers_sent = 0)
      /\ reliablebufferhead + j <= reliablebuffertail + 1
  <2>1. CASE reliable_buffers_sent = 0
    <3>1. j \in 0..Least(reliablebuffertail + 1 - reliablebufferhead, PacketRoom)
      BY <1>1, <2>1 DEF Batch
    <3>2. 0 <= reliablebuffertail + 1 - reliablebufferhead
      BY Numbers DEF CommandInv, CommandBits
    <3>3. j \in Nat /\ j <= reliablebuffertail + 1 - reliablebufferhead
      BY <3>1, <3>2, Numbers, LinkAssumption DEF Least
    <3> QED BY <2>1, <3>3, Numbers
  <2>2. CASE reliable_buffers_sent # 0
    BY <1>1, <2>2, Numbers DEF Batch, CommandInv, CommandBits
  <2> QED BY <2>1, <2>2
<1>4. /\ new \in Packet
      /\ new.sequence = current_outgoing_sequence_number
      /\ new.sequence_ack = last_incoming_sequence_number
      /\ new.reliable_message = IF j > 0 THEN 1 ELSE 0
      /\ new.reliable_ack = outgoing_reliable_xor
      /\ new.after = reliablebufferhead - 1 /\ new.count = j
  <2>1. (IF j > 0 THEN 1 ELSE 0) \in Bit /\ outgoing_reliable_xor \in Bit
    BY DEF Bit, TypeOK
  <2>2. reliablebufferhead - 1 \in Nat
    BY Numbers
  <2>3. new \in Packet
    BY <1>2, <1>3, <2>1, <2>2, Numbers DEF Packet
  <2> QED BY <1>2, <2>3
<1>5. /\ c2s' = c2s \cup {new}
      /\ current_outgoing_sequence_number' = current_outgoing_sequence_number + 1
      /\ UNCHANGED <<bufferVars, receiveVars, serverVars, s2c>>
  BY <1>1, <1>2 DEF DoSend
<1>6. \/ /\ j > 0 /\ reliable_buffers_sent' = j
         /\ reliable_sequence_number' = current_outgoing_sequence_number
         /\ incoming_reliable_xor' = Flip(incoming_reliable_xor)
      \/ j = 0 /\ UNCHANGED sendBookkeeping
  BY <1>1, <1>3 DEF SendBatch
<1> USE DEF bufferVars, receiveVars, serverVars, chanInVars, chanOutVars,
            sendBookkeeping
<1>7. ASSUME NEW p \in c2s' PROVE p \in c2s \/ p = new
  BY <1>5
<1>8. /\ reliablebufferhead' = reliablebufferhead
      /\ reliablebuffertail' = reliablebuffertail
      /\ sv_read' = sv_read
      /\ sv_incoming_reliable_sequence' = sv_incoming_reliable_sequence
      /\ sv_incoming_sequence' = sv_incoming_sequence
  BY <1>5
<1>9. TypeOK'
  BY <1>3, <1>4, <1>5, <1>6 DEF TypeOK, Bit, Flip
<1>10. SequenceInv'
  <2>1. ASSUME NEW p \in c2s'
        PROVE  /\ p.sequence < current_outgoing_sequence_number + 1
               /\ p.sequence_ack <= last_incoming_sequence_number
               /\ p.reliable_message = 0 => p.count = 0
    <3>1. CASE p \in c2s
      <4>1. p \in Packet
        BY <3>1 DEF TypeOK
      <4> QED BY <3>1, <4>1, Numbers, Fields DEF SequenceInv
    <3>2. CASE p = new
      BY <3>2, <1>3, <1>4, Numbers
    <3> QED BY <1>7, <3>1, <3>2
  <2> QED BY <1>5, <2>1, Numbers DEF SequenceInv
<1>11. CommandInv'
  <2>1. CommandBits'
    <3>1. CASE j > 0
      <4>1. /\ Len(sv_read) = reliablebufferhead - 1
            /\ sv_incoming_reliable_sequence # incoming_reliable_xor'
        BY <1>3, <1>6, <3>1 DEF CommandInv, CommandBits, TypeOK, Bit, Flip
      <4>2. /\ reliable_buffers_sent' = j
            /\ reliable_sequence_number' = current_outgoing_sequence_number
            /\ current_outgoing_sequence_number' = current_outgoing_sequence_number + 1
        BY <1>3, <1>5, <1>6, <3>1
      <4>3. reliable_sequence_number' < current_outgoing_sequence_number'
        BY <4>2, Numbers
      <4> QED BY <1>3, <1>8, <3>1, <4>1, <4>2, <4>3 DEF CommandBits
    <3>2. CASE j = 0
      <4>1. UNCHANGED sendBookkeeping
        BY <1>6, <3>2
      <4> QED BY <1>5, <1>8, <4>1, Numbers DEF CommandInv, CommandBits
    <3> QED BY <1>3, <3>1, <3>2
  <2>2. CommandLive'
    <3> SUFFICES ASSUME NEW p \in c2s', p.reliable_message = 1,
                        p.sequence > sv_incoming_sequence
                 PROVE  /\ reliable_buffers_sent' > 0
                        /\ p.sequence = reliable_sequence_number'
                        /\ p.after = reliablebufferhead - 1
                        /\ p.count = reliable_buffers_sent'
      BY <1>5 DEF CommandLive
    <3>1. CASE p \in c2s
      <4>1. reliable_buffers_sent > 0
        BY <3>1 DEF CommandInv, CommandLive
      <4>2. j = 0 /\ UNCHANGED sendBookkeeping
        BY <1>3, <1>6, <4>1, Numbers
      <4> QED BY <3>1, <4>2 DEF CommandInv, CommandLive
    <3>2. CASE p = new
      BY <3>2, <1>3, <1>4, <1>6
    <3> QED BY <1>7, <3>1, <3>2
  <2>3. CommandReplies'
    BY <1>3, <1>5, <1>6
    DEF CommandInv, CommandReplies, SequenceInv, TypeOK, Packet
  <2> QED BY <1>5, <2>1, <2>2, <2>3 DEF CommandInv
<1>12. MessageInv'
  <2>1. MessageBits' /\ MessageLive'
    BY <1>5 DEF MessageInv, MessageBits, MessageLive, Cleared
  <2>2. MessageAcks'
    BY <1>4, <1>5
    DEF MessageInv, MessageBits, MessageAcks, SequenceInv, TypeOK, Packet
  <2> QED BY <1>5, <2>1, <2>2 DEF MessageInv
<1> QED BY <1>9, <1>10, <1>11, <1>12

\* A packet that the server reads for the first time carries the batch in
\* flight, and that batch has not been read.
LEMMA FirstReadOfBatch ==
  ASSUME IInv, NEW p \in c2s, p.reliable_message = 1,
         p.sequence > sv_incoming_sequence
  PROVE  /\ reliable_buffers_sent > 0 /\ p.sequence = reliable_sequence_number
         /\ p.after = Len(sv_read) /\ p.count = reliable_buffers_sent
         /\ Len(sv_read) = reliablebufferhead - 1
         /\ sv_incoming_reliable_sequence # incoming_reliable_xor
<1>1. /\ reliable_buffers_sent > 0 /\ p.sequence = reliable_sequence_number
      /\ p.after = reliablebufferhead - 1 /\ p.count = reliable_buffers_sent
  BY DEF IInv, CommandInv, CommandLive
<1>2. ~(sv_incoming_sequence >= reliable_sequence_number)
  BY <1>1, Numbers DEF IInv
<1>3. /\ Len(sv_read) = reliablebufferhead - 1
      /\ sv_incoming_reliable_sequence # incoming_reliable_xor
  BY <1>1, <1>2 DEF IInv, CommandInv, CommandBits
<1> QED BY <1>1, <1>3

\* A packet that the client reads for the first time carries the server's
\* reliable buffer, and that buffer has not been read.
LEMMA FirstReadOfBuffer ==
  ASSUME IInv, NEW q \in s2c, q.reliable_message = 1,
         q.sequence > last_incoming_sequence_number
  PROVE  /\ sv_reliable_length > 0 /\ q.sequence + 1 = sv_last_reliable_sequence
         /\ q.after = Len(cl_read) /\ q.count = sv_reliable_length
         /\ Len(cl_read) = Cleared
         /\ outgoing_reliable_xor # sv_reliable_sequence
<1>1. /\ sv_reliable_length > 0 /\ q.sequence + 1 = sv_last_reliable_sequence
      /\ q.after = Cleared /\ q.count = sv_reliable_length
  BY DEF IInv, MessageInv, MessageLive
<1>2. q.sequence \in Nat
  BY Fields DEF IInv, TypeOK
<1>3. ~(last_incoming_sequence_number + 1 >= sv_last_reliable_sequence)
  BY <1>1, <1>2, Numbers DEF IInv
<1>4. Len(cl_read) = Cleared /\ outgoing_reliable_xor # sv_reliable_sequence
  BY <1>1, <1>3 DEF IInv, MessageInv, MessageBits
<1> QED BY <1>1, <1>4

LEMMA ServerReceiveInv ==
  ASSUME IInv, NEW p \in c2s, ServerReceive(p)
  PROVE  IInv'
<1> USE DEF IInv
<1>1. /\ p \in Packet /\ p.sequence \in Nat /\ p.sequence_ack \in Nat
      /\ p.reliable_message \in Bit /\ p.reliable_ack \in Bit
      /\ p.after \in Nat /\ p.count \in Nat
  BY DEF TypeOK, Packet
<1>2. /\ p.sequence > sv_incoming_sequence
      /\ sv_reliable_length' = LengthAfterAck(p)
      /\ sv_incoming_sequence' = p.sequence
      /\ sv_incoming_acknowledged' = p.sequence_ack
      /\ sv_incoming_reliable_acknowledged' = p.reliable_ack
      /\ sv_incoming_reliable_sequence' = IF p.reliable_message = 1
                                          THEN Flip(sv_incoming_reliable_sequence)
                                          ELSE sv_incoming_reliable_sequence
      /\ UNCHANGED <<clientVars, sv_reliable_sequence, sv_last_reliable_sequence,
                     sv_message, sv_written, c2s, s2c>>
  BY DEF ServerReceive, NetchanProcess
<1>2r. sv_read' = sv_read \o Items(p.after, p.count)
  BY DEF ServerReceive, NetchanProcess
<1>2s. p.sequence \in Nat /\ p.sequence > sv_incoming_sequence
  BY <1>1, <1>2
<1>3. /\ p.sequence >= sv_outgoing_sequence
      /\ sv_outgoing_sequence' = p.sequence /\ sv_reply_due' = TRUE
  <2>1. p.sequence >= sv_outgoing_sequence
    BY <1>2s, Numbers DEF SequenceInv
  <2> QED BY <2>1 DEF ServerReceive, SyncSequence
<1> USE DEF clientVars, bufferVars, sendVars, sendBookkeeping, receiveVars
<1>4. p.reliable_message = 1 =>
        /\ reliable_buffers_sent > 0 /\ p.sequence = reliable_sequence_number
        /\ p.after = Len(sv_read) /\ p.count = reliable_buffers_sent
        /\ Len(sv_read) = reliablebufferhead - 1
        /\ sv_incoming_reliable_sequence # incoming_reliable_xor
  BY <1>2s, FirstReadOfBatch
<1>5. p.reliable_message = 0 => p.count = 0
  BY DEF SequenceInv
<1>6. /\ sv_read' \in Seq(Nat) /\ Len(sv_read') = Len(sv_read) + p.count
      /\ \A i \in 1..Len(sv_read') : sv_read'[i] = i
  <2>1. p.count > 0 => p.after = Len(sv_read)
    BY <1>1, <1>4, <1>5 DEF Bit
  <2>2. sv_read \in Seq(Nat) /\ \A i \in 1..Len(sv_read) : sv_read[i] = i
    BY DEF CommandInv, TypeOK
  <2> QED BY <1>1, <1>2r, <2>1, <2>2, ReadOn
<1>7. /\ sv_reliable_length' \in {0, sv_reliable_length}
      /\ p.reliable_ack = sv_reliable_sequence => sv_reliable_length' = 0
      /\ p.reliable_ack # sv_reliable_sequence =>
           sv_reliable_length' = sv_reliable_length
  BY <1>2 DEF LengthAfterAck
<1>8. TypeOK'
  BY <1>1, <1>2, <1>3, <1>6, <1>7 DEF TypeOK, Bit, Flip
<1>9. SequenceInv'
  BY <1>1, <1>2, <1>3 DEF SequenceInv, TypeOK, Packet
<1>10. CommandInv'
  <2>1. CommandBits'
    <3>1. CASE p.reliable_message = 1
      <4>1. /\ Len(sv_read') = reliablebufferhead - 1 + reliable_buffers_sent
            /\ sv_incoming_reliable_sequence' = incoming_reliable_xor
            /\ sv_incoming_sequence' >= reliable_sequence_number
        <5>1. Len(sv_read') = reliablebufferhead - 1 + reliable_buffers_sent
          BY <1>4, <1>6, <3>1, Numbers, Lengths
        <5>2. sv_incoming_reliable_sequence' = incoming_reliable_xor
          BY <1>2, <1>4, <3>1 DEF TypeOK, Bit, Flip
        <5>3. sv_incoming_sequence' >= reliable_sequence_number
          BY <1>2, <1>4, <3>1, Numbers
        <5> QED BY <5>1, <5>2, <5>3
      <4> QED BY <1>2, <1>4, <3>1, <4>1, Numbers DEF CommandInv, CommandBits
    <3>2. CASE p.reliable_message = 0
      <4>1. Len(sv_read') = Len(sv_read)
        BY <1>5, <1>6, <3>2, Lengths
      <4>2. /\ sv_incoming_reliable_sequence' = sv_incoming_reliable_sequence
            /\ sv_incoming_sequence' >= sv_incoming_sequence
            /\ sv_incoming_sequence' \in Nat
        BY <1>1, <1>2, <3>2, Numbers
      <4>3. /\ reliablebufferhead' = reliablebufferhead
            /\ reliablebuffertail' = reliablebuffertail
            /\ reliable_buffers_sent' = reliable_buffers_sent
            /\ reliable_sequence_number' = reliable_sequence_number
            /\ incoming_reliable_xor' = incoming_reliable_xor
            /\ current_outgoing_sequence_number' = current_outgoing_sequence_number
        BY <1>2
      <4> QED BY <4>1, <4>2, <4>3, Numbers DEF CommandInv, CommandBits
    <3> QED BY <1>1, <3>1, <3>2 DEF Bit
  <2>2. CommandLive'
    BY <1>1, <1>2 DEF CommandInv, CommandLive, TypeOK, Packet
  <2>3. CommandReplies'
    BY <1>1, <1>2, <1>4
    DEF CommandInv, CommandReplies, SequenceInv, TypeOK, Packet
  <2> QED BY <1>6, <2>1, <2>2, <2>3 DEF CommandInv
<1>11. MessageInv'
  <2>1. p.reliable_ack = sv_reliable_sequence =>
          /\ Len(cl_read) = sv_written - sv_message
          /\ outgoing_reliable_xor = sv_reliable_sequence
          /\ \A q \in s2c : ~(/\ q.reliable_message = 1
                               /\ q.sequence > last_incoming_sequence_number)
    <3> SUFFICES ASSUME p.reliable_ack = sv_reliable_sequence
                 PROVE  /\ Len(cl_read) = sv_written - sv_message
                        /\ outgoing_reliable_xor = sv_reliable_sequence
                        /\ \A q \in s2c :
                             ~(/\ q.reliable_message = 1
                               /\ q.sequence > last_incoming_sequence_number)
      OBVIOUS
    <3>1. outgoing_reliable_xor = sv_reliable_sequence
      BY <1>2s DEF MessageInv, MessageAcks
    <3>2. CASE sv_reliable_length = 0
      <4>1. Len(cl_read) = Cleared
        BY <3>2 DEF MessageInv, MessageBits
      <4>2. Cleared = sv_written - sv_message
        BY <3>2, Numbers DEF Cleared
      <4>3. ASSUME NEW q \in s2c, q.reliable_message = 1,
                   q.sequence > last_incoming_sequence_number
            PROVE  FALSE
        BY <3>2, <4>3 DEF MessageInv, MessageLive
      <4> QED BY <3>1, <4>1, <4>2, <4>3
    <3>3. CASE sv_reliable_length > 0
      <4>1. Len(cl_read) = Cleared + sv_reliable_length
        BY <3>1, <3>3 DEF MessageInv, MessageBits
      <4>2. Cleared + sv_reliable_length = sv_written - sv_message
        BY Numbers DEF Cleared
      <4>3. ASSUME NEW q \in s2c, q.reliable_message = 1,
                   q.sequence > last_incoming_sequence_number
            PROVE  FALSE
        BY <3>1, <4>3, FirstReadOfBuffer
      <4> QED BY <3>1, <4>1, <4>2, <4>3
    <3> QED BY <3>2, <3>3, Numbers
  <2>2. p.reliable_ack # sv_reliable_sequence => sv_reliable_length > 0
    BY <1>1, <1>2 DEF MessageInv, MessageAcks, TypeOK
  <2>3. MessageBits'
    <3>1. CASE p.reliable_ack = sv_reliable_sequence
      <4>1. sv_reliable_length' = 0 /\ Cleared' = sv_written - sv_message
        BY <1>2, <1>7, <3>1, Numbers DEF Cleared
      <4> QED BY <1>2, <2>1, <3>1, <4>1 DEF MessageBits
    <3>2. CASE p.reliable_ack # sv_reliable_sequence
      <4>1. sv_reliable_length' = sv_reliable_length /\ sv_reliable_length > 0
        BY <1>7, <2>2, <3>2
      <4>2. Cleared' = Cleared
        BY <1>2, <4>1 DEF Cleared
      <4>3. sv_last_reliable_sequence <= sv_outgoing_sequence'
        BY <1>2s, <1>3, <4>1, Numbers DEF MessageInv, MessageBits
      <4> QED BY <1>2, <4>1, <4>2, <4>3, Numbers DEF MessageInv, MessageBits
    <3> QED BY <3>1, <3>2
  <2>4. MessageLive'
    BY <1>1, <1>2, <1>7, <2>1 DEF MessageInv, MessageLive, Cleared
  <2>5. MessageAcks'
    <3>1. ASSUME NEW r \in c2s, r.sequence > p.sequence
          PROVE  /\ sv_reliable_length' = 0 =>
                      r.reliable_ack = sv_reliable_sequence
                 /\ r.reliable_ack = sv_reliable_sequence =>
                      outgoing_reliable_xor = sv_reliable_sequence
      <4>1. r.sequence > sv_incoming_sequence
        <5>1. r.sequence \in Nat
          BY Fields DEF TypeOK
        <5> QED BY <1>2s, <3>1, <5>1, Numbers
      <4>2. p.reliable_ack = sv_reliable_sequence
              => r.reliable_ack = sv_reliable_sequence
        BY <1>2, <3>1 DEF MessageInv, MessageAcks
      <4> QED BY <1>7, <2>2, <4>1, <4>2 DEF MessageInv, MessageAcks
    <3>2. ASSUME NEW r \in c2s,
                 sv_reliable_length' > 0,
                 r.sequence_ack + 1 >= sv_last_reliable_sequence
          PROVE  r.reliable_ack = outgoing_reliable_xor
      BY <1>7, <3>2 DEF MessageInv, MessageAcks
    <3>3. ASSUME NEW r \in c2s, NEW t \in c2s,
                 p.sequence < r.sequence, r.sequence < t.sequence,
                 r.reliable_ack = sv_reliable_sequence
          PROVE  t.reliable_ack = sv_reliable_sequence
      <4>1. sv_incoming_sequence < r.sequence
        <5>1. r.sequence \in Nat
          BY Fields DEF TypeOK
        <5> QED BY <1>2s, <3>3, <5>1, Numbers
      <4> QED BY <3>3, <4>1 DEF MessageInv, MessageAcks
    <3> QED BY <1>2, <3>1, <3>2, <3>3 DEF MessageAcks
  <2> QED BY <1>2, <2>3, <2>4, <2>5 DEF MessageInv
<1> QED BY <1>8, <1>9, <1>10, <1>11

LEMMA DoReceiveInv ==
  ASSUME IInv, NEW q \in s2c, DoReceive(q)
  PROVE  IInv'
<1> USE DEF IInv
<1>1. /\ q \in Packet /\ q.sequence \in Nat /\ q.sequence_ack \in Nat
      /\ q.reliable_message \in Bit /\ q.reliable_ack \in Bit
      /\ q.after \in Nat /\ q.count \in Nat
  BY DEF TypeOK, Packet
<1>2. /\ q.sequence > last_incoming_sequence_number
      /\ last_incoming_sequence_number' = q.sequence
      /\ outgoing_reliable_xor' = IF q.reliable_message = 1
                                  THEN Flip(outgoing_reliable_xor)
                                  ELSE outgoing_reliable_xor
      /\ ReleaseBuffers(q)
      /\ UNCHANGED <<reliablebuffertail, reliable_sequence_number,
                     current_outgoing_sequence_number, serverVars, c2s, s2c>>
  BY DEF DoReceive, Accept
<1>3. cl_read' = cl_read \o Items(q.after, q.count)
  BY DEF DoReceive
<1>4. /\ q.sequence <= sv_incoming_sequence /\ q.sequence < sv_outgoing_sequence
      /\ q.reliable_message = 0 => q.count = 0
      /\ q.sequence \in Nat /\ q.sequence > last_incoming_sequence_number
      /\ last_incoming_sequence_number' = q.sequence
  BY <1>1, <1>2 DEF SequenceInv
<1> USE DEF serverVars, chanInVars, chanOutVars
<1>5. q.reliable_message = 1 =>
        /\ sv_reliable_length > 0 /\ q.sequence + 1 = sv_last_reliable_sequence
        /\ q.after = Len(cl_read) /\ q.count = sv_reliable_length
        /\ Len(cl_read) = Cleared
        /\ outgoing_reliable_xor # sv_reliable_sequence
  BY <1>4, FirstReadOfBuffer
<1>6. /\ cl_read' \in Seq(Nat) /\ Len(cl_read') = Len(cl_read) + q.count
      /\ \A i \in 1..Len(cl_read') : cl_read'[i] = i
  <2>1. q.count > 0 => q.after = Len(cl_read)
    BY <1>1, <1>4, <1>5 DEF Bit
  <2>2. cl_read \in Seq(Nat) /\ \A i \in 1..Len(cl_read) : cl_read[i] = i
    BY DEF MessageInv, TypeOK
  <2> QED BY <1>1, <1>3, <2>1, <2>2, ReadOn
\* What the packet tells about the client's own buffers.
<1>7. \/ /\ ~ShouldHaveSeen(q)
         /\ UNCHANGED <<reliablebufferhead, reliable_buffers_sent, incoming_reliable_xor>>
      \/ /\ ShouldHaveSeen(q) /\ reliable_buffers_sent' = 0
         /\ Len(sv_read) = reliablebufferhead' - 1
         /\ sv_incoming_reliable_sequence = incoming_reliable_xor'
         /\ incoming_reliable_xor' \in Bit
         /\ reliablebufferhead' \in {reliablebufferhead,
                                     reliablebufferhead + reliable_buffers_sent}
         /\ sv_incoming_sequence >= reliable_sequence_number
  <2>1. CASE ~ShouldHaveSeen(q)
    BY <1>2, <2>1 DEF ReleaseBuffers
  <2>2. CASE ShouldHaveSeen(q)
    <3>1. /\ reliable_buffers_sent > 0 /\ q.sequence >= reliable_sequence_number
          /\ q.reliable_ack = sv_incoming_reliable_sequence
      BY <2>2 DEF ShouldHaveSeen, CommandInv, CommandReplies
    <3>2. sv_incoming_sequence >= reliable_sequence_number
      BY <1>1, <1>4, <3>1, Numbers
    <3>3. CASE q.reliable_ack # incoming_reliable_xor
      <4>1. /\ reliable_buffers_sent' = 0 /\ reliablebufferhead' = reliablebufferhead
            /\ incoming_reliable_xor' = Flip(incoming_reliable_xor)
        BY <1>2, <2>2, <3>3 DEF ReleaseBuffers
      <4>2. Len(sv_read) = reliablebufferhead - 1
        BY <3>1, <3>3, Numbers DEF CommandInv, CommandBits
      <4>3. /\ sv_incoming_reliable_sequence = incoming_reliable_xor'
            /\ incoming_reliable_xor' \in Bit
        BY <3>1, <3>3, <4>1 DEF TypeOK, Bit, Flip
      <4> QED BY <2>2, <3>2, <4>1, <4>2, <4>3
    <3>4. CASE q.reliable_ack = incoming_reliable_xor
      <4>1. /\ reliable_buffers_sent' = 0
            /\ reliablebufferhead' = reliablebufferhead + reliable_buffers_sent
            /\ incoming_reliable_xor' = incoming_reliable_xor
        BY <1>2, <2>2, <3>4 DEF ReleaseBuffers
      <4>2. Len(sv_read) = reliablebufferhead - 1 + reliable_buffers_sent
        BY <3>1, <3>4, Numbers DEF CommandInv, CommandBits
      <4>3. Len(sv_read) = reliablebufferhead' - 1
        BY <4>1, <4>2, Numbers
      <4> QED BY <2>2, <3>1, <3>2, <3>4, <4>1, <4>3 DEF TypeOK
    <3> QED BY <3>3, <3>4
  <2> QED BY <2>1, <2>2
<1>8. TypeOK'
  <2>1. reliablebufferhead' \in Nat \ {0} /\ reliable_buffers_sent' \in Nat
    <3>1. CASE ~ShouldHaveSeen(q)
      BY <1>7, <3>1, Numbers
    <3>2. CASE ShouldHaveSeen(q)
      BY <1>7, <3>2, Numbers
    <3> QED BY <3>1, <3>2
  <2>2. outgoing_reliable_xor' \in Bit /\ incoming_reliable_xor' \in Bit
    BY <1>2, <1>7 DEF TypeOK, Bit, Flip
  <2> QED BY <1>1, <1>2, <1>6, <2>1, <2>2 DEF TypeOK
<1>9. SequenceInv'
  <2>1. /\ last_incoming_sequence_number' = q.sequence
        /\ q.sequence > last_incoming_sequence_number
        /\ q.sequence < sv_outgoing_sequence
    BY <1>2, <1>4
  <2>2. sv_incoming_acknowledged <= q.sequence
    BY <1>1, <2>1, Numbers DEF SequenceInv
  <2>3. ASSUME NEW p \in c2s PROVE p.sequence_ack <= q.sequence
    <3>1. p.sequence_ack \in Nat
      BY Fields DEF TypeOK
    <3> QED BY <1>1, <2>1, <3>1, Numbers DEF SequenceInv
  <2> QED BY <1>2, <2>1, <2>2, <2>3 DEF SequenceInv
<1>10. CommandInv'
  <2>1. CASE ~ShouldHaveSeen(q)
    BY <1>2, <1>7, <2>1
    DEF CommandInv, CommandBits, CommandLive, CommandReplies
  <2>2. CASE ShouldHaveSeen(q)
    <3>1. CommandBits'
      BY <1>2, <1>7, <2>2, Numbers DEF CommandInv, CommandBits
    <3>2. CommandLive'
      <4> SUFFICES ASSUME NEW p \in c2s, p.reliable_message = 1,
                          p.sequence > sv_incoming_sequence
                   PROVE  FALSE
        BY <1>2 DEF CommandLive
      <4>1. p.sequence = reliable_sequence_number
        BY DEF CommandInv, CommandLive
      <4> QED BY <1>7, <2>2, <4>1, Numbers
    <3>3. CommandReplies'
      BY <1>2, <1>7, <2>2 DEF CommandReplies
    <3> QED BY <1>2, <3>1, <3>2, <3>3 DEF CommandInv
  <2> QED BY <2>1, <2>2
<1>11. MessageInv'
  <2>1. Cleared' = Cleared
    BY <1>2 DEF Cleared
  <2>2. CASE q.reliable_message = 1
    <3>1. q.sequence + 1 = sv_last_reliable_sequence /\ sv_reliable_length > 0
      BY <1>5, <2>2
    <3>2. outgoing_reliable_xor' = sv_reliable_sequence
      BY <1>2, <1>5, <2>2 DEF TypeOK, Bit, Flip
    <3>3. MessageBits'
      <4>1. /\ sv_reliable_length > 0 /\ Len(cl_read') = Cleared + sv_reliable_length
            /\ last_incoming_sequence_number' + 1 >= sv_last_reliable_sequence
        <5>1. Len(cl_read') = Cleared + sv_reliable_length
          BY <1>5, <1>6, <2>2
        <5>2. last_incoming_sequence_number' + 1 >= sv_last_reliable_sequence
          BY <1>4, <3>1
        <5> QED BY <3>1, <5>1, <5>2
      <4>2. /\ sv_last_reliable_sequence > 0
            /\ sv_last_reliable_sequence <= sv_outgoing_sequence
        BY <4>1 DEF MessageInv, MessageBits
      <4> QED BY <1>2, <2>1, <3>2, <4>1, <4>2, Numbers DEF MessageBits
    <3>4. MessageLive'
      <4> SUFFICES ASSUME NEW r \in s2c, r.reliable_message = 1,
                          r.sequence > q.sequence
                   PROVE  FALSE
        BY <1>2 DEF MessageLive
      <4>1. r.sequence \in Nat
        BY Fields DEF TypeOK
      <4>2. r.sequence > last_incoming_sequence_number
        BY <1>1, <1>2, <4>1, Numbers
      <4>3. r.sequence + 1 = sv_last_reliable_sequence
        BY <4>2 DEF MessageInv, MessageLive
      <4> QED BY <1>1, <1>5, <2>2, <4>1, <4>3
    <3>5. MessageAcks'
      <4>1. ASSUME NEW p \in c2s
            PROVE  ~(p.sequence_ack + 1 >= sv_last_reliable_sequence)
        <5>1. p.sequence_ack \in Nat /\ p.sequence_ack <= last_incoming_sequence_number
          BY Fields DEF TypeOK, SequenceInv
        <5> QED BY <1>4, <3>1, <5>1, Numbers
      <4>2. ~(sv_incoming_acknowledged + 1 >= sv_last_reliable_sequence)
        BY <1>4, <3>1, Numbers DEF SequenceInv
      <4> QED BY <1>2, <1>5, <2>2, <3>2, <4>1, <4>2, Numbers
              DEF MessageInv, MessageAcks
    <3> QED BY <1>6, <3>3, <3>4, <3>5 DEF MessageInv
  <2>3. CASE q.reliable_message = 0
    <3>1. outgoing_reliable_xor' = outgoing_reliable_xor
      BY <1>2, <2>3
    <3>2. Len(cl_read') = Len(cl_read)
      BY <1>4, <1>6, <2>3, Lengths
    <3>3. /\ last_incoming_sequence_number' \in Nat
          /\ last_incoming_sequence_number' > last_incoming_sequence_number
      BY <1>1, <1>2
    <3>4. MessageBits'
      <4>1. /\ sv_reliable_length' = sv_reliable_length
            /\ sv_reliable_sequence' = sv_reliable_sequence
            /\ sv_last_reliable_sequence' = sv_last_reliable_sequence
            /\ sv_outgoing_sequence' = sv_outgoing_sequence
            /\ sv_incoming_reliable_acknowledged' = sv_incoming_reliable_acknowledged
        BY <1>2
      <4>2. last_incoming_sequence_number + 1 >= sv_last_reliable_sequence
              => last_incoming_sequence_number' + 1 >= sv_last_reliable_sequence
        BY <3>3, Numbers
      <4> QED BY <2>1, <3>1, <3>2, <4>1, <4>2 DEF MessageInv, MessageBits
    <3>5. MessageLive'
      <4> SUFFICES ASSUME NEW r \in s2c, r.reliable_message = 1,
                          r.sequence > last_incoming_sequence_number'
                   PROVE  /\ sv_reliable_length > 0
                          /\ r.sequence + 1 = sv_last_reliable_sequence
                          /\ r.after = Cleared /\ r.count = sv_reliable_length
        BY <1>2, <2>1 DEF MessageLive
      <4>1. r.sequence \in Nat
        BY Fields DEF TypeOK
      <4>2. r.sequence > last_incoming_sequence_number
        BY <3>3, <4>1, Numbers
      <4> QED BY <4>2 DEF MessageInv, MessageLive
    <3>6. MessageAcks'
      BY <1>2, <3>1 DEF MessageInv, MessageAcks
    <3> QED BY <1>6, <3>4, <3>5, <3>6 DEF MessageInv
  <2> QED BY <1>1, <2>2, <2>3 DEF Bit
<1> QED BY <1>8, <1>9, <1>10, <1>11

LEMMA ServerTransmitInv == IInv /\ ServerTransmit => IInv'
<1> SUFFICES ASSUME IInv, ServerTransmit PROVE IInv'
  OBVIOUS
<1> USE DEF IInv
<1>1. PICK send, new :
        /\ send = IF Dropped \/ FillBuffer THEN 1 ELSE 0
        /\ new = [sequence |-> sv_outgoing_sequence,
                  sequence_ack |-> sv_incoming_sequence,
                  reliable_message |-> send,
                  reliable_ack |-> sv_incoming_reliable_sequence,
                  after |-> sv_written - (sv_message + sv_reliable_length),
                  count |-> IF send = 1 THEN AfterFill[1] ELSE 0]
  OBVIOUS
<1>2. /\ sv_reply_due /\ sv_reply_due' = FALSE
      /\ sv_reliable_sequence' = IF FillBuffer THEN Flip(sv_reliable_sequence)
                                 ELSE sv_reliable_sequence
      /\ sv_outgoing_sequence' = sv_outgoing_sequence + 1
      /\ sv_last_reliable_sequence' = IF send = 1 THEN sv_outgoing_sequence + 1
                                      ELSE sv_last_reliable_sequence
      /\ s2c' = s2c \cup {new}
      /\ UNCHANGED <<clientVars, chanInVars, sv_written, c2s>>
  BY <1>1 DEF ServerTransmit, MayTransmit, NetchanTransmit
<1>3. /\ sv_reliable_length' = AfterFill[1] /\ sv_message' = AfterFill[2]
      /\ AfterFill[1] = IF FillBuffer THEN sv_message ELSE sv_reliable_length
      /\ AfterFill[2] = IF FillBuffer THEN 0 ELSE sv_message
  BY DEF ServerTransmit, NetchanTransmit, AfterFill
<1>4. /\ sv_reliable_length' \in Nat /\ sv_message' \in Nat
      /\ sv_message' + sv_reliable_length' = sv_message + sv_reliable_length
  BY <1>3, Numbers DEF FillBuffer
<1>5. Cleared' = Cleared /\ Cleared \in Nat
  BY <1>2, <1>4, Numbers DEF Cleared
\* The server has read a packet since its last one.
<1>6. sv_outgoing_sequence = sv_incoming_sequence /\ sv_incoming_sequence > 0
  BY <1>2 DEF SequenceInv
<1>7. last_incoming_sequence_number < sv_outgoing_sequence
  BY <1>6, Numbers DEF SequenceInv
<1>8. /\ new \in Packet
      /\ new.sequence = sv_outgoing_sequence
      /\ new.sequence_ack = sv_outgoing_sequence
      /\ new.reliable_message = send
      /\ new.reliable_ack = sv_incoming_reliable_sequence
      /\ send = 1 => new.after = Cleared /\ new.count = sv_reliable_length'
      /\ send = 0 => new.count = 0
  <2>1. send \in Bit /\ sv_incoming_reliable_sequence \in Bit
    BY <1>1 DEF Bit, TypeOK
  <2>2. (IF send = 1 THEN AfterFill[1] ELSE 0) \in Nat
    BY <1>3, <1>4
  <2>3. sv_written - (sv_message + sv_reliable_length) \in Nat
    BY Numbers
  <2>4. new \in Packet
    BY <1>1, <2>1, <2>2, <2>3, Numbers DEF Packet
  <2> QED BY <1>1, <1>3, <1>6, <2>4 DEF Cleared
<1> USE DEF clientVars, chanInVars, bufferVars, sendVars, sendBookkeeping,
            receiveVars
<1>9. ASSUME NEW q \in s2c' PROVE q \in s2c \/ q = new
  BY <1>2
\* The reliable buffer goes out only when it is not empty, either for the
\* first time or because the client has not read the last copy.
<1>10. send = 1 =>
         /\ sv_reliable_length' > 0
         /\ Len(cl_read) = Cleared
         /\ outgoing_reliable_xor # sv_reliable_sequence'
         /\ \A q \in s2c : ~(/\ q.reliable_message = 1
                              /\ q.sequence > last_incoming_sequence_number)
  <2>1. CASE FillBuffer
    <3>1. sv_reliable_length = 0 /\ sv_reliable_length' > 0
      BY <1>3, <2>1, Numbers DEF FillBuffer
    <3>2. Len(cl_read) = Cleared /\ outgoing_reliable_xor = sv_reliable_sequence
      BY <3>1 DEF MessageInv, MessageBits
    <3>3. outgoing_reliable_xor # sv_reliable_sequence'
      BY <1>2, <2>1, <3>2 DEF TypeOK, Bit, Flip
    <3>4. ASSUME NEW q \in s2c, q.reliable_message = 1,
                 q.sequence > last_incoming_sequence_number
          PROVE  FALSE
      BY <3>1, <3>4 DEF MessageInv, MessageLive
    <3> QED BY <3>1, <3>2, <3>3, <3>4
  <2>2. CASE Dropped /\ ~FillBuffer
    <3>1. /\ sv_incoming_acknowledged > sv_last_reliable_sequence
          /\ sv_incoming_reliable_acknowledged # sv_reliable_sequence
      BY <2>2 DEF Dropped
    <3>2. sv_reliable_length > 0
      BY <3>1, Numbers DEF MessageInv, MessageBits
    <3>3. sv_incoming_acknowledged + 1 >= sv_last_reliable_sequence
      BY <3>1, Numbers
    <3>4. outgoing_reliable_xor # sv_reliable_sequence
      BY <3>1, <3>2, <3>3 DEF MessageInv, MessageAcks
    <3>5. Len(cl_read) = Cleared
      BY <3>2, <3>4 DEF MessageInv, MessageBits
    <3>6. ASSUME NEW q \in s2c, q.reliable_message = 1,
                 q.sequence > last_incoming_sequence_number
          PROVE  FALSE
      <4>1. q.sequence + 1 = sv_last_reliable_sequence
        BY <3>6 DEF MessageInv, MessageLive
      <4>2. q.sequence \in Nat
        BY Fields DEF TypeOK
      <4>3. sv_incoming_acknowledged <= last_incoming_sequence_number
        BY DEF SequenceInv
      <4> QED BY <3>1, <3>6, <4>1, <4>2, <4>3, Numbers
    <3> QED BY <1>2, <1>3, <2>2, <3>2, <3>4, <3>5, <3>6
  <2>3. CASE ~Dropped /\ ~FillBuffer
    BY <1>1, <2>3
  <2> QED BY <2>1, <2>2, <2>3
<1>11. send \in Bit /\ (send = 0 => ~FillBuffer)
  BY <1>1 DEF Bit
<1>12. TypeOK'
  <2>1. sv_reliable_sequence' \in Bit
    BY <1>2 DEF TypeOK, Bit, Flip
  <2>2. sv_outgoing_sequence' \in Nat /\ sv_last_reliable_sequence' \in Nat
    BY <1>2, Numbers
  <2>3. s2c' \subseteq Packet /\ sv_reply_due' \in BOOLEAN
    BY <1>2, <1>8 DEF TypeOK
  <2>4. sv_message' + sv_reliable_length' <= sv_written'
    BY <1>2, <1>4, Numbers
  <2> QED BY <1>2, <1>4, <2>1, <2>2, <2>3, <2>4 DEF TypeOK
<1>13. SequenceInv'
  <2>1. ASSUME NEW q \in s2c'
        PROVE  /\ q.sequence < sv_outgoing_sequence + 1
               /\ q.sequence <= sv_incoming_sequence
               /\ q.sequence <= q.sequence_ack
               /\ q.reliable_message = 0 => q.count = 0
    <3>1. CASE q \in s2c
      <4>1. q \in Packet
        BY <3>1 DEF TypeOK
      <4> QED BY <3>1, <4>1, Fields, Numbers DEF SequenceInv
    <3>2. CASE q = new
      BY <1>6, <1>8, <3>2, Numbers
    <3> QED BY <1>9, <3>1, <3>2
  <2>2. last_incoming_sequence_number < sv_outgoing_sequence + 1
    BY <1>7, Numbers
  <2>3. sv_outgoing_sequence + 1 <= sv_incoming_sequence + 1
    BY <1>6, Numbers
  <2> QED BY <1>2, <2>1, <2>2, <2>3 DEF SequenceInv
<1>14. CommandInv'
  <2>1. CommandBits' /\ CommandLive'
    BY <1>2 DEF CommandInv, CommandBits, CommandLive
  <2>2. CommandReplies'
    <3> SUFFICES ASSUME NEW q \in s2c', reliable_buffers_sent > 0,
                        q.sequence >= reliable_sequence_number
                 PROVE  q.reliable_ack = sv_incoming_reliable_sequence
      BY <1>2 DEF CommandReplies
    <3>1. CASE q \in s2c
      BY <3>1 DEF CommandInv, CommandReplies
    <3>2. CASE q = new
      BY <1>8, <3>2
    <3> QED BY <1>9, <3>1, <3>2
  <2> QED BY <1>2, <2>1, <2>2 DEF CommandInv
<1>15. MessageInv'
  <2>1. MessageBits'
    <3>1. CASE send = 1
      <4>1. sv_last_reliable_sequence' > 0
        BY <1>2, <3>1, Numbers
      <4>2. sv_last_reliable_sequence' <= sv_outgoing_sequence'
        BY <1>2, <3>1, Numbers
      <4>3. /\ sv_reliable_length' > 0 /\ Len(cl_read') = Cleared'
            /\ outgoing_reliable_xor' # sv_reliable_sequence'
        BY <1>2, <1>5, <1>10, <3>1
      <4> QED BY <1>4, <4>1, <4>2, <4>3 DEF MessageBits
    <3>2. CASE send = 0
      <4>1. /\ sv_reliable_length' = sv_reliable_length
            /\ sv_reliable_sequence' = sv_reliable_sequence
            /\ sv_last_reliable_sequence' = sv_last_reliable_sequence
        BY <1>2, <1>3, <1>11, <3>2
      <4>2. sv_last_reliable_sequence <= sv_outgoing_sequence
              => sv_last_reliable_sequence <= sv_outgoing_sequence'
        BY <1>2, Numbers
      <4> QED BY <1>2, <1>5, <4>1, <4>2 DEF MessageInv, MessageBits
    <3> QED BY <1>11, <3>1, <3>2 DEF Bit
  <2>2. MessageLive'
    <3> SUFFICES ASSUME NEW q \in s2c', q.reliable_message = 1,
                        q.sequence > last_incoming_sequence_number
                 PROVE  /\ sv_reliable_length' > 0
                        /\ q.sequence + 1 = sv_last_reliable_sequence'
                        /\ q.after = Cleared /\ q.count = sv_reliable_length'
      BY <1>2, <1>5 DEF MessageLive
    <3>1. CASE q \in s2c
      <4>1. send = 0
        BY <1>10, <1>11, <3>1 DEF Bit
      <4>2. /\ sv_reliable_length' = sv_reliable_length
            /\ sv_last_reliable_sequence' = sv_last_reliable_sequence
        BY <1>2, <1>3, <1>11, <4>1
      <4> QED BY <3>1, <4>2 DEF MessageInv, MessageLive
    <3>2. CASE q = new
      BY <1>2, <1>8, <1>10, <3>2
    <3> QED BY <1>9, <3>1, <3>2
  <2>3. MessageAcks'
    <3>1. CASE send = 1
      <4>1. sv_reliable_length' > 0 /\ sv_last_reliable_sequence' = sv_outgoing_sequence + 1
        BY <1>2, <1>10, <3>1
      <4>2. ASSUME NEW p \in c2s
            PROVE  ~(p.sequence_ack + 1 >= sv_last_reliable_sequence')
        <5>1. p.sequence_ack \in Nat /\ p.sequence_ack <= last_incoming_sequence_number
          BY Fields DEF TypeOK, SequenceInv
        <5> QED BY <1>7, <4>1, <5>1, Numbers
      <4>3. ~(sv_incoming_acknowledged + 1 >= sv_last_reliable_sequence')
        BY <1>7, <4>1, Numbers DEF SequenceInv
      <4>4. ASSUME NEW p \in c2s, p.sequence > sv_incoming_sequence
            PROVE  p.reliable_ack # sv_reliable_sequence'
        <5>1. p.reliable_ack \in Bit
          BY Fields DEF TypeOK
        <5>2. CASE FillBuffer
          <6>1. p.reliable_ack = sv_reliable_sequence
            BY <4>4, <5>2 DEF FillBuffer, MessageInv, MessageAcks
          <6> QED BY <1>2, <5>1, <5>2, <6>1 DEF Flip, Bit
        <5>3. CASE ~FillBuffer
          <6>1. sv_reliable_sequence' = sv_reliable_sequence
            BY <1>2, <5>3
          <6>2. outgoing_reliable_xor # sv_reliable_sequence
            BY <1>10, <3>1, <6>1
          <6> QED BY <4>4, <6>1, <6>2 DEF MessageInv, MessageAcks
        <5> QED BY <5>2, <5>3
      <4> QED BY <1>2, <4>1, <4>2, <4>3, <4>4 DEF MessageAcks
    <3>2. CASE send = 0
      <4>1. /\ sv_reliable_length' = sv_reliable_length
            /\ sv_reliable_sequence' = sv_reliable_sequence
            /\ sv_last_reliable_sequence' = sv_last_reliable_sequence
        BY <1>2, <1>3, <1>11, <3>2
      <4> QED BY <1>2, <4>1 DEF MessageInv, MessageAcks
    <3> QED BY <1>11, <3>1, <3>2 DEF Bit
  <2> QED BY <1>2, <2>1, <2>2, <2>3 DEF MessageInv
<1> QED BY <1>12, <1>13, <1>14, <1>15

LEMMA NextInv == IInv /\ [Next]_vars => IInv'
<1> SUFFICES ASSUME IInv, [Next]_vars PROVE IInv'
  OBVIOUS
<1>1. CASE AppendReliableBuffer BY <1>1, AppendInv
<1>2. CASE DoSend BY <1>2, DoSendInv
<1>3. CASE \E q \in s2c : DoReceive(q) BY <1>3, DoReceiveInv
<1>4. CASE ServerWrite BY <1>4, ServerWriteInv
<1>5. CASE \E p \in c2s : ServerReceive(p) BY <1>5, ServerReceiveInv
<1>6. CASE ServerTransmit BY <1>6, ServerTransmitInv
<1>7. CASE UNCHANGED vars BY <1>7, StutterInv
<1> QED BY <1>1, <1>2, <1>3, <1>4, <1>5, <1>6, <1>7 DEF Next

-----------------------------------------------------------------------------
(* The link never leaves its inductive invariant, whatever the network      *)
(* loses, repeats or delays.                                                *)
THEOREM Invariance == Spec => []IInv
BY InitInv, NextInv, PTL DEF Spec

(* Every state has its type. *)
THEOREM TypeCorrect == Spec => []TypeOK
<1>1. IInv => TypeOK
  BY DEF IInv
<1> QED BY <1>1, Invariance, PTL

LEMMA CommandsRead ==
  ASSUME IInv
  PROVE  \/ Len(sv_read) = reliablebufferhead - 1
         \/ Len(sv_read) = reliablebufferhead - 1 + reliable_buffers_sent
<1>1. reliable_buffers_sent = 0 \/ reliable_buffers_sent > 0
  BY Numbers DEF IInv
<1> QED BY <1>1 DEF IInv, CommandInv, CommandBits

(* The server reads the commands once each and in order. *)
THEOREM CommandsInOrderAlways == Spec => []CommandsInOrder
<1>1. IInv => CommandsInOrder
  <2> SUFFICES ASSUME IInv PROVE CommandsInOrder
    OBVIOUS
  <2>1. Len(sv_read) <= reliablebuffertail
    <3>1. reliablebufferhead + reliable_buffers_sent <= reliablebuffertail + 1
      BY DEF IInv, CommandInv, CommandBits
    <3>2. \/ Len(sv_read) = reliablebufferhead - 1
          \/ Len(sv_read) = reliablebufferhead - 1 + reliable_buffers_sent
      BY CommandsRead DEF IInv
    <3>3. /\ reliablebufferhead \in Nat /\ reliablebuffertail \in Nat
          /\ reliable_buffers_sent \in Nat
      BY Numbers DEF IInv
    <3>4. reliablebufferhead - 1 <= reliablebuffertail
      BY <3>1, <3>3
    <3>5. reliablebufferhead - 1 + reliable_buffers_sent <= reliablebuffertail
      BY <3>1, <3>3
    <3> QED BY <3>2, <3>4, <3>5
  <2> QED BY <2>1 DEF IInv, CommandInv, CommandsInOrder, InOrder
<1> QED BY <1>1, Invariance, PTL

(* The client frees a reliable buffer only after the server has read it. *)
THEOREM FreedOnlyIfReadAlways == Spec => []FreedOnlyIfRead
<1>1. IInv => FreedOnlyIfRead
  BY CommandsRead DEF FreedOnlyIfRead
<1> QED BY <1>1, Invariance, PTL

(* The client reads the server's messages once each and in order. *)
THEOREM MessagesInOrderAlways == Spec => []MessagesInOrder
<1>1. IInv => MessagesInOrder
  <2> SUFFICES ASSUME IInv PROVE MessagesInOrder
    OBVIOUS
  <2>1. Len(cl_read) <= sv_written
    <3>1. Len(cl_read) = Cleared \/ Len(cl_read) = Cleared + sv_reliable_length
      BY Numbers DEF IInv, MessageInv, MessageBits
    <3>2. Cleared <= sv_written /\ Cleared + sv_reliable_length <= sv_written
      BY Numbers DEF IInv, Cleared
    <3> QED BY <3>1, <3>2
  <2> QED BY <2>1 DEF IInv, MessageInv, MessagesInOrder, InOrder
<1> QED BY <1>1, Invariance, PTL

(* The server clears its reliable buffer only after the client has read it. *)
THEOREM ClearedOnlyIfReadAlways == Spec => []ClearedOnlyIfRead
<1>1. IInv => ClearedOnlyIfRead
  BY Numbers DEF IInv, MessageInv, MessageBits, ClearedOnlyIfRead
<1> QED BY <1>1, Invariance, PTL

(* The client sends a batch again only when the server has acknowledged the *)
(* packet that carried it, or a later one.                                  *)
THEOREM RetransmitsOnlyAfterDrop == Spec => RetransmitOnlyAfterDrop
<1> DEFINE Acked == GivesUp => \E q \in s2c :
                      /\ q.sequence = last_incoming_sequence_number'
                      /\ q.sequence_ack >= reliable_sequence_number
<1>1. IInv /\ [Next]_vars => [Acked]_vars
  <2> SUFFICES ASSUME IInv, Next, GivesUp
               PROVE  \E q \in s2c : /\ q.sequence = last_incoming_sequence_number'
                                     /\ q.sequence_ack >= reliable_sequence_number
    OBVIOUS
  <2>1. reliable_buffers_sent > 0 /\ reliable_buffers_sent' = 0
    BY DEF GivesUp
  <2>2. reliable_buffers_sent' # reliable_buffers_sent
    BY <2>1, Numbers DEF IInv
  <2>3. CASE \E q \in s2c : DoReceive(q)
    <3>1. PICK q \in s2c : DoReceive(q)
      BY <2>3
    <3>2. ShouldHaveSeen(q)
      BY <2>2, <3>1 DEF DoReceive, ReleaseBuffers
    <3>3. q.sequence \in Nat /\ q.sequence_ack \in Nat /\ q.sequence <= q.sequence_ack
      BY Fields DEF IInv, TypeOK, SequenceInv
    <3>4. q.sequence_ack >= reliable_sequence_number
      BY <3>2, <3>3, Numbers DEF IInv, ShouldHaveSeen
    <3> QED BY <3>1, <3>4 DEF DoReceive
  <2>4. CASE DoSend
    <3>1. PICK j \in Batch : SendBatch(j)
      BY <2>4 DEF DoSend
    <3>2. j = 0
      BY <2>1, <3>1, Numbers DEF Batch, IInv
    <3> QED BY <2>2, <3>1, <3>2 DEF SendBatch, sendBookkeeping
  <2>5. CASE AppendReliableBuffer
    BY <2>2, <2>5 DEF AppendReliableBuffer, sendVars, sendBookkeeping
  <2>6. CASE ServerWrite
    BY <2>2, <2>6 DEF ServerWrite, clientVars, sendVars, sendBookkeeping
  <2>7. CASE \E p \in c2s : ServerReceive(p)
    BY <2>2, <2>7 DEF ServerReceive, clientVars, sendVars, sendBookkeeping
  <2>8. CASE ServerTransmit
    BY <2>2, <2>8 DEF ServerTransmit, clientVars, sendVars, sendBookkeeping
  <2> QED BY <2>3, <2>4, <2>5, <2>6, <2>7, <2>8 DEF Next
<1> QED BY <1>1, Invariance, PTL DEF Spec, RetransmitOnlyAfterDrop

-----------------------------------------------------------------------------
\* Reading a packet without items changes nothing.
LEMMA ReadNothing ==
  ASSUME NEW s \in Seq(Nat), NEW k \in Nat
  PROVE  s \o Items(k, 0) = s
<1>1. Items(k, 0) = << >>
  BY DEF Items
<1> QED BY <1>1, ConcatEmptySeq

(* The client-to-server direction implements the abstract stream.           *)
THEOREM UpRefinement == Spec => UpStream
<1>1. Init => Up!Init
  BY DEF Init, Up!Init
<1>2. IInv /\ [Next]_vars => [Up!Next]_(Up!vars)
  <2> SUFFICES ASSUME IInv, [Next]_vars
               PROVE  Up!Next \/ UNCHANGED Up!vars
    OBVIOUS
  <2>1. CASE AppendReliableBuffer
    <3>1. reliablebuffertail' = reliablebuffertail + 1 /\ sv_read' = sv_read
      BY <2>1 DEF AppendReliableBuffer, serverVars, chanInVars
    <3> QED BY <3>1 DEF Up!Next, Up!Write
  <2>2. CASE \E p \in c2s : ServerReceive(p)
    <3>1. PICK p \in c2s : ServerReceive(p)
      BY <2>2
    <3>2. /\ p.sequence > sv_incoming_sequence
          /\ sv_read' = sv_read \o Items(p.after, p.count)
          /\ reliablebuffertail' = reliablebuffertail
      BY <3>1 DEF ServerReceive, NetchanProcess, clientVars, bufferVars
    <3>3. p.reliable_message \in Bit /\ p.after \in Nat /\ p.count \in Nat
      BY Fields DEF IInv, TypeOK
    <3>4. CASE p.reliable_message = 1
      <4>1. /\ p.after = Len(sv_read) /\ p.count = reliable_buffers_sent
            /\ reliable_buffers_sent > 0
            /\ Len(sv_read) = reliablebufferhead - 1
        BY <3>2, <3>4, FirstReadOfBatch
      <4>2. reliablebufferhead + reliable_buffers_sent <= reliablebuffertail + 1
        BY DEF IInv, CommandInv, CommandBits
      <4>3. p.count \in 1..(reliablebuffertail - Len(sv_read))
        BY <3>3, <4>1, <4>2, Numbers DEF IInv
      <4>4. sv_read' = sv_read \o Up!Items(Len(sv_read), p.count)
        BY <3>2, <4>1 DEF Items, Up!Items
      <4> QED BY <3>2, <4>3, <4>4 DEF Up!Next, Up!Read
    <3>5. CASE p.reliable_message = 0
      <4>1. p.count = 0
        BY <3>5 DEF IInv, SequenceInv
      <4>2. sv_read' = sv_read
        BY <3>2, <3>3, <4>1, ReadNothing DEF IInv, TypeOK
      <4> QED BY <3>2, <4>2 DEF Up!vars
    <3> QED BY <3>3, <3>4, <3>5 DEF Bit
  <2>3. CASE DoSend
    BY <2>3 DEF DoSend, bufferVars, serverVars, chanInVars, Up!vars
  <2>4. CASE \E q \in s2c : DoReceive(q)
    BY <2>4 DEF DoReceive, serverVars, chanInVars, Up!vars
  <2>5. CASE ServerWrite
    BY <2>5 DEF ServerWrite, clientVars, bufferVars, chanInVars, Up!vars
  <2>6. CASE ServerTransmit
    BY <2>6 DEF ServerTransmit, clientVars, bufferVars, chanInVars, Up!vars
  <2>7. CASE UNCHANGED vars
    BY <2>7 DEF vars, clientVars, bufferVars, serverVars, chanInVars, Up!vars
  <2> QED BY <2>1, <2>2, <2>3, <2>4, <2>5, <2>6, <2>7 DEF Next
<1> QED BY <1>1, <1>2, Invariance, PTL DEF Spec, UpStream, Up!Spec

(* The server-to-client direction implements the abstract stream.           *)
THEOREM DownRefinement == Spec => DownStream
<1>1. Init => Down!Init
  BY DEF Init, Down!Init
<1>2. IInv /\ [Next]_vars => [Down!Next]_(Down!vars)
  <2> SUFFICES ASSUME IInv, [Next]_vars
               PROVE  Down!Next \/ UNCHANGED Down!vars
    OBVIOUS
  <2>1. CASE ServerWrite
    <3>1. sv_written' = sv_written + 1 /\ cl_read' = cl_read
      BY <2>1 DEF ServerWrite, clientVars, receiveVars
    <3> QED BY <3>1 DEF Down!Next, Down!Write
  <2>2. CASE \E q \in s2c : DoReceive(q)
    <3>1. PICK q \in s2c : DoReceive(q)
      BY <2>2
    <3>2. /\ q.sequence > last_incoming_sequence_number
          /\ cl_read' = cl_read \o Items(q.after, q.count)
          /\ sv_written' = sv_written
      BY <3>1 DEF DoReceive, Accept, serverVars, chanOutVars
    <3>3. q.reliable_message \in Bit /\ q.after \in Nat /\ q.count \in Nat
      BY Fields DEF IInv, TypeOK
    <3>4. CASE q.reliable_message = 1
      <4>1. /\ q.after = Len(cl_read) /\ q.count = sv_reliable_length
            /\ sv_reliable_length > 0 /\ Len(cl_read) = Cleared
        BY <3>2, <3>4, FirstReadOfBuffer
      <4>2. Cleared + sv_reliable_length <= sv_written
        BY Numbers DEF IInv, Cleared
      <4>3. q.count \in 1..(sv_written - Len(cl_read))
        <5>1. Cleared \in Nat
          BY Numbers DEF IInv, Cleared
        <5> QED BY <3>3, <4>1, <4>2, <5>1, Numbers DEF IInv
      <4>4. cl_read' = cl_read \o Down!Items(Len(cl_read), q.count)
        BY <3>2, <4>1 DEF Items, Down!Items
      <4> QED BY <3>2, <4>3, <4>4 DEF Down!Next, Down!Read
    <3>5. CASE q.reliable_message = 0
      <4>1. q.count = 0
        BY <3>5 DEF IInv, SequenceInv
      <4>2. cl_read' = cl_read
        BY <3>2, <3>3, <4>1, ReadNothing DEF IInv, TypeOK
      <4> QED BY <3>2, <4>2 DEF Down!vars
    <3> QED BY <3>3, <3>4, <3>5 DEF Bit
  <2>3. CASE AppendReliableBuffer
    BY <2>3 DEF AppendReliableBuffer, receiveVars, serverVars, chanOutVars, Down!vars
  <2>4. CASE DoSend
    BY <2>4 DEF DoSend, receiveVars, serverVars, chanOutVars, Down!vars
  <2>5. CASE \E p \in c2s : ServerReceive(p)
    BY <2>5 DEF ServerReceive, clientVars, receiveVars, Down!vars
  <2>6. CASE ServerTransmit
    BY <2>6 DEF ServerTransmit, clientVars, receiveVars, Down!vars
  <2>7. CASE UNCHANGED vars
    BY <2>7 DEF vars, clientVars, receiveVars, serverVars, chanOutVars, Down!vars
  <2> QED BY <2>1, <2>2, <2>3, <2>4, <2>5, <2>6, <2>7 DEF Next
<1> QED BY <1>1, <1>2, Invariance, PTL DEF Spec, DownStream, Down!Spec

=============================================================================
