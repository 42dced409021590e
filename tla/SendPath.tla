------------------------------ MODULE SendPath ------------------------------
(***************************************************************************)
(* From the client to the network and what is measured of it: the          *)
(* compression and the artificial lag of NetQW_Thread_SendPacket, the      *)
(* queue of packets that wait, and the packet loss that                    *)
(* NetQW_Thread_HandleReceivedPacket computes from a ring of replies.  The *)
(* application changes the lag while the net thread works.                 *)
(***************************************************************************)
EXTENDS Huffman, FiniteSets

CONSTANTS
  PLPACKETHISTORYCOUNT,  \* slots of the ring of replies
  Lags,                  \* values the application sets, in ticks
  Second,                \* ticks of a second
  Bytes, MaxLength,      \* contents: any of these bytes, up to a length
  MaxPackets, MaxTime    \* bounds on the packets and the clock

ASSUME SendPathAssumption ==
  /\ PLPACKETHISTORYCOUNT \in Nat \ {0}
  /\ Lags \subseteq Nat /\ 0 \in Lags
  /\ {Second, MaxLength, MaxPackets, MaxTime} \subseteq Nat

ASSUME BytesAssumption == Bytes \subseteq Byte

\* A client's packet is shorter than MAX_MSGLEN.
ASSUME LengthAssumption == MaxLength <= MAX_MSGLEN /\ 3 <= MAX_MSGLEN

VARIABLES
  step,           \* what the net thread does next
  clock,          \* Sys_IntTime, which may jump back once
  jumped,
  lag, lag_ezcheat,
  sendpackets,    \* the list from sendpackethead to sendpackettail
  wire,           \* what was given to Sys_Net_Send (history)
  current_outgoing_sequence_number,
  last_incoming_sequence_number,
  replyreceived,
  packetloss,
  replied         \* the packets a reply to which was handled (history)

sending == <<sendpackets, wire, current_outgoing_sequence_number>>
measuring == <<last_incoming_sequence_number, packetloss, replied>>
vars == <<step, clock, jumped, lag, lag_ezcheat, sending, measuring, replyreceived>>

Slots == 0 .. PLPACKETHISTORYCOUNT - 1
Slot(n) == n % PLPACKETHISTORYCOUNT

\* NetQW_Create does not clear the ring.
Init ==
  /\ step = "release" /\ clock = 0 /\ jumped = FALSE
  /\ lag = 0 /\ lag_ezcheat = FALSE
  /\ sendpackets = << >> /\ wire = << >>
  /\ current_outgoing_sequence_number = 1
  /\ last_incoming_sequence_number = 0
  /\ replyreceived \in {[s \in Slots |-> 0], [s \in Slots |-> 1]}
  /\ packetloss = 0 /\ replied = {}

-----------------------------------------------------------------------------
(* Sending. *)

\* A packet, whether it went past the queue, and whether it can be read again.
Sent(n, past, contents) ==
  [sequence |-> n, past |-> past,
   readable |-> \A behind \in {0, 255} :
     Huff_DecompressPacket(Huff_CompressPacket(contents), behind) = contents]

Delay == IF lag_ezcheat THEN lag ELSE lag \div 2

\* Packets without lag, and those that are forced, do not wait.
NetQW_Thread_SendPacket(n, contents, force) ==
  IF lag # 0 /\ ~force
  THEN /\ sendpackets' = Append(sendpackets, [packet |-> Sent(n, FALSE, contents),
                                             delayuntil |-> clock + Delay])
       /\ UNCHANGED wire
  ELSE /\ wire' = Append(wire, Sent(n, TRUE, contents))
       /\ UNCHANGED sendpackets

\* What compression may meet is tried on the first packet only: sequences of bytes, and
\* every byte between two others.
Contents ==
  IF current_outgoing_sequence_number = 1
  THEN (UNION {[1 .. n -> Bytes] : n \in 0 .. MaxLength})
       \cup {<<0, b, 0>> : b \in Byte}
  ELSE {<<0>>}

\* Seeded bug: the slot of a packet keeps what the last packet there left.
SendMoveOver ==
  /\ step = "send" /\ current_outgoing_sequence_number <= MaxPackets
  /\ NetQW_Thread_SendPacket(current_outgoing_sequence_number, <<0>>, FALSE)
  /\ current_outgoing_sequence_number' = current_outgoing_sequence_number + 1
  /\ UNCHANGED <<step, clock, jumped, lag, lag_ezcheat, measuring, replyreceived>>

\* One packet of NetQW_Thread_DoSend.
SendMove ==
  /\ step = "send" /\ current_outgoing_sequence_number <= MaxPackets
  /\ \E contents \in Contents :
       NetQW_Thread_SendPacket(current_outgoing_sequence_number, contents, FALSE)
  /\ replyreceived' =
       [replyreceived EXCEPT ![Slot(current_outgoing_sequence_number)] = 0]
  /\ current_outgoing_sequence_number' = current_outgoing_sequence_number + 1
  /\ UNCHANGED <<step, clock, jumped, lag, lag_ezcheat, measuring>>

\* No further frame is due, and the loop of NetQW_Thread begins again.
Sleep ==
  /\ step = "send" /\ step' = "release"
  /\ UNCHANGED <<clock, jumped, lag, lag_ezcheat, sending, measuring, replyreceived>>

\* NetQW_Thread_Disconnect: three forced packets, whatever still waits.
NetQW_Thread_Disconnect ==
  /\ step = "release" /\ step' = "ended"
  /\ wire' = wire \o [i \in 1 .. 3 |->
                        Sent(current_outgoing_sequence_number + i - 1, TRUE, <<0>>)]
  /\ current_outgoing_sequence_number' = current_outgoing_sequence_number + 3
  /\ UNCHANGED <<clock, jumped, lag, lag_ezcheat, sendpackets, measuring,
                 replyreceived>>

-----------------------------------------------------------------------------
(* The queue. *)

\* A head that has to wait more than a second was queued before the clock jumped.
Checked ==
  IF sendpackets # << >> /\ Head(sendpackets).delayuntil > clock + Second
  THEN [i \in DOMAIN sendpackets |-> [sendpackets[i] EXCEPT !.delayuntil = clock]]
  ELSE sendpackets

\* The first n packets of q are all that are due before one that is not.
DueFirst(q, n) ==
  /\ \A i \in 1 .. n : q[i].delayuntil <= clock
  /\ n < Len(q) => q[n + 1].delayuntil > clock

\* Seeded bug: every packet that is due leaves the queue, not only those at its head.
ReleaseAny ==
  /\ step = "release" /\ step' = "receive"
  /\ LET due(p) == p.delayuntil <= clock
         q == Checked
         out == SelectSeq(q, due)
         left(p) == ~due(p)
     IN  /\ wire' = wire \o [i \in DOMAIN out |-> out[i].packet]
         /\ sendpackets' = SelectSeq(q, left)
  /\ UNCHANGED <<clock, jumped, lag, lag_ezcheat, current_outgoing_sequence_number,
                 measuring, replyreceived>>

\* The queue's part of a pass of NetQW_Thread's loop.
Release ==
  /\ step = "release" /\ step' = "receive"
  /\ \E n \in 0 .. Len(Checked) :
       /\ DueFirst(Checked, n)
       /\ wire' = wire \o [i \in 1 .. n |-> Checked[i].packet]
       /\ sendpackets' = SubSeq(Checked, n + 1, Len(Checked))
  /\ UNCHANGED <<clock, jumped, lag, lag_ezcheat, current_outgoing_sequence_number,
                 measuring, replyreceived>>

-----------------------------------------------------------------------------
(* Replies.  The server's packet has the number of the packet it answers. *)

\* The slots the loop over i visits: j of them, backwards from that of number s.
Window(s) ==
  LET c == current_outgoing_sequence_number
      most == IF c > PLPACKETHISTORYCOUNT THEN PLPACKETHISTORYCOUNT ELSE c
      j == most - (c - s + 1)
  IN  0 .. j - 1

NetQW_Thread_HandleReceivedPacket(s) ==
  IF s + PLPACKETHISTORYCOUNT > current_outgoing_sequence_number
  THEN /\ replyreceived' = [replyreceived EXCEPT ![Slot(s)] = 1]
       /\ LET lost == Cardinality({i \in Window(s) : replyreceived'[Slot(s - i)] = 0})
          IN  packetloss' = (lost * 100 + PLPACKETHISTORYCOUNT - 1)
                            \div PLPACKETHISTORYCOUNT
  ELSE UNCHANGED <<replyreceived, packetloss>>

\* A reply to any packet that is on the wire, newer than those before.
Receive ==
  /\ step = "receive"
  /\ \E i \in DOMAIN wire :
       LET s == wire[i].sequence
       IN  /\ s > last_incoming_sequence_number
           /\ NetQW_Thread_HandleReceivedPacket(s)
           /\ last_incoming_sequence_number' = s
           /\ replied' = replied \cup {s}
  /\ UNCHANGED <<step, clock, jumped, lag, lag_ezcheat, sending>>

NothingReceived ==
  /\ step = "receive" /\ step' = "send"
  /\ UNCHANGED <<clock, jumped, lag, lag_ezcheat, sending, measuring, replyreceived>>

-----------------------------------------------------------------------------
(* The application and the clock. *)

NetQW_SetLag ==
  /\ step # "ended"
  /\ \E l \in Lags \ {lag} : lag' = l
  /\ UNCHANGED <<step, clock, jumped, lag_ezcheat, sending, measuring, replyreceived>>

NetQW_SetLagEzcheat ==
  /\ step # "ended" /\ lag_ezcheat' = ~lag_ezcheat
  /\ UNCHANGED <<step, clock, jumped, lag, sending, measuring, replyreceived>>

Tick ==
  /\ step # "ended" /\ clock < MaxTime
  /\ clock' = clock + 1
  /\ UNCHANGED <<step, jumped, lag, lag_ezcheat, sending, measuring, replyreceived>>

JumpBack ==
  /\ step # "ended" /\ ~jumped /\ clock > 0
  /\ clock' = 0 /\ jumped' = TRUE
  /\ UNCHANGED <<step, lag, lag_ezcheat, sending, measuring, replyreceived>>

Next ==
  \/ SendMove \/ Sleep \/ NetQW_Thread_Disconnect \/ Release
  \/ Receive \/ NothingReceived
  \/ NetQW_SetLag \/ NetQW_SetLagEzcheat \/ Tick \/ JumpBack

Spec == Init /\ [][Next]_vars

-----------------------------------------------------------------------------
(* Whatever the application does to the lag, and although the clock may jump, no    *)
(* packet is sent twice, and one is overtaken only by a packet that did not wait:   *)
(* one sent without lag or the "drop" of NetQW_Thread_Disconnect.                   *)
SentInOrder ==
  \A i, j \in DOMAIN wire : i < j =>
    /\ wire[i].sequence # wire[j].sequence
    /\ wire[j].sequence < wire[i].sequence => wire[i].past

\* A packet that Huff_CompressPacket has compressed, or left as it is, is read as it
\* was by Huff_DecompressPacket.
SentIsReadable == \A i \in DOMAIN wire : wire[i].readable

\* The packets that a reply number s finds to have had their chance: those up to s
\* whose slot still is theirs, without the two last ones it could hold.
Judged(s) ==
  {n \in 2 .. s : n + PLPACKETHISTORYCOUNT >= current_outgoing_sequence_number + 2}

\* The packet loss is the share of the ring's slots, rounded up, of the packets that
\* were judged and to which no reply was handled, although slots are used again
\* and are not cleared at first (netqw.c:440-459 and 807).
LossIsShare ==
  [][last_incoming_sequence_number' # last_incoming_sequence_number =>
       LET s == last_incoming_sequence_number'
           lost == Cardinality(Judged(s) \ replied')
       IN  IF s + PLPACKETHISTORYCOUNT > current_outgoing_sequence_number
           THEN (packetloss' - 1) * PLPACKETHISTORYCOUNT < 100 * lost
                /\ 100 * lost <= packetloss' * PLPACKETHISTORYCOUNT
           ELSE packetloss' = packetloss]_vars

=============================================================================
