------------------------------ MODULE FrameRing ------------------------------
(***************************************************************************)
(* The ring of movement frames of netqw.c.  The net thread (DoSend) and    *)
(* the client's thread (QWC_Thread, DoNetQWStuff of main.c) both generate  *)
(* the frames that have become due; the net thread sends each one together *)
(* with the two before it, reading the ring without the mutex; the client  *)
(* copies the new ones to a ring of its own, where it looks up the frame a *)
(* message acknowledges.                                                   *)
(*                                                                         *)
(* A frame is named by the order of generation, which is the sequence      *)
(* number of the packet that sends it as its own.  Time is counted in      *)
(* frame periods.  How a command is encoded, the checksum and the reliable *)
(* part of the packet are left out.                                        *)
(***************************************************************************)
EXTENDS Integers, Sequences

CONSTANTS
  UPDATE_BACKUP,  \* the size of both rings, 64 in protocol.h
  ResetFrames,    \* how many frame periods are in a second, 72 by default
  MaxLate,        \* bound on the frames due or waiting to be sent
  MaxFrame        \* bound on the frames generated

ASSUME RingAssumption ==
  /\ UPDATE_BACKUP \in Nat /\ UPDATE_BACKUP > 2
  /\ ResetFrames \in Nat /\ MaxLate \in Nat /\ MaxFrame \in Nat

VARIABLES
  due,      \* frame periods between lastmovesendtime and the present time
  frames,   \* the ring, from slot to frame
  overrun,  \* the last frame generated while more waited than the ring has
            \* slots, 0 if none was (history)
  lastsentframe, framestosend, lastcopiedframe, framestocopy,
  current_outgoing_sequence_number,
  last_received_entity_update_frame,
  net,      \* the net thread: "wait", "reset", "generate", "build", "delta"
            \* or "commit"
  packet,   \* the packet it is building: its commands and its clc_delta
  client,   \* the client's thread: "read", "generate", "copy" or "parse"
  client_frames,      \* qwc->frames
  outgoing_sequence,  \* qwc->netchan.outgoing_sequence
  incoming_acknowledged  \* of the message the client is reading

ringVars == <<frames, overrun>>
countVars == <<lastsentframe, framestosend, current_outgoing_sequence_number>>
copyVars == <<lastcopiedframe, framestocopy>>
netVars == <<net, packet>>
clientVars == <<client, client_frames, outgoing_sequence, incoming_acknowledged>>
vars == <<due, ringVars, countVars, copyVars, last_received_entity_update_frame,
          netVars, clientVars>>

Slots == 0..(UPDATE_BACKUP - 1)
Slot(n) == n % UPDATE_BACKUP  \* n & UPDATE_MASK

\* The newest frame up to n that has slot s, if there is one.
Newest(n, s) == n - Slot(n - s)

Generated == lastsentframe + framestosend

Frame == [number : Nat, delta_sequence : Int]
EmptyRing == [s \in Slots |-> [number |-> 0, delta_sequence |-> 0]]

(* Just connected: one frame is due. *)
Init ==
  /\ due = 1
  /\ frames = EmptyRing /\ overrun = 0 /\ client_frames = EmptyRing
  /\ lastsentframe = 0 /\ framestosend = 0
  /\ lastcopiedframe = 0 /\ framestocopy = 0
  /\ current_outgoing_sequence_number = 1
  /\ last_received_entity_update_frame = -1
  /\ net = "wait" /\ packet = [commands |-> << >>, delta |-> -1]
  /\ client = "read" /\ outgoing_sequence = 0 /\ incoming_acknowledged = 0

\* A frame period passes.
Tick ==
  /\ due + framestosend < MaxLate
  /\ Generated + due < MaxFrame
  /\ due' = due + 1
  /\ UNCHANGED <<ringVars, countVars, copyVars, last_received_entity_update_frame,
                 netVars, clientVars>>

-----------------------------------------------------------------------------
(* NetQW_GenerateFrames, under the mutex.                                   *)

\* Seeded bug: the new frame is put where the last one is.
FirstSlotOne == Generated

\* The first frame goes to the slot after those waiting to be sent.
FirstSlot == Generated + 1

\* Seeded bug: the delta point is used however old it is.
DeltaPointAlways == last_received_entity_update_frame

\* What the next packet will ask a delta from, -1 for a full update.
DeltaPoint ==
  IF current_outgoing_sequence_number - last_received_entity_update_frame
       \in 0..(UPDATE_BACKUP - 1)
  THEN last_received_entity_update_frame ELSE -1

(* The loop, for k frames.  Each pass also gives the delta point, when      *)
(* there is one, to the frame that is sent next, not to the new one.        *)
AfterGenerate(k) ==
  LET last == FirstSlot + k - 1 IN
  [s \in Slots |->
     LET old == frames[s]
         new == IF Newest(last, s) >= FirstSlot
                THEN [number |-> Generated + 1 + (Newest(last, s) - FirstSlot),
                      delta_sequence |-> -1]
                ELSE old
     IN IF s = Slot(current_outgoing_sequence_number) /\ DeltaPoint # -1
        THEN [new EXCEPT !.delta_sequence = DeltaPoint]
        ELSE new]

\* The time was read before the mutex was taken: fewer frames than are due
\* now may be generated, none if the other thread came first.
GenerateFrames ==
  \E k \in 0..due :
    /\ due' = due - k
    /\ frames' = IF k = 0 THEN frames ELSE AfterGenerate(k)
    /\ framestosend' = framestosend + k
    /\ overrun' = IF framestosend + k > UPDATE_BACKUP THEN Generated + k ELSE overrun
    /\ framestocopy' = framestocopy + k
    /\ UNCHANGED <<lastsentframe, current_outgoing_sequence_number,
                   lastcopiedframe, last_received_entity_update_frame>>

-----------------------------------------------------------------------------
(* The net thread: NetQW_Thread_DoSend. *)

\* More than a second late: the time not yet used is given up, in an unlocked
\* test and an assignment.
ResetTest ==
  /\ net = "wait"
  /\ net' = IF due > ResetFrames THEN "reset" ELSE "generate"
  /\ UNCHANGED <<due, ringVars, countVars, copyVars,
                 last_received_entity_update_frame, packet, clientVars>>

Reset ==
  /\ net = "reset"
  /\ due' = 0 /\ net' = "generate"
  /\ UNCHANGED <<ringVars, countVars, copyVars, last_received_entity_update_frame,
                 packet, clientVars>>

\* Seeded bug: off by one, a packet is sent when no frame is waiting.
SendMoreZero(n) == n >= 0

\* Seeded bug: the last frame is left waiting.
SendMoreOne(n) == n > 1

SendMore(n) == n > 0

Place(n) == IF SendMore(n) THEN "build" ELSE "wait"

NetGenerate ==
  /\ net = "generate"
  /\ GenerateFrames
  /\ net' = Place(framestosend')
  /\ UNCHANGED <<packet, clientVars>>

\* The three commands of a packet: the two last ones again, and the new one.
Build ==
  /\ net = "build"
  /\ packet' = [commands |-> [i \in 1..3 |->
                  frames[Slot(current_outgoing_sequence_number - 3 + i)].number],
                delta |-> -1]
  /\ net' = "delta"
  /\ UNCHANGED <<due, ringVars, countVars, copyVars,
                 last_received_entity_update_frame, clientVars>>

\* clc_delta
AppendDelta ==
  /\ net = "delta"
  /\ packet' = [packet EXCEPT !.delta =
                  frames[Slot(current_outgoing_sequence_number)].delta_sequence]
  /\ net' = "commit"
  /\ UNCHANGED <<due, ringVars, countVars, copyVars,
                 last_received_entity_update_frame, clientVars>>

Commit ==
  /\ net = "commit"
  /\ lastsentframe' = lastsentframe + 1
  /\ framestosend' = framestosend - 1
  /\ current_outgoing_sequence_number' = current_outgoing_sequence_number + 1
  /\ net' = Place(framestosend')
  /\ UNCHANGED <<due, ringVars, copyVars, last_received_entity_update_frame,
                 packet, clientVars>>

-----------------------------------------------------------------------------
(* The client's thread. *)

\* A message is read, which acknowledges one of the packets sent.
GetMessage ==
  /\ client = "read"
  /\ \E n \in 1..(current_outgoing_sequence_number - 1) :
       /\ n >= incoming_acknowledged
       /\ incoming_acknowledged' = n
  /\ client' = "generate"
  /\ UNCHANGED <<due, ringVars, countVars, copyVars,
                 last_received_entity_update_frame, netVars, client_frames,
                 outgoing_sequence>>

ClientGenerate ==
  /\ client = "generate"
  /\ GenerateFrames
  /\ client' = "copy"
  /\ UNCHANGED <<netVars, client_frames, outgoing_sequence, incoming_acknowledged>>

\* Seeded bug: the copying starts one slot late.
CopiedSlotsLate == {Slot(lastcopiedframe + 1 + i) : i \in 1..framestocopy}

CopiedSlots == {Slot(lastcopiedframe + i) : i \in 1..framestocopy}

CopyFrames ==
  /\ client = "copy"
  /\ client_frames' = [s \in Slots |-> IF s \in CopiedSlots THEN frames[s]
                                       ELSE client_frames[s]]
  /\ lastcopiedframe' = Slot(lastcopiedframe + framestocopy)
  /\ framestocopy' = 0
  /\ outgoing_sequence' = current_outgoing_sequence_number + framestosend
  /\ client' = "parse"
  /\ UNCHANGED <<due, ringVars, countVars, last_received_entity_update_frame,
                 netVars, incoming_acknowledged>>

(* The message is parsed.  If it holds packet entities, the next packets    *)
(* may ask for a delta from it; the server's sequence follows the client's. *)
SetDeltaPoint ==
  \/ UNCHANGED last_received_entity_update_frame
  \/ last_received_entity_update_frame' = incoming_acknowledged

Parse ==
  /\ client = "parse"
  /\ SetDeltaPoint
  /\ client' = "read"
  /\ UNCHANGED <<due, ringVars, countVars, copyVars, netVars, client_frames,
                 outgoing_sequence, incoming_acknowledged>>

-----------------------------------------------------------------------------
NetThread == ResetTest \/ Reset \/ NetGenerate \/ Build \/ AppendDelta \/ Commit

Client == GetMessage \/ ClientGenerate \/ CopyFrames \/ Parse

Next == Tick \/ NetThread \/ Client

Spec == Init /\ [][Next]_vars

\* The net thread polls: its loop waits at most 50 ms.
FairSpec == Spec /\ WF_vars(NetThread)

-----------------------------------------------------------------------------
(* Type invariant. *)
TypeOK ==
  /\ due \in Nat /\ frames \in [Slots -> Frame] /\ overrun \in 0..Generated
  /\ lastsentframe \in Nat /\ framestosend \in Nat
  /\ lastcopiedframe \in Slots /\ framestocopy \in Nat
  /\ current_outgoing_sequence_number = lastsentframe + 1
  /\ last_received_entity_update_frame \in Int
  /\ net \in {"wait", "reset", "generate", "build", "delta", "commit"}
  /\ packet \in [commands : Seq(Nat), delta : Int]
  /\ client \in {"read", "generate", "copy", "parse"}
  /\ client_frames \in [Slots -> Frame]
  /\ outgoing_sequence \in Nat /\ incoming_acknowledged \in Nat

(* A packet carries the command of its own frame and those of the two       *)
(* frames before it, oldest first, although they are read without the mutex *)
(* while the client's thread may be generating frames: so a lost packet's   *)
(* command still arrives with one of the next two.  Once more than          *)
(* UPDATE_BACKUP - 2 frames wait, the newest have been put where these      *)
(* were; nothing in the code keeps them from it.                            *)
AtLeast0(n) == IF n > 0 THEN n ELSE 0

PacketHasLastThree ==
  net \in {"delta", "commit"} /\ framestosend <= UPDATE_BACKUP - 2 =>
    packet.commands = [i \in 1..3 |-> AtLeast0(current_outgoing_sequence_number - 3 + i)]

(* The server keeps UPDATE_BACKUP frames of entities: no packet asks for a  *)
(* delta from an older one, whenever it was queued and sent.  The frames    *)
(* up to an overrun of the ring are the exception: they may have been put   *)
(* in a slot that then got the delta point of a packet sent before them.    *)
DeltaIsKept ==
  net = "commit" /\ packet.delta # -1 /\ current_outgoing_sequence_number > overrun =>
    current_outgoing_sequence_number - packet.delta \in 1..(UPDATE_BACKUP - 1)

(* When the client takes the latency of a message from the frame that the   *)
(* message acknowledges (ParseClientData), it finds that frame, unless the  *)
(* message is UPDATE_BACKUP frames late.                                    *)
AcknowledgedFrameIsCopied ==
  client = "parse" /\ outgoing_sequence - incoming_acknowledged <= UPDATE_BACKUP =>
    client_frames[Slot(incoming_acknowledged)].number = incoming_acknowledged

(* Every frame generated is sent in the end. *)
EveryFrameSent ==
  \A n \in 1..MaxFrame :
    Generated >= n ~> current_outgoing_sequence_number > n

(* The client's copy of a frame tells what the packet of that frame asked   *)
(* for: "sequence number to delta from, -1 = full update".                  *)
CopyTellsDelta ==
  LET n == current_outgoing_sequence_number
      copy == client_frames[Slot(n)]
  IN net = "commit" /\ copy.number = n => copy.delta_sequence = packet.delta

(* However long the process was stopped, the client's thread generates no   *)
(* more than a second's frames at once: what the reset in DoSend, "to avoid *)
(* catastrophy with buggy Sys_IntTime() implementations", is for.           *)
NoCatastrophe ==
  [][client = "generate" /\ client' = "copy" =>
       framestosend' <= framestosend + ResetFrames]_vars

=============================================================================
