---------------------------- MODULE PacketQueue ----------------------------
(***************************************************************************)
(* The two queues of received packets of netqw.c.  Every accepted packet   *)
(* is queued for the client.  When a lag is simulated it is also queued    *)
(* for the net thread, which handles it when its delay is over; without    *)
(* lag it is handled before it is queued.  A packet is freed when its      *)
(* usecount, the number of queues that hold it, drops to zero.             *)
(*                                                                         *)
(* The net thread runs DoReceive and HandleDelayed, the reading thread     *)
(* runs Get_Message of main.c (GetPacketLength, GetPacketData, FreePacket) *)
(* and the application NetQW_SetLag and NetQW_Delete.  Each action is what *)
(* one thread does under the mutex, together with what no other thread     *)
(* can see of the work around it.                                          *)
(***************************************************************************)
EXTENDS Naturals, Sequences

CONSTANTS
  MaxSequence,  \* bound on the server's sequence numbers
  MaxArrivals,  \* bound on the packets accepted
  MaxTime,      \* bound on the clock, in ticks
  Second,       \* a second, in ticks
  Delays        \* the values of lag / 2, in ticks; 0 is no lag or ezcheat

ASSUME QueueAssumption ==
  /\ MaxSequence \in Nat /\ MaxArrivals \in Nat /\ MaxTime \in Nat
  /\ Second \in Nat
  /\ Delays \subseteq Nat /\ 0 \in Delays

VARIABLES
  now,       \* Sys_IntTime()
  jumped,    \* the clock has been set back (history)
  lag,       \* the delay of the next packet received
  netpacket, \* the packets allocated so far; a pointer is an index
  clientnetpacket, internalnetpacket,  \* the two lists, from head to tail
  last_incoming_sequence_number,
  reader,    \* what the reader calls next: "length", "data" or "free"
  held,      \* the pointer it got from GetPacketData, 0 when none
  phase,     \* of NetQW_Delete: "running", "joined" (thread ended), "unlocked"
             \* (mutex deleted), "deleted"; or "crashed"
  read       \* packets the reader has copied so far, in order (history)

clockVars == <<now, jumped>>
netVars == last_incoming_sequence_number
readerVars == <<reader, held, read>>
queueVars == <<netpacket, clientnetpacket, internalnetpacket>>
vars == <<clockVars, lag, queueVars, netVars, readerVars, phase>>

Pointer == DOMAIN netpacket
Freed == [sequence |-> 0, delayuntil |-> 0, usecount |-> 0]

\* How many times a queue lists a packet.
Uses(queue, p) == IF \E i \in DOMAIN queue : queue[i] = p THEN 1 ELSE 0

Init ==
  /\ now = 0 /\ jumped = FALSE /\ lag = 0
  /\ netpacket = << >> /\ clientnetpacket = << >> /\ internalnetpacket = << >>
  /\ last_incoming_sequence_number = 0
  /\ reader = "length" /\ held = 0 /\ read = << >>
  /\ phase = "running"

Tick ==
  /\ now < MaxTime
  /\ now' = now + 1
  /\ UNCHANGED <<jumped, lag, queueVars, netVars, readerVars, phase>>

\* Where there is no monotonic clock, Sys_IntTime follows the time of day.
JumpBack ==
  /\ now > 0 /\ ~jumped
  /\ now' = 0 /\ jumped' = TRUE
  /\ UNCHANGED <<lag, queueVars, netVars, readerVars, phase>>

SetLag ==
  /\ phase = "running"
  /\ lag' \in Delays
  /\ UNCHANGED <<clockVars, queueVars, netVars, readerVars, phase>>

-----------------------------------------------------------------------------
(* The net thread. *)

\* NetQW_Thread_HandleReceivedPacket: what it does to the receiving side.
Handle(sequence) == last_incoming_sequence_number' = sequence

\* Seeded bug: a poll that comes too late misses the packet.
DueAtOnce(p) == netpacket[p].delayuntil = now

\* The time of a packet has come, for the net thread or the reader.
Due(p) == netpacket[p].delayuntil <= now

\* Seeded bug: the second queue is not counted.
NewUsecountOne(delayed) == 1

\* A delayed packet is used by both queues.
NewUsecount(delayed) == IF delayed THEN 2 ELSE 1

\* Seeded bug: new packets are put in front.
EnqueueFirst(queue, p) == <<p>> \o queue

Enqueue(queue, p) == Append(queue, p)

(* NetQW_Thread_DoReceive for a datagram with this sequence number, which   *)
(* may be a duplicate or late.                                              *)
DoReceive(sequence) ==
  /\ phase = "running"
  /\ sequence > last_incoming_sequence_number
  /\ Len(netpacket) < MaxArrivals /\ now + lag <= MaxTime
  /\ LET p == Len(netpacket) + 1
         delayed == lag > 0
     IN
     /\ netpacket' = Append(netpacket,
          [sequence |-> sequence,
           delayuntil |-> IF delayed THEN now + lag ELSE 0,
           usecount |-> NewUsecount(delayed)])
     /\ IF delayed
        THEN /\ internalnetpacket' = Append(internalnetpacket, p)
             /\ UNCHANGED netVars
        ELSE /\ Handle(sequence)
             /\ UNCHANGED internalnetpacket
     /\ clientnetpacket' = Enqueue(clientnetpacket, p)
  /\ UNCHANGED <<clockVars, lag, readerVars, phase>>

\* netpacket with this usecount of p; at zero, what was in p is gone.
WithUsecount(p, usecount) ==
  [netpacket EXCEPT ![p] = IF usecount = 0 THEN Freed ELSE [@ EXCEPT !.usecount = usecount]]

\* Seeded bug: every user counts for both queues.
DropBoth(p) == WithUsecount(p, netpacket[p].usecount - 2)

\* Seeded bug: the first user frees the packet.
DropLast(p) == WithUsecount(p, 0)

\* One user less; at zero the packet is freed.
Drop(p) == WithUsecount(p, netpacket[p].usecount - 1)

(* NetQW_Thread: when the first packet has more than a second to wait, all  *)
(* are due.                                                                 *)
SanityCheck ==
  /\ phase = "running"
  /\ internalnetpacket # << >>
  /\ netpacket[Head(internalnetpacket)].delayuntil > now + Second
  /\ netpacket' = [p \in Pointer |->
                     IF Uses(internalnetpacket, p) = 1
                     THEN [netpacket[p] EXCEPT !.delayuntil = now] ELSE netpacket[p]]
  /\ UNCHANGED <<clockVars, lag, clientnetpacket, internalnetpacket, netVars,
                 readerVars, phase>>

(* NetQW_Thread: one delayed packet whose time has come. *)
HandleDelayed ==
  /\ phase = "running"
  /\ internalnetpacket # << >>
  /\ LET p == Head(internalnetpacket) IN
     /\ Due(p)
     /\ Handle(netpacket[p].sequence)
     /\ internalnetpacket' = Tail(internalnetpacket)
     /\ netpacket' = Drop(p)
  /\ UNCHANGED <<clockVars, lag, clientnetpacket, readerVars, phase>>

-----------------------------------------------------------------------------
(* The reader: Get_Message.  It knows nothing of NetQW_Delete: it goes on   *)
(* until there is no mutex to take.  What a call does after that is an      *)
(* access to freed memory (Lifecycle has it) and not followed here.         *)

Locks == phase \in {"running", "joined"}

\* The head of the client's queue, or 0 when there is none to read yet.
Ready ==
  IF clientnetpacket # << >> /\ Due(Head(clientnetpacket))
  THEN Head(clientnetpacket) ELSE 0

GetPacketLength ==
  /\ Locks /\ reader = "length"
  /\ Ready # 0
  /\ reader' = "data"
  /\ UNCHANGED <<clockVars, lag, queueVars, netVars, held, read, phase>>

\* Get_Message copies from what it gets, whatever that is.
GetPacketData ==
  /\ Locks /\ reader = "data"
  /\ held' = Ready
  /\ reader' = "free"
  /\ phase' = IF Ready = 0 THEN "crashed" ELSE phase
  /\ UNCHANGED <<clockVars, lag, queueVars, netVars, read>>

\* The reader has copied the packet it holds, and frees the head.
FreePacket ==
  /\ Locks /\ reader = "free"
  /\ read' = Append(read, held)
  /\ clientnetpacket' = Tail(clientnetpacket)
  /\ netpacket' = Drop(Head(clientnetpacket))
  /\ held' = 0 /\ reader' = "length"
  /\ UNCHANGED <<clockVars, lag, internalnetpacket, netVars, phase>>

-----------------------------------------------------------------------------
(* NetQW_Delete: the thread is joined, the mutex deleted, and then both     *)
(* queues are emptied.  QWC_Disconnect calls it before it stops and joins   *)
(* the reader's thread (main.c:1062), so between any two of its calls.      *)
DeleteThread ==
  /\ phase = "running"
  /\ phase' = "joined"
  /\ UNCHANGED <<clockVars, lag, queueVars, netVars, readerVars>>

DeleteMutex ==
  /\ phase = "joined"
  /\ phase' = "unlocked"
  /\ UNCHANGED <<clockVars, lag, queueVars, netVars, readerVars>>

DeleteClientPacket ==
  /\ phase = "unlocked" /\ clientnetpacket # << >>
  /\ clientnetpacket' = Tail(clientnetpacket)
  /\ netpacket' = Drop(Head(clientnetpacket))
  /\ UNCHANGED <<clockVars, lag, internalnetpacket, netVars, readerVars, phase>>

DeleteInternalPacket ==
  /\ phase = "unlocked" /\ clientnetpacket = << >> /\ internalnetpacket # << >>
  /\ internalnetpacket' = Tail(internalnetpacket)
  /\ netpacket' = Drop(Head(internalnetpacket))
  /\ UNCHANGED <<clockVars, lag, clientnetpacket, netVars, readerVars, phase>>

DeleteDone ==
  /\ phase = "unlocked" /\ clientnetpacket = << >> /\ internalnetpacket = << >>
  /\ phase' = "deleted"
  /\ UNCHANGED <<clockVars, lag, queueVars, netVars, readerVars>>

-----------------------------------------------------------------------------
Next ==
  \/ Tick \/ JumpBack
  \/ SetLag
  \/ \E sequence \in 1..MaxSequence : DoReceive(sequence)
  \/ SanityCheck \/ HandleDelayed
  \/ GetPacketLength \/ GetPacketData \/ FreePacket
  \/ DeleteThread \/ DeleteMutex
  \/ DeleteClientPacket \/ DeleteInternalPacket \/ DeleteDone

Spec == Init /\ [][Next]_vars

\* The net thread keeps polling (it waits at most 50 ms), and so does the
\* reader, whose loop runs at the frame rate.
FairSpec ==
  /\ Spec
  /\ WF_vars(Tick) /\ WF_vars(SanityCheck \/ HandleDelayed)
  /\ WF_vars(GetPacketLength \/ GetPacketData \/ FreePacket)

-----------------------------------------------------------------------------
(* Type invariant. *)
TypeOK ==
  /\ now \in Nat /\ jumped \in BOOLEAN /\ lag \in Nat
  /\ netpacket \in Seq([sequence : Nat, delayuntil : Nat, usecount : Nat])
  /\ clientnetpacket \in Seq(Pointer) /\ internalnetpacket \in Seq(Pointer)
  /\ last_incoming_sequence_number \in Nat
  /\ reader \in {"length", "data", "free"}
  /\ held \in Pointer \cup {0} /\ read \in Seq(Pointer)
  /\ phase \in {"running", "joined", "unlocked", "deleted", "crashed"}

Increasing(queue) == \A i, j \in DOMAIN queue : i < j => queue[i] < queue[j]

(* A packet's usecount is the number of queues that hold it, at every step  *)
(* of both threads and of NetQW_Delete, and no queue holds a packet twice.  *)
(* So no queue ever leads to freed memory, and a packet no queue holds has  *)
(* been freed, once.                                                        *)
UsecountIsUses ==
  /\ Increasing(clientnetpacket) /\ Increasing(internalnetpacket)
  /\ \A p \in Pointer :
       netpacket[p].usecount = Uses(clientnetpacket, p) + Uses(internalnetpacket, p)

(* Between GetPacketLength and FreePacket the reader works without the      *)
(* mutex on a packet that is there, allocated, and still the one FreePacket *)
(* will take off the queue, whatever the net thread does to its own queue   *)
(* and to the delays.  Two things take it away: a clock that is set back    *)
(* between the two calls makes it not ready again (netqw.c:1188, 1204), and *)
(* NetQW_Delete, once it has deleted the mutex, frees it under the reader   *)
(* (netqw.c:1091-1097).                                                     *)
HeldPacketStays ==
  /\ reader = "data" /\ Locks /\ ~jumped => Ready # 0
  /\ phase = "crashed" => jumped
  /\ reader = "free" /\ Locks =>
                        /\ held # 0 /\ held = Head(clientnetpacket)
                        /\ netpacket[held].usecount > 0

(* The client reads every packet once and in the order of arrival, however  *)
(* the lag is changed in between.                                           *)
ReadInArrivalOrder ==
  /\ \A i \in DOMAIN read : read[i] = i
  /\ Locks =>
       \A i \in DOMAIN clientnetpacket : clientnetpacket[i] = Len(read) + i

(* A delayed packet is eventually handled, unless the connection is deleted *)
(* first, and a packet that has arrived is eventually read, though the lag  *)
(* changes and the clock may be set back.                                   *)
EventuallyHandled ==
  \A p \in 1..MaxArrivals :
    Uses(internalnetpacket, p) = 1 ~>
      Uses(internalnetpacket, p) = 0 \/ phase # "running"

EventuallyRead ==
  \A p \in 1..MaxArrivals :
    Uses(clientnetpacket, p) = 1 ~>
      Uses(clientnetpacket, p) = 0 \/ phase # "running"

(* No packet is handled twice, nor after a later one: what net_chan.c says  *)
(* of stale and duplicated packets.                                         *)
HandledInOrder ==
  [][HandleDelayed => last_incoming_sequence_number' > last_incoming_sequence_number]_vars

=============================================================================
