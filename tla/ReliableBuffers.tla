--------------------------- MODULE ReliableBuffers ---------------------------
(***************************************************************************)
(* The linked list of reliable buffers of netqw.c, one memory access at a  *)
(* time.  NetQW_AppendReliableBuffer runs in the application's threads and *)
(* holds the mutex; the walk of NetQW_Thread_DoSend holds it too; the      *)
(* release in NetQW_Thread_HandleReceivedPacket, which runs in the net     *)
(* thread, does not.  The library is built with -O0, so every access in    *)
(* the source is an access of its own: tail is read again after its test.  *)
(*                                                                         *)
(* Buffers are named by the order in which their threads got the mutex; 0  *)
(* is the null pointer.  A write through a null or freed pointer ends the  *)
(* behaviour, with fault set: what follows is undefined.                   *)
(***************************************************************************)
EXTENDS Naturals, Sequences, FiniteSets

CONSTANTS
  Appenders,    \* the threads that append: the application's, QWC_Thread
  MaxCommands,  \* bound on the buffers appended
  PacketRoom    \* bound on the buffers that fit in a packet

ASSUME BuffersAssumption ==
  MaxCommands \in Nat \ {0} /\ PacketRoom \in Nat \ {0}

VARIABLES
  next,       \* the next field of each buffer ever allocated
  freed,      \* the buffers freed
  reliablebufferhead, reliablebuffertail,
  mutex,      \* the appenders that hold the mutex: none or one
  appender,   \* the appender's place: "test", "link", "first" or "settail"
  net,        \* the net thread's place: "loop", "take", "unlink", "free",
              \* "check" or "clear"
  reliable_buffers_sent,
  reliablebuffer, i,  \* locals of the release
  released,   \* the buffers released so far, in order (history)
  fault       \* "none", "null" or "freed"

appendVars == <<mutex, appender>>
listVars == <<next, freed, reliablebufferhead, reliablebuffertail>>
netVars == <<net, reliable_buffers_sent, reliablebuffer, i, released>>
vars == <<listVars, appendVars, netVars, fault>>

Buffer == DOMAIN next
Pointer == Buffer \cup {0}
Newest == Len(next)

(* The buffers reached from b by following next: those in every set that    *)
(* has b and the next of each buffer it has.                                *)
Closed(S) == \A c \in S : next[c] # 0 => next[c] \in S

Reach(b) ==
  {c \in Buffer : \A S \in SUBSET Buffer : Closed(S) /\ (b # 0 => b \in S) => c \in S}

AppenderAt(t, place) == fault = "none" /\ mutex = {t} /\ appender = place
NetAt(place) == fault = "none" /\ net = place

(* The connection is up and "new" is queued (buffer 1). *)
Init ==
  /\ next = <<0>> /\ freed = {}
  /\ reliablebufferhead = 1 /\ reliablebuffertail = 1
  /\ mutex = {} /\ appender = "test"
  /\ net = "loop" /\ reliable_buffers_sent = 0
  /\ reliablebuffer = 0 /\ i = 0 /\ released = << >>
  /\ fault = "none"

-----------------------------------------------------------------------------
(* NetQW_AppendReliableBuffer.  Its buffer is Newest while the mutex is     *)
(* held.                                                                    *)
Lock(t) ==
  /\ fault = "none" /\ mutex = {} /\ Newest < MaxCommands
  /\ next' = Append(next, 0)
  /\ mutex' = {t} /\ appender' = "test"
  /\ UNCHANGED <<freed, reliablebufferhead, reliablebuffertail, netVars, fault>>

TestTail(t) ==
  /\ AppenderAt(t, "test")
  /\ appender' = IF reliablebuffertail # 0 THEN "link" ELSE "first"
  /\ UNCHANGED <<listVars, mutex, netVars, fault>>

\* netqw->reliablebuffertail->next = reliablebuffer
Link(t) ==
  /\ AppenderAt(t, "link")
  /\ IF reliablebuffertail # 0 /\ reliablebuffertail \notin freed
     THEN /\ next' = [next EXCEPT ![reliablebuffertail] = Newest]
          /\ appender' = "settail"
          /\ UNCHANGED fault
     ELSE /\ fault' = IF reliablebuffertail = 0 THEN "null" ELSE "freed"
          /\ UNCHANGED <<next, appender>>
  /\ UNCHANGED <<freed, reliablebufferhead, reliablebuffertail, mutex, netVars>>

First(t) ==
  /\ AppenderAt(t, "first")
  /\ reliablebufferhead' = Newest
  /\ appender' = "settail"
  /\ UNCHANGED <<next, freed, reliablebuffertail, mutex, netVars, fault>>

SetTail(t) ==
  /\ AppenderAt(t, "settail")
  /\ reliablebuffertail' = Newest
  /\ mutex' = {}
  /\ UNCHANGED <<next, freed, reliablebufferhead, appender, netVars, fault>>

-----------------------------------------------------------------------------
(* The net thread. *)

\* DoSend: under the mutex, as many buffers as fit are put in the packet.
Send ==
  /\ NetAt("loop") /\ mutex = {} /\ reliable_buffers_sent = 0
  /\ \E j \in 1..PacketRoom :
       /\ j <= Cardinality(Reach(reliablebufferhead))
       /\ reliable_buffers_sent' = j
  /\ UNCHANGED <<listVars, appendVars, net, reliablebuffer, i, released, fault>>

\* A reply says that the server has not read them: they are sent again.
NotSeen ==
  /\ NetAt("loop") /\ reliable_buffers_sent > 0
  /\ reliable_buffers_sent' = 0
  /\ UNCHANGED <<listVars, appendVars, net, reliablebuffer, i, released, fault>>

\* A reply says that it has: the release starts.
Seen ==
  /\ NetAt("loop") /\ reliable_buffers_sent > 0
  /\ net' = "take" /\ i' = 0
  /\ UNCHANGED <<listVars, appendVars, reliable_buffers_sent, reliablebuffer,
                 released, fault>>

Take ==
  /\ NetAt("take")
  /\ reliablebuffer' = reliablebufferhead
  /\ net' = "unlink"
  /\ UNCHANGED <<listVars, appendVars, reliable_buffers_sent, i, released, fault>>

\* Seeded bug: the head is not moved.
NextHeadSame == reliablebuffer

NextHead == next[reliablebuffer]

Unlink ==
  /\ NetAt("unlink")
  /\ reliablebufferhead' = NextHead
  /\ net' = "free"
  /\ UNCHANGED <<next, freed, reliablebuffertail, appendVars,
                 reliable_buffers_sent, reliablebuffer, i, released, fault>>

\* Seeded bug: one buffer too many is released.
MoreToReleaseOneMore == i + 1 <= reliable_buffers_sent

MoreToRelease == i + 1 < reliable_buffers_sent

Free ==
  /\ NetAt("free")
  /\ freed' = freed \cup {reliablebuffer}
  /\ released' = Append(released, reliablebuffer)
  /\ i' = i + 1
  /\ net' = IF MoreToRelease THEN "take" ELSE "check"
  /\ UNCHANGED <<next, reliablebufferhead, reliablebuffertail, appendVars,
                 reliable_buffers_sent, reliablebuffer, fault>>

\* Seeded bug: the tail is reset although buffers are left.
ListEmptyAlways == TRUE

ListEmpty == reliablebufferhead = 0

Check ==
  /\ NetAt("check")
  /\ net' = IF ListEmpty THEN "clear" ELSE "loop"
  /\ reliable_buffers_sent' = IF ListEmpty THEN reliable_buffers_sent ELSE 0
  /\ UNCHANGED <<listVars, appendVars, reliablebuffer, i, released, fault>>

Clear ==
  /\ NetAt("clear")
  /\ reliablebuffertail' = 0
  /\ reliable_buffers_sent' = 0
  /\ net' = "loop"
  /\ UNCHANGED <<next, freed, reliablebufferhead, appendVars, reliablebuffer, i,
                 released, fault>>

-----------------------------------------------------------------------------
AppendReliableBuffer(t) == Lock(t) \/ TestTail(t) \/ Link(t) \/ First(t) \/ SetTail(t)

Release == Take \/ Unlink \/ Free \/ Check \/ Clear

Next ==
  \/ \E t \in Appenders : AppendReliableBuffer(t)
  \/ Send \/ NotSeen \/ Seen
  \/ Release

Spec == Init /\ [][Next]_vars

-----------------------------------------------------------------------------
(* Type invariant. *)
TypeOK ==
  /\ next \in Seq(Pointer) /\ freed \subseteq Buffer
  /\ reliablebufferhead \in Pointer /\ reliablebuffertail \in Pointer
  /\ mutex \in {{}} \cup {{t} : t \in Appenders}
  /\ appender \in {"test", "link", "first", "settail"}
  /\ net \in {"loop", "take", "unlink", "free", "check", "clear"}
  /\ reliable_buffers_sent \in 0..PacketRoom
  /\ reliablebuffer \in Pointer /\ i \in 0..PacketRoom
  /\ net \in {"take", "unlink", "free"} => i < reliable_buffers_sent
  /\ released \in Seq(Buffer)
  /\ fault \in {"none", "null", "freed"}

(* In spite of the unlocked release, the net thread itself never reads a    *)
(* null or freed buffer: the list it walks and releases has none, and while *)
(* a batch is in flight the list holds at least that batch.                 *)
NetThreadSafe ==
  /\ Reach(reliablebufferhead) \cap freed = {}
  /\ net \in {"unlink", "free"} => reliablebuffer \in Buffer \ freed
  /\ net = "loop" => Cardinality(Reach(reliablebufferhead)) >= reliable_buffers_sent

(* Nor is a command sent twice or out of order: what is released, followed  *)
(* by what is still listed, is in the order of appending.                   *)
ReleasedInOrder ==
  LET s == IF net = "free" THEN Append(released, reliablebuffer) ELSE released
      listed == Reach(IF net = "unlink" THEN reliablebuffer ELSE reliablebufferhead)
  IN /\ \A a, b \in DOMAIN s : a < b => s[a] < s[b]
     /\ \A a \in DOMAIN s, c \in listed : s[a] < c
     /\ \A c \in listed : next[c] # 0 => c < next[c]

(* A list that has a head has a tail to append to. *)
HeadHasTail ==
  mutex = {} /\ reliablebufferhead # 0 => reliablebuffertail # 0

(* Every command appended has been released or can still be sent, whenever  *)
(* neither thread is at work on the list.                                   *)
NoCommandLost ==
  mutex = {} /\ net = "loop" =>
    Buffer \subseteq freed \cup Reach(reliablebufferhead)

=============================================================================
