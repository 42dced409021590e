-------------------------- MODULE PacketQueueProof --------------------------
(***************************************************************************)
(* Proofs about PacketQueue, for any number of packets, any delays, any    *)
(* length of a second, and a clock that may be set back once.              *)
(***************************************************************************)
EXTENDS PacketQueue, SequenceTheorems, TLAPS

USE QueueAssumption

Packets == [sequence : Nat, delayuntil : Nat, usecount : Nat]

TypeInv ==
  /\ now \in Nat /\ jumped \in BOOLEAN /\ lag \in Nat
  /\ netpacket \in Seq(Packets)
  /\ clientnetpacket \in Seq(Nat) /\ internalnetpacket \in Seq(Nat)
  /\ last_incoming_sequence_number \in Nat
  /\ reader \in {"length", "data", "free"}
  /\ held \in Nat /\ read \in Seq(Nat)
  /\ phase \in {"running", "joined", "unlocked", "deleted", "crashed"}

\* The client's queue holds the newest packets, without a gap; what the delayed
\* one holds has been allocated, and is in order.
QueueInv ==
  /\ Len(clientnetpacket) <= Len(netpacket)
  /\ \A i \in 1 .. Len(clientnetpacket) :
       clientnetpacket[i] = Len(netpacket) - Len(clientnetpacket) + i
  /\ \A i \in 1 .. Len(internalnetpacket) :
       internalnetpacket[i] >= 1 /\ internalnetpacket[i] <= Len(netpacket)
  /\ Increasing(internalnetpacket)

CountInv ==
  \A p \in 1 .. Len(netpacket) :
    netpacket[p].usecount = Uses(clientnetpacket, p) + Uses(internalnetpacket, p)

\* What the reader has copied is what came before the client's queue; only
\* NetQW_Delete takes packets off it unread.
ReadInv ==
  /\ \A i \in 1 .. Len(read) : read[i] = i
  /\ Len(read) <= Len(netpacket)
  /\ phase \in {"running", "joined", "crashed"} =>
       Len(read) = Len(netpacket) - Len(clientnetpacket)

\* The reader between two of its calls.
ReaderInv ==
  /\ reader = "data" /\ Locks => /\ clientnetpacket # << >>
                                 /\ ~jumped => Due(Head(clientnetpacket))
  /\ reader = "free" /\ Locks =>
       clientnetpacket # << >> /\ held = Head(clientnetpacket)
  /\ held <= Len(netpacket)
  /\ phase = "crashed" => jumped

IInv == TypeInv /\ QueueInv /\ CountInv /\ ReadInv /\ ReaderInv

-----------------------------------------------------------------------------
(* Sequences and queues. *)

LEMMA SeqOfElements ==
  ASSUME NEW S, NEW T, NEW s \in Seq(S), \A i \in 1 .. Len(s) : s[i] \in T
  PROVE  s \in Seq(T)
  <1>1. s \in [1 .. Len(s) -> T] /\ Len(s) \in Nat
    BY LenProperties
  <1> QED
    BY <1>1

LEMMA TailElements ==
  ASSUME NEW q \in Seq(Nat), q # << >>
  PROVE  /\ Len(q) \in Nat \ {0} /\ Head(q) = q[1] /\ q[1] \in Nat
         /\ Tail(q) \in Seq(Nat) /\ Len(Tail(q)) = Len(q) - 1
         /\ \A i \in 1 .. Len(q) - 1 : Tail(q)[i] = q[i + 1]
  BY HeadTailProperties, EmptySeq

LEMMA UsesIs ==
  ASSUME NEW q \in Seq(Nat), NEW p
  PROVE  /\ Uses(q, p) \in {0, 1}
         /\ Uses(q, p) = 1 <=> \E i \in 1 .. Len(q) : q[i] = p
  <1>1. DOMAIN q = 1 .. Len(q)
    BY LenProperties
  <1> QED
    BY <1>1 DEF Uses

\* Taking the head off a queue in order changes the use of the head alone.
LEMMA UsesOfTail ==
  ASSUME NEW q \in Seq(Nat), q # << >>, Increasing(q)
  PROVE  /\ Increasing(Tail(q))
         /\ Uses(q, Head(q)) = 1 /\ Uses(Tail(q), Head(q)) = 0
         /\ \A p : p # Head(q) => Uses(Tail(q), p) = Uses(q, p)
  <1>1. /\ DOMAIN q = 1 .. Len(q) /\ DOMAIN Tail(q) = 1 .. Len(q) - 1
        /\ \A i \in 1 .. Len(q) : q[i] \in Nat
    BY TailElements, LenProperties
  <1>2. Increasing(Tail(q))
    <2> SUFFICES ASSUME NEW i \in 1 .. Len(q) - 1, NEW j \in 1 .. Len(q) - 1, i < j
                 PROVE  Tail(q)[i] < Tail(q)[j]
      BY <1>1 DEF Increasing
    <2>1. /\ i + 1 \in DOMAIN q /\ j + 1 \in DOMAIN q /\ i + 1 < j + 1
          /\ Tail(q)[i] = q[i + 1] /\ Tail(q)[j] = q[j + 1]
      BY <1>1, TailElements
    <2> QED
      BY <2>1 DEF Increasing
  <1>6. \A p : /\ Uses(Tail(q), p) \in {0, 1} /\ Uses(q, p) \in {0, 1}
               /\ Uses(Tail(q), p) = 1 <=> \E j \in 1 .. Len(q) - 1 : Tail(q)[j] = p
               /\ Uses(q, p) = 1 <=> \E i \in 1 .. Len(q) : q[i] = p
    <2>1. Tail(q) \in Seq(Nat) /\ Len(Tail(q)) = Len(q) - 1
      BY TailElements
    <2>2. \A p : /\ Uses(Tail(q), p) \in {0, 1}
                 /\ Uses(Tail(q), p) = 1 <=> \E j \in 1 .. Len(Tail(q)) : Tail(q)[j] = p
      BY <2>1, UsesIs
    <2> QED
      BY <2>1, <2>2, UsesIs
  <1>3. Uses(q, Head(q)) = 1
    BY TailElements, UsesIs
  <1>4. Uses(Tail(q), Head(q)) = 0
    <2> SUFFICES ASSUME NEW i \in 1 .. Len(q) - 1, Tail(q)[i] = Head(q) PROVE FALSE
      BY <1>6
    <2>1. q[i + 1] = q[1] /\ 1 \in DOMAIN q /\ i + 1 \in DOMAIN q /\ 1 < i + 1
      BY <1>1, TailElements
    <2> QED
      BY <2>1, <1>1 DEF Increasing
  <1>5. ASSUME NEW p, p # Head(q) PROVE Uses(Tail(q), p) = Uses(q, p)
    <2>1. ASSUME NEW i \in 1 .. Len(q), q[i] = p
          PROVE  \E j \in 1 .. Len(q) - 1 : Tail(q)[j] = p
      <3>1. i # 1 /\ i - 1 \in 1 .. Len(q) - 1 /\ (i - 1) + 1 = i
        BY <1>5, <2>1, TailElements
      <3> QED
        BY <3>1, <2>1, TailElements
    <2>2. ASSUME NEW j \in 1 .. Len(q) - 1, Tail(q)[j] = p
          PROVE  \E i \in 1 .. Len(q) : q[i] = p
      <3>1. j + 1 \in 1 .. Len(q) /\ q[j + 1] = p
        BY <2>2, TailElements
      <3> QED
        BY <3>1
    <2> QED
      BY <2>1, <2>2, <1>6
  <1> QED
    BY <1>2, <1>3, <1>4, <1>5

\* Appending a packet that is newer than all in the queue.
LEMMA UsesOfAppend ==
  ASSUME NEW q \in Seq(Nat), NEW n \in Nat, Increasing(q),
         \A i \in 1 .. Len(q) : q[i] < n
  PROVE  /\ Append(q, n) \in Seq(Nat) /\ Len(Append(q, n)) = Len(q) + 1
         /\ Append(q, n)[Len(q) + 1] = n
         /\ \A i \in 1 .. Len(q) : Append(q, n)[i] = q[i]
         /\ Increasing(Append(q, n))
         /\ Uses(q, n) = 0 /\ Uses(Append(q, n), n) = 1
         /\ \A p : p # n => Uses(Append(q, n), p) = Uses(q, p)
  <1> DEFINE r == Append(q, n)
  <1>1. /\ r \in Seq(Nat) /\ Len(r) = Len(q) + 1 /\ r[Len(q) + 1] = n
        /\ \A i \in 1 .. Len(q) : r[i] = q[i]
        /\ Len(q) \in Nat /\ DOMAIN q = 1 .. Len(q) /\ DOMAIN r = 1 .. Len(q) + 1
        /\ \A i \in 1 .. Len(q) : q[i] \in Nat
    BY AppendProperties, LenProperties
  <1> HIDE DEF r
  <1>2. Increasing(r)
    <2> SUFFICES ASSUME NEW i \in 1 .. Len(q) + 1, NEW j \in 1 .. Len(q) + 1, i < j
                 PROVE  r[i] < r[j]
      BY <1>1 DEF Increasing
    <2>1. i \in 1 .. Len(q) /\ i \in DOMAIN q /\ r[i] = q[i]
      BY <1>1
    <2>2. CASE j = Len(q) + 1
      BY <1>1, <2>1, <2>2
    <2>3. CASE j # Len(q) + 1
      <3>1. j \in 1 .. Len(q)
        BY <1>1, <2>3
      <3>2. j \in DOMAIN q /\ r[j] = q[j]
        BY <1>1, <3>1
      <3> QED
        BY <2>1, <3>2 DEF Increasing
    <2> QED
      BY <2>2, <2>3
  <1>3. Uses(q, n) = 0
    BY <1>1, UsesIs
  <1>4. Uses(r, n) = 1
    BY <1>1, UsesIs
  <1>5. ASSUME NEW p, p # n PROVE Uses(r, p) = Uses(q, p)
    <2>0. /\ Uses(r, p) = 1 <=> \E i \in 1 .. Len(r) : r[i] = p
          /\ Uses(q, p) = 1 <=> \E i \in 1 .. Len(q) : q[i] = p
      BY <1>1, UsesIs
    <2>1. Uses(r, p) = 1 <=> Uses(q, p) = 1
      BY <1>1, <1>5, <2>0, SMTT(20)
    <2> QED
      BY <2>1, <1>1, UsesIs
  <1> QED
    BY <1>1, <1>2, <1>3, <1>4, <1>5 DEF r

\* The client's queue is in order, and uses the newest packets.
LEMMA ClientQueue ==
  ASSUME TypeInv, QueueInv
  PROVE  /\ Len(netpacket) \in Nat /\ Len(clientnetpacket) \in Nat
         /\ Increasing(clientnetpacket)
         /\ \A i \in 1 .. Len(clientnetpacket) :
              clientnetpacket[i] >= 1 /\ clientnetpacket[i] <= Len(netpacket)
  <1>1. /\ Len(netpacket) \in Nat /\ Len(clientnetpacket) \in Nat
        /\ DOMAIN clientnetpacket = 1 .. Len(clientnetpacket)
    BY LenProperties DEF TypeInv
  <1> QED
    BY <1>1 DEF QueueInv, Increasing

\* The head of the client's queue is the oldest packet it holds.
LEMMA HeadOfClient ==
  ASSUME TypeInv, QueueInv, clientnetpacket # << >>
  PROVE  /\ Len(clientnetpacket) \in Nat \ {0}
         /\ Head(clientnetpacket) = clientnetpacket[1]
         /\ Head(clientnetpacket) = Len(netpacket) - Len(clientnetpacket) + 1
         /\ Head(clientnetpacket) \in Pointer
  <1>1. /\ Len(clientnetpacket) \in Nat \ {0}
        /\ Head(clientnetpacket) = clientnetpacket[1]
    BY TailElements DEF TypeInv
  <1>2. 1 \in 1 .. Len(clientnetpacket)
    BY <1>1
  <1>3. Len(netpacket) \in Nat /\ Pointer = 1 .. Len(netpacket)
    BY LenProperties DEF TypeInv, Pointer
  <1> QED
    BY <1>1, <1>2, <1>3 DEF QueueInv

\* The packets allocated.
LEMMA Allocated ==
  ASSUME TypeInv
  PROVE  /\ Len(netpacket) \in Nat /\ Pointer = 1 .. Len(netpacket)
         /\ \A p \in Pointer :
              /\ netpacket[p] \in Packets
              /\ netpacket[p].sequence \in Nat /\ netpacket[p].delayuntil \in Nat
              /\ netpacket[p].usecount \in Nat
  <1>1. /\ Len(netpacket) \in Nat /\ Pointer = 1 .. Len(netpacket)
        /\ \A p \in Pointer : netpacket[p] \in Packets
    BY LenProperties, ElementOfSeq DEF TypeInv, Pointer
  <1> QED
    BY <1>1 DEF Packets

\* What Drop does to the packets.
LEMMA Dropped ==
  ASSUME TypeInv, NEW p \in Pointer, netpacket[p].usecount > 0
  PROVE  /\ Drop(p) \in Seq(Packets) /\ Len(Drop(p)) = Len(netpacket)
         /\ Drop(p)[p].usecount = netpacket[p].usecount - 1
         /\ Drop(p)[p].delayuntil <= netpacket[p].delayuntil
         /\ \A q \in Pointer : q # p => Drop(p)[q] = netpacket[q]
  <1> DEFINE u == netpacket[p].usecount - 1
             new == IF u = 0 THEN Freed ELSE [netpacket[p] EXCEPT !.usecount = u]
  <1>1. u \in Nat /\ p \in 1 .. Len(netpacket) /\ Pointer = 1 .. Len(netpacket)
        /\ netpacket[p] \in Packets /\ netpacket[p].delayuntil \in Nat
    BY Allocated
  <1>2. Drop(p) = [netpacket EXCEPT ![p] = new]
    BY DEF Drop, WithUsecount
  <1>3. new \in Packets /\ new.usecount = u /\ new.delayuntil <= netpacket[p].delayuntil
    <2>1. CASE u = 0
      BY <1>1, <2>1 DEF Freed, Packets
    <2>2. CASE u # 0
      BY <1>1, <2>2 DEF Packets
    <2> QED
      BY <2>1, <2>2
  <1> HIDE DEF new
  <1>4. netpacket \in Seq(Packets)
    BY DEF TypeInv
  <1>5. /\ [netpacket EXCEPT ![p] = new] \in Seq(Packets)
        /\ Len([netpacket EXCEPT ![p] = new]) = Len(netpacket)
        /\ \A q \in 1 .. Len(netpacket) :
             [netpacket EXCEPT ![p] = new][q] = IF q = p THEN new ELSE netpacket[q]
    BY <1>1, <1>3, <1>4, ExceptSeq
  <1> QED
    BY <1>1, <1>2, <1>3, <1>5

-----------------------------------------------------------------------------
(* The invariant is kept. *)

LEMMA InitInv == Init => IInv
  <1> SUFFICES ASSUME Init PROVE IInv
    OBVIOUS
  <1>1. << >> \in Seq(Packets) /\ << >> \in Seq(Nat) /\ Len(<< >>) = 0
    BY EmptySeq
  <1>2. TypeInv
    BY <1>1 DEF Init, TypeInv
  <1>3. QueueInv /\ CountInv /\ ReadInv /\ ReaderInv
    BY <1>1 DEF Init, QueueInv, Increasing, CountInv, ReadInv, ReaderInv
  <1> QED
    BY <1>2, <1>3 DEF IInv

LEMMA ClockInv == IInv /\ (Tick \/ JumpBack) => IInv'
  <1> SUFFICES ASSUME IInv, Tick \/ JumpBack PROVE IInv'
    OBVIOUS
  <1>1. /\ UNCHANGED <<lag, queueVars, netVars, readerVars, phase>>
        /\ now' \in Nat /\ jumped' \in BOOLEAN
        /\ now' < now => jumped'
        /\ jumped => jumped'
    <2>1. now \in Nat /\ jumped \in BOOLEAN
      BY DEF IInv, TypeInv
    <2>2. CASE Tick
      BY <2>1, <2>2 DEF Tick
    <2>3. CASE JumpBack
      BY <2>1, <2>3 DEF JumpBack
    <2> QED
      BY <2>2, <2>3
  <1> USE DEF queueVars, netVars, readerVars
  <1>2. TypeInv'
    BY <1>1 DEF IInv, TypeInv
  <1>3. QueueInv' /\ CountInv' /\ ReadInv'
    BY <1>1 DEF IInv, QueueInv, Increasing, CountInv, Uses, ReadInv
  <1>4. ReaderInv'
    <2>1. ASSUME reader = "data", Locks, ~jumped' PROVE Due(Head(clientnetpacket))'
      <3>1. Due(Head(clientnetpacket)) /\ now <= now' /\ clientnetpacket # << >>
        BY <1>1, <2>1 DEF IInv, TypeInv, ReaderInv
      <3>2. Head(clientnetpacket) \in Pointer
        BY <3>1, HeadOfClient DEF IInv
      <3> QED
        BY <1>1, <3>1, <3>2, Allocated DEF IInv, TypeInv, Due
    <2> QED
      BY <1>1, <2>1 DEF IInv, ReaderInv, Locks
  <1> QED
    BY <1>2, <1>3, <1>4 DEF IInv

LEMMA SetLagInv == IInv /\ SetLag => IInv'
  <1> SUFFICES ASSUME IInv, SetLag PROVE IInv'
    OBVIOUS
  <1>1. lag' \in Nat /\ UNCHANGED <<clockVars, queueVars, netVars, readerVars, phase>>
    BY DEF SetLag
  <1> QED
    BY <1>1 DEF clockVars, queueVars, netVars, readerVars, IInv, TypeInv, QueueInv,
         Increasing, CountInv, Uses, ReadInv, ReaderInv, Locks, Due

LEMMA DoReceiveInv ==
  ASSUME IInv, NEW sequence \in 1 .. MaxSequence, DoReceive(sequence)
  PROVE  IInv'
  <1> DEFINE p == Len(netpacket) + 1
             delayed == lag > 0
             new == [sequence |-> sequence,
                     delayuntil |-> IF delayed THEN now + lag ELSE 0,
                     usecount |-> NewUsecount(delayed)]
  <1>1. /\ phase = "running"
        /\ netpacket' = Append(netpacket, new)
        /\ clientnetpacket' = Append(clientnetpacket, p)
        /\ \/ /\ delayed /\ internalnetpacket' = Append(internalnetpacket, p)
              /\ last_incoming_sequence_number' = last_incoming_sequence_number
           \/ /\ ~delayed /\ internalnetpacket' = internalnetpacket
              /\ last_incoming_sequence_number' = sequence
        /\ UNCHANGED <<clockVars, lag, readerVars, phase>>
    BY DEF DoReceive, Handle, Enqueue, netVars
  <1> USE DEF clockVars, readerVars
  <1>2. new \in Packets /\ new.usecount = IF delayed THEN 2 ELSE 1
    BY DEF Packets, NewUsecount, IInv, TypeInv
  <1> HIDE DEF new
  <1>3. /\ netpacket' \in Seq(Packets) /\ Len(netpacket') = p /\ netpacket'[p] = new
        /\ \A q \in 1 .. Len(netpacket) : netpacket'[q] = netpacket[q]
        /\ Len(netpacket) \in Nat
    BY <1>1, <1>2, AppendProperties, LenProperties DEF IInv, TypeInv
  <1>4. /\ clientnetpacket' \in Seq(Nat)
        /\ Len(clientnetpacket') = Len(clientnetpacket) + 1
        /\ clientnetpacket'[Len(clientnetpacket) + 1] = p
        /\ \A i \in 1 .. Len(clientnetpacket) : clientnetpacket'[i] = clientnetpacket[i]
        /\ Uses(clientnetpacket, p) = 0 /\ Uses(clientnetpacket', p) = 1
        /\ \A q : q # p => Uses(clientnetpacket', q) = Uses(clientnetpacket, q)
    <2>1. /\ clientnetpacket \in Seq(Nat) /\ Increasing(clientnetpacket)
          /\ p \in Nat /\ \A i \in 1 .. Len(clientnetpacket) : clientnetpacket[i] < p
      <3>1. TypeInv /\ QueueInv
        BY DEF IInv
      <3>2. clientnetpacket \in Seq(Nat)
        BY <3>1 DEF TypeInv
      <3>3. \A i \in 1 .. Len(clientnetpacket) : clientnetpacket[i] \in Nat
        BY <3>2
      <3> QED
        BY <1>3, <3>1, <3>2, <3>3, ClientQueue
    <2> QED
      BY <1>1, <2>1, UsesOfAppend
  <1>5. /\ \A i \in 1 .. Len(internalnetpacket) : internalnetpacket[i] < p
        /\ internalnetpacket \in Seq(Nat) /\ Increasing(internalnetpacket)
        /\ Len(internalnetpacket) \in Nat
    BY <1>3, LenProperties DEF IInv, TypeInv, QueueInv
  <1>6. /\ internalnetpacket' \in Seq(Nat) /\ Increasing(internalnetpacket')
        /\ \A i \in 1 .. Len(internalnetpacket') :
             internalnetpacket'[i] >= 1 /\ internalnetpacket'[i] <= p
        /\ Uses(internalnetpacket', p) = IF delayed THEN 1 ELSE 0
        /\ \A q : q # p => Uses(internalnetpacket', q) = Uses(internalnetpacket, q)
    <2>1. CASE delayed
      <3>1. internalnetpacket' = Append(internalnetpacket, p)
        BY <1>1, <2>1
      <3>2. /\ internalnetpacket' \in Seq(Nat) /\ Increasing(internalnetpacket')
            /\ Len(internalnetpacket') = Len(internalnetpacket) + 1
            /\ internalnetpacket'[Len(internalnetpacket) + 1] = p
            /\ \A i \in 1 .. Len(internalnetpacket) :
                 internalnetpacket'[i] = internalnetpacket[i]
            /\ Uses(internalnetpacket', p) = 1
            /\ \A q : q # p => Uses(internalnetpacket', q) = Uses(internalnetpacket, q)
        BY <1>3, <1>5, <3>1, UsesOfAppend
      <3>3. \A i \in 1 .. Len(internalnetpacket') :
              internalnetpacket'[i] >= 1 /\ internalnetpacket'[i] <= p
        <4> SUFFICES ASSUME NEW i \in 1 .. Len(internalnetpacket) + 1
                     PROVE  internalnetpacket'[i] >= 1 /\ internalnetpacket'[i] <= p
          BY <3>2
        <4>1. CASE i = Len(internalnetpacket) + 1
          BY <1>3, <3>2, <4>1
        <4>2. CASE i # Len(internalnetpacket) + 1
          <5>1. i \in 1 .. Len(internalnetpacket)
            BY <1>5, <4>2
          <5>2. internalnetpacket[i] >= 1 /\ internalnetpacket[i] < p
            BY <5>1, <1>5 DEF IInv, QueueInv
          <5>3. internalnetpacket[i] \in Nat
            BY <5>1, <1>5
          <5> QED
            BY <1>3, <3>2, <5>1, <5>2, <5>3
        <4> QED
          BY <4>1, <4>2
      <3> QED
        BY <2>1, <3>2, <3>3
    <2>2. CASE ~delayed
      <3>1. internalnetpacket' = internalnetpacket
        BY <1>1, <2>2
      <3>2. \A i \in 1 .. Len(internalnetpacket) :
              internalnetpacket[i] >= 1 /\ internalnetpacket[i] <= p
        BY <1>3 DEF IInv, TypeInv, QueueInv
      <3>3. Uses(internalnetpacket, p) = 0
        BY <1>3, <1>5, UsesIs
      <3> QED
        BY <1>5, <2>2, <3>1, <3>2, <3>3
    <2> QED
      BY <2>1, <2>2
  <1>7. TypeInv'
    BY <1>1, <1>3, <1>4, <1>6 DEF IInv, TypeInv
  <1>8. QueueInv'
    <2>1. Len(clientnetpacket) \in Nat /\ Len(clientnetpacket) <= Len(netpacket)
      BY ClientQueue DEF IInv, QueueInv
    <2>2. ASSUME NEW i \in 1 .. Len(clientnetpacket')
          PROVE  clientnetpacket'[i] = Len(netpacket') - Len(clientnetpacket') + i
      <3>1. CASE i = Len(clientnetpacket) + 1
        BY <1>3, <1>4, <2>1, <3>1
      <3>2. CASE i # Len(clientnetpacket) + 1
        <4>1. i \in 1 .. Len(clientnetpacket) /\ i \in Nat
          BY <1>4, <2>1, <3>2
        <4>2. clientnetpacket[i] = Len(netpacket) - Len(clientnetpacket) + i
          BY <4>1 DEF IInv, QueueInv
        <4> QED
          BY <1>3, <1>4, <2>1, <4>1, <4>2
      <3> QED
        BY <3>1, <3>2
    <2>3. Len(clientnetpacket') <= Len(netpacket')
      BY <1>3, <1>4, <2>1
    <2> QED
      BY <1>3, <1>6, <2>2, <2>3 DEF QueueInv
  <1>9. CountInv'
    <2> SUFFICES ASSUME NEW q \in 1 .. p
                 PROVE  netpacket'[q].usecount =
                          Uses(clientnetpacket', q) + Uses(internalnetpacket', q)
      BY <1>3 DEF CountInv, Uses
    <2>1. CASE q = p
      BY <1>2, <1>3, <1>4, <1>6, <2>1
    <2>2. CASE q # p
      <3>1. q \in 1 .. Len(netpacket)
        BY <1>3, <2>2
      <3>2. netpacket[q].usecount = Uses(clientnetpacket, q) + Uses(internalnetpacket, q)
        BY <3>1 DEF IInv, CountInv
      <3> QED
        BY <1>3, <1>4, <1>6, <2>2, <3>1, <3>2
    <2> QED
      BY <2>1, <2>2
  <1>10. ReadInv'
    <2>1. Len(clientnetpacket) \in Nat /\ Len(read) \in Nat
      BY ClientQueue, LenProperties DEF IInv, TypeInv
    <2>2. read' = read /\ phase' = phase
      BY <1>1
    <2>3. Len(read) <= Len(netpacket) /\ Len(read) = Len(netpacket) - Len(clientnetpacket)
      BY <1>1 DEF IInv, ReadInv
    <2>4. Len(read') = Len(netpacket') - Len(clientnetpacket') /\ Len(read') <= Len(netpacket')
      BY <1>3, <1>4, <2>1, <2>2, <2>3
    <2> QED
      BY <2>2, <2>4 DEF IInv, ReadInv
  <1>11. ReaderInv'
    <2>1. clientnetpacket' # << >>
      BY <1>4, ClientQueue, EmptySeq DEF IInv
    <2>2. ASSUME clientnetpacket # << >>
          PROVE  /\ Head(clientnetpacket') = Head(clientnetpacket)
                 /\ Due(Head(clientnetpacket)) => Due(Head(clientnetpacket))'
      <3>1. /\ Head(clientnetpacket) = clientnetpacket[1]
            /\ 1 \in 1 .. Len(clientnetpacket)
        BY <2>2, TailElements DEF IInv, TypeInv
      <3>2. Head(clientnetpacket') = clientnetpacket'[1]
        BY <1>4, <2>1, TailElements
      <3>3. clientnetpacket[1] \in 1 .. Len(netpacket)
        BY <3>1, ClientQueue DEF IInv, TypeInv, QueueInv
      <3> QED
        BY <1>1, <1>3, <1>4, <3>1, <3>2, <3>3 DEF Due
    <2> QED
      BY <1>1, <1>3, <2>1, <2>2 DEF IInv, TypeInv, ReaderInv, Locks
  <1> QED
    BY <1>7, <1>8, <1>9, <1>10, <1>11 DEF IInv

LEMMA SanityCheckInv == IInv /\ SanityCheck => IInv'
  <1> SUFFICES ASSUME IInv, SanityCheck PROVE IInv'
    OBVIOUS
  <1>1. /\ UNCHANGED <<clockVars, lag, clientnetpacket, internalnetpacket, netVars,
                       readerVars, phase>>
        /\ netpacket' = [p \in Pointer |->
                           IF Uses(internalnetpacket, p) = 1
                           THEN [netpacket[p] EXCEPT !.delayuntil = now] ELSE netpacket[p]]
    BY DEF SanityCheck
  <1> USE DEF clockVars, netVars, readerVars
  <1>2. /\ Len(netpacket) \in Nat /\ Pointer = 1 .. Len(netpacket)
        /\ now \in Nat /\ \A p \in Pointer : netpacket[p] \in Packets
    BY Allocated DEF IInv, TypeInv
  <1>3. \A p \in Pointer :
          /\ netpacket'[p] \in Packets
          /\ netpacket'[p].usecount = netpacket[p].usecount
          /\ netpacket'[p].delayuntil \in {now, netpacket[p].delayuntil}
    BY <1>1, <1>2 DEF Packets
  <1>4. netpacket' \in Seq(Packets) /\ Len(netpacket') = Len(netpacket)
    <2>1. netpacket' \in [1 .. Len(netpacket) -> Packets]
      BY <1>1, <1>2, <1>3
    <2> QED
      BY <1>2, <2>1
  <1>5. TypeInv' /\ QueueInv' /\ ReadInv'
    BY <1>1, <1>4 DEF IInv, TypeInv, QueueInv, Increasing, ReadInv
  <1>6. CountInv'
    BY <1>1, <1>2, <1>3, <1>4 DEF IInv, CountInv, Uses
  <1>7. ReaderInv'
    <2>1. ASSUME clientnetpacket # << >>, Due(Head(clientnetpacket))
          PROVE  Due(Head(clientnetpacket))'
      <3>1. Head(clientnetpacket) \in Pointer
        BY <2>1, HeadOfClient DEF IInv
      <3>2. netpacket[Head(clientnetpacket)].delayuntil <= now
        BY <2>1 DEF Due
      <3> QED
        BY <1>1, <1>2, <1>3, <3>1, <3>2 DEF Due
    <2> QED
      BY <1>1, <1>4, <2>1 DEF IInv, ReaderInv, Locks
  <1> QED
    BY <1>5, <1>6, <1>7 DEF IInv

\* What a queue holds has a user to drop, so Drop never goes below zero.
LEMMA InUse ==
  ASSUME TypeInv, QueueInv, CountInv
  PROVE  /\ clientnetpacket # << >> =>
              /\ Head(clientnetpacket) \in Pointer
              /\ netpacket[Head(clientnetpacket)].usecount > 0
         /\ internalnetpacket # << >> =>
              /\ Head(internalnetpacket) \in Pointer
              /\ netpacket[Head(internalnetpacket)].usecount > 0
  <1>1. /\ clientnetpacket \in Seq(Nat) /\ internalnetpacket \in Seq(Nat)
        /\ Increasing(clientnetpacket) /\ Increasing(internalnetpacket)
        /\ Pointer = 1 .. Len(netpacket) /\ Len(netpacket) \in Nat
    BY ClientQueue, Allocated DEF TypeInv, QueueInv
  <1>2. ASSUME NEW p \in Pointer,
               Uses(clientnetpacket, p) = 1 \/ Uses(internalnetpacket, p) = 1
        PROVE  netpacket[p].usecount > 0
    <2>1. Uses(clientnetpacket, p) \in {0, 1} /\ Uses(internalnetpacket, p) \in {0, 1}
      BY <1>1, UsesIs
    <2>2. netpacket[p].usecount = Uses(clientnetpacket, p) + Uses(internalnetpacket, p)
      BY <1>1 DEF CountInv
    <2> QED
      BY <1>2, <2>1, <2>2
  <1>3. ASSUME clientnetpacket # << >>
        PROVE  Head(clientnetpacket) \in Pointer /\ Uses(clientnetpacket, Head(clientnetpacket)) = 1
    BY <1>1, <1>3, HeadOfClient, UsesOfTail
  <1>4. ASSUME internalnetpacket # << >>
        PROVE  /\ Head(internalnetpacket) \in Pointer
               /\ Uses(internalnetpacket, Head(internalnetpacket)) = 1
    <2>1. /\ Len(internalnetpacket) \in Nat \ {0}
          /\ Head(internalnetpacket) = internalnetpacket[1]
          /\ internalnetpacket[1] \in Nat
      BY <1>1, <1>4, TailElements
    <2>2. 1 \in 1 .. Len(internalnetpacket)
      BY <2>1
    <2>3. internalnetpacket[1] >= 1 /\ internalnetpacket[1] <= Len(netpacket)
      BY <2>2 DEF QueueInv
    <2> QED
      BY <1>1, <1>4, <2>1, <2>3, UsesOfTail
  <1> QED
    BY <1>2, <1>3, <1>4

\* A packet leaves the delayed queue: handled, or freed by NetQW_Delete.
LEMMA TakeInternal ==
  ASSUME TypeInv, QueueInv, CountInv, internalnetpacket # << >>,
         internalnetpacket' = Tail(internalnetpacket),
         netpacket' = Drop(Head(internalnetpacket)),
         UNCHANGED clientnetpacket
  PROVE  /\ netpacket' \in Seq(Packets) /\ internalnetpacket' \in Seq(Nat)
         /\ Len(netpacket') = Len(netpacket)
         /\ \A p \in Pointer : netpacket'[p].delayuntil <= netpacket[p].delayuntil
         /\ QueueInv' /\ CountInv'
  <1> DEFINE h == Head(internalnetpacket)
  <1>1. /\ h \in Pointer /\ netpacket[h].usecount > 0
        /\ internalnetpacket \in Seq(Nat) /\ Increasing(internalnetpacket)
        /\ Pointer = 1 .. Len(netpacket) /\ Len(netpacket) \in Nat
    BY InUse, Allocated DEF TypeInv, QueueInv
  <1>2. /\ netpacket' \in Seq(Packets) /\ Len(netpacket') = Len(netpacket)
        /\ netpacket'[h].usecount = netpacket[h].usecount - 1
        /\ netpacket'[h].delayuntil <= netpacket[h].delayuntil
        /\ \A q \in Pointer : q # h => netpacket'[q] = netpacket[q]
    BY <1>1, Dropped
  <1>3. /\ Increasing(internalnetpacket')
        /\ Uses(internalnetpacket, h) = 1 /\ Uses(internalnetpacket', h) = 0
        /\ \A p : p # h => Uses(internalnetpacket', p) = Uses(internalnetpacket, p)
    BY <1>1, UsesOfTail
  <1>4. /\ internalnetpacket' \in Seq(Nat)
        /\ Len(internalnetpacket') = Len(internalnetpacket) - 1
        /\ Len(internalnetpacket) \in Nat \ {0}
        /\ \A i \in 1 .. Len(internalnetpacket) - 1 :
             internalnetpacket'[i] = internalnetpacket[i + 1]
    BY <1>1, TailElements
  <1> HIDE DEF h
  <1>5. QueueInv'
    <2>1. ASSUME NEW i \in 1 .. Len(internalnetpacket')
          PROVE  internalnetpacket'[i] >= 1 /\ internalnetpacket'[i] <= Len(netpacket')
      <3>1. i + 1 \in 1 .. Len(internalnetpacket) /\ i \in 1 .. Len(internalnetpacket) - 1
        BY <1>4
      <3> QED
        BY <1>2, <1>4, <3>1 DEF QueueInv
    <2> QED
      BY <1>2, <1>3, <2>1 DEF QueueInv
  <1>6. CountInv'
    <2>0. \A q : Uses(clientnetpacket', q) = Uses(clientnetpacket, q)
      BY Zenon
    <2> SUFFICES ASSUME NEW q \in 1 .. Len(netpacket)
                 PROVE  netpacket'[q].usecount =
                          Uses(clientnetpacket, q) + Uses(internalnetpacket', q)
      BY <1>2, <2>0, SMTT(20) DEF CountInv
    <2>1. netpacket[q].usecount = Uses(clientnetpacket, q) + Uses(internalnetpacket, q)
      BY DEF CountInv
    <2>2. Uses(clientnetpacket, q) \in {0, 1}
      BY UsesIs DEF TypeInv
    <2>3. CASE q = h
      BY <1>2, <1>3, <2>1, <2>2, <2>3
    <2>4. CASE q # h
      BY <1>1, <1>2, <1>3, <2>1, <2>4
    <2> QED
      BY <2>3, <2>4
  <1>7. \A p \in Pointer : netpacket'[p].delayuntil <= netpacket[p].delayuntil
    <2> SUFFICES ASSUME NEW p \in Pointer
                 PROVE  netpacket'[p].delayuntil <= netpacket[p].delayuntil
      OBVIOUS
    <2>1. netpacket[p].delayuntil \in Nat
      BY Allocated
    <2>2. CASE p = h
      BY <1>2, <2>2
    <2>3. CASE p # h
      BY <1>2, <2>1, <2>3
    <2> QED
      BY <2>2, <2>3
  <1> QED
    BY <1>2, <1>4, <1>5, <1>6, <1>7

\* A packet leaves the client's queue: read, or freed by NetQW_Delete.
LEMMA TakeClient ==
  ASSUME TypeInv, QueueInv, CountInv, clientnetpacket # << >>,
         clientnetpacket' = Tail(clientnetpacket),
         netpacket' = Drop(Head(clientnetpacket)),
         UNCHANGED internalnetpacket
  PROVE  /\ netpacket' \in Seq(Packets) /\ clientnetpacket' \in Seq(Nat)
         /\ Len(netpacket') = Len(netpacket)
         /\ Len(clientnetpacket') = Len(clientnetpacket) - 1
         /\ QueueInv' /\ CountInv'
  <1> DEFINE h == Head(clientnetpacket)
  <1>1. /\ h \in Pointer /\ netpacket[h].usecount > 0
        /\ clientnetpacket \in Seq(Nat) /\ Increasing(clientnetpacket)
        /\ Pointer = 1 .. Len(netpacket) /\ Len(netpacket) \in Nat
    BY InUse, Allocated, ClientQueue DEF TypeInv
  <1>2. /\ netpacket' \in Seq(Packets) /\ Len(netpacket') = Len(netpacket)
        /\ netpacket'[h].usecount = netpacket[h].usecount - 1
        /\ \A q \in Pointer : q # h => netpacket'[q] = netpacket[q]
    BY <1>1, Dropped
  <1>3. /\ Uses(clientnetpacket, h) = 1 /\ Uses(clientnetpacket', h) = 0
        /\ \A p : p # h => Uses(clientnetpacket', p) = Uses(clientnetpacket, p)
    BY <1>1, UsesOfTail
  <1>4. /\ clientnetpacket' \in Seq(Nat)
        /\ Len(clientnetpacket') = Len(clientnetpacket) - 1
        /\ Len(clientnetpacket) \in Nat \ {0}
        /\ \A i \in 1 .. Len(clientnetpacket) - 1 :
             clientnetpacket'[i] = clientnetpacket[i + 1]
    BY <1>1, TailElements
  <1> HIDE DEF h
  <1>5. QueueInv'
    <2>1. ASSUME NEW i \in 1 .. Len(clientnetpacket')
          PROVE  clientnetpacket'[i] = Len(netpacket') - Len(clientnetpacket') + i
      <3>1. i + 1 \in 1 .. Len(clientnetpacket) /\ i \in 1 .. Len(clientnetpacket) - 1
        BY <1>4
      <3>2. clientnetpacket[i + 1] = Len(netpacket) - Len(clientnetpacket) + (i + 1)
        BY <3>1 DEF QueueInv
      <3> QED
        BY <1>1, <1>2, <1>4, <3>1, <3>2
    <2>2. Len(clientnetpacket') <= Len(netpacket')
      BY <1>1, <1>2, <1>4 DEF QueueInv
    <2> QED
      BY <1>2, <2>1, <2>2 DEF QueueInv, Increasing
  <1>6. CountInv'
    <2> SUFFICES ASSUME NEW q \in 1 .. Len(netpacket)
                 PROVE  netpacket'[q].usecount =
                          Uses(clientnetpacket', q) + Uses(internalnetpacket, q)
      BY <1>2 DEF CountInv, Uses
    <2>1. netpacket[q].usecount = Uses(clientnetpacket, q) + Uses(internalnetpacket, q)
      BY DEF CountInv
    <2>2. Uses(internalnetpacket, q) \in {0, 1}
      BY UsesIs DEF TypeInv
    <2>3. CASE q = h
      BY <1>2, <1>3, <2>1, <2>2, <2>3
    <2>4. CASE q # h
      BY <1>1, <1>2, <1>3, <2>1, <2>4
    <2> QED
      BY <2>3, <2>4
  <1> QED
    BY <1>2, <1>4, <1>5, <1>6

LEMMA HandleDelayedInv == IInv /\ HandleDelayed => IInv'
  <1> SUFFICES ASSUME IInv, HandleDelayed PROVE IInv'
    OBVIOUS
  <1>1. /\ internalnetpacket # << >>
        /\ internalnetpacket' = Tail(internalnetpacket)
        /\ netpacket' = Drop(Head(internalnetpacket))
        /\ last_incoming_sequence_number' = netpacket[Head(internalnetpacket)].sequence
        /\ UNCHANGED <<clockVars, lag, clientnetpacket, readerVars, phase>>
    BY DEF HandleDelayed, Handle
  <1> USE DEF clockVars, readerVars
  <1>2. /\ netpacket' \in Seq(Packets) /\ internalnetpacket' \in Seq(Nat)
        /\ Len(netpacket') = Len(netpacket)
        /\ \A p \in Pointer : netpacket'[p].delayuntil <= netpacket[p].delayuntil
        /\ QueueInv' /\ CountInv'
    BY <1>1, TakeInternal DEF IInv
  <1>3. last_incoming_sequence_number' \in Nat
    BY <1>1, InUse, Allocated DEF IInv
  <1>4. TypeInv' /\ ReadInv'
    BY <1>1, <1>2, <1>3 DEF IInv, TypeInv, ReadInv
  <1>5. ReaderInv'
    <2>1. ASSUME clientnetpacket # << >>, Due(Head(clientnetpacket))
          PROVE  Due(Head(clientnetpacket))'
      <3>1. Head(clientnetpacket) \in Pointer
        BY <2>1, HeadOfClient DEF IInv
      <3>2. netpacket[Head(clientnetpacket)].delayuntil <= now
        BY <2>1 DEF Due
      <3>3. netpacket'[Head(clientnetpacket)].delayuntil <= now
        <4>1. /\ netpacket[Head(clientnetpacket)].delayuntil \in Nat
              /\ netpacket'[Head(clientnetpacket)].delayuntil \in Nat
          <5>1. netpacket'[Head(clientnetpacket)] \in Packets
            BY <1>2, <3>1, Allocated, ElementOfSeq DEF IInv
          <5> QED
            BY <3>1, <5>1, Allocated DEF IInv, Packets
        <4>2. now \in Nat
          BY DEF IInv, TypeInv
        <4>3. netpacket'[Head(clientnetpacket)].delayuntil
                <= netpacket[Head(clientnetpacket)].delayuntil
          BY <1>2, <3>1
        <4> QED
          BY <3>2, <4>1, <4>2, <4>3
      <3> QED
        BY <1>1, <3>3 DEF Due
    <2> QED
      BY <1>1, <1>2, <2>1 DEF IInv, ReaderInv, Locks
  <1> QED
    BY <1>2, <1>4, <1>5 DEF IInv

LEMMA GetPacketInv == IInv /\ (GetPacketLength \/ GetPacketData) => IInv'
  <1> SUFFICES ASSUME IInv, GetPacketLength \/ GetPacketData PROVE IInv'
    OBVIOUS
  <1>1. /\ phase \in {"running", "joined"}
        /\ UNCHANGED <<clockVars, lag, queueVars, netVars, read>>
    BY DEF GetPacketLength, GetPacketData, Locks
  <1> USE DEF clockVars, queueVars, netVars
  <1>2. Ready # 0 => /\ clientnetpacket # << >> /\ Due(Head(clientnetpacket))
                     /\ Ready = Head(clientnetpacket)
                     /\ Ready \in Pointer
    BY HeadOfClient DEF IInv, Ready
  <1>3. Pointer = 1 .. Len(netpacket) /\ Len(netpacket) \in Nat
    BY Allocated DEF IInv
  <1>4. /\ reader' \in {"data", "free"} /\ phase' \in {phase, "crashed"}
        /\ held' \in Nat /\ held' <= Len(netpacket)
    BY <1>1, <1>2, <1>3 DEF GetPacketLength, GetPacketData, IInv, TypeInv, ReaderInv
  <1>5. TypeInv' /\ QueueInv' /\ CountInv' /\ ReadInv'
    BY <1>1, <1>4 DEF IInv, TypeInv, QueueInv, Increasing, CountInv, Uses, ReadInv
  <1>6. ReaderInv'
    <2>1. CASE GetPacketLength
      <3>1. reader' = "data" /\ phase' = phase /\ Ready # 0
        BY <2>1 DEF GetPacketLength
      <3> QED
        BY <1>1, <1>2, <1>4, <3>1 DEF ReaderInv, Due, Locks, IInv
    <2>2. CASE GetPacketData
      <3>1. /\ reader = "data" /\ reader' = "free" /\ held' = Ready
            /\ phase' = IF Ready = 0 THEN "crashed" ELSE phase
        BY <1>1, <2>2 DEF GetPacketData
      <3>2. Ready = 0 => jumped
        <4>1. clientnetpacket # << >> /\ (~jumped => Due(Head(clientnetpacket)))
          BY <1>1, <3>1 DEF IInv, ReaderInv, Locks
        <4>2. Head(clientnetpacket) # 0
          BY <1>3, <4>1, HeadOfClient DEF IInv
        <4> QED
          BY <4>1, <4>2 DEF Ready
      <3> QED
        BY <1>1, <1>2, <1>4, <3>1, <3>2 DEF ReaderInv, Locks, IInv
    <2> QED
      BY <2>1, <2>2
  <1> QED
    BY <1>5, <1>6 DEF IInv

LEMMA FreePacketInv == IInv /\ FreePacket => IInv'
  <1> SUFFICES ASSUME IInv, FreePacket PROVE IInv'
    OBVIOUS
  <1>1. /\ phase \in {"running", "joined"} /\ reader = "free"
        /\ read' = Append(read, held) /\ held' = 0 /\ reader' = "length"
        /\ clientnetpacket' = Tail(clientnetpacket)
        /\ netpacket' = Drop(Head(clientnetpacket))
        /\ UNCHANGED <<clockVars, lag, internalnetpacket, netVars, phase>>
    BY DEF FreePacket, Locks
  <1> USE DEF clockVars, netVars
  <1>2. clientnetpacket # << >> /\ held = Head(clientnetpacket)
    BY <1>1 DEF IInv, ReaderInv, Locks
  <1>3. /\ netpacket' \in Seq(Packets) /\ clientnetpacket' \in Seq(Nat)
        /\ Len(netpacket') = Len(netpacket)
        /\ Len(clientnetpacket') = Len(clientnetpacket) - 1
        /\ QueueInv' /\ CountInv'
    BY <1>1, <1>2, TakeClient DEF IInv
  <1>4. /\ Len(netpacket) \in Nat /\ Len(clientnetpacket) \in Nat \ {0}
        /\ Len(read) = Len(netpacket) - Len(clientnetpacket)
        /\ held = Len(read) + 1 /\ Len(read) \in Nat
    <2>1. /\ Len(clientnetpacket) \in Nat \ {0}
          /\ held = Len(netpacket) - Len(clientnetpacket) + 1
      BY <1>2, HeadOfClient DEF IInv
    <2>2. Len(read) = Len(netpacket) - Len(clientnetpacket)
      BY <1>1 DEF IInv, ReadInv
    <2> QED
      BY <2>1, <2>2, Allocated, LenProperties DEF IInv, TypeInv
  <1>5. /\ read' \in Seq(Nat) /\ Len(read') = Len(read) + 1
        /\ read'[Len(read) + 1] = held
        /\ \A i \in 1 .. Len(read) : read'[i] = read[i]
    <2>1. read \in Seq(Nat) /\ held \in Nat
      BY DEF IInv, TypeInv
    <2> QED
      BY <1>1, <2>1, AppendProperties
  <1>6. TypeInv'
    BY <1>1, <1>3, <1>5 DEF IInv, TypeInv
  <1>7. ReadInv'
    <2>1. ASSUME NEW i \in 1 .. Len(read) + 1 PROVE read'[i] = i
      <3>1. CASE i = Len(read) + 1
        BY <1>4, <1>5, <3>1
      <3>2. CASE i # Len(read) + 1
        <4>1. i \in 1 .. Len(read)
          BY <1>4, <3>2
        <4> QED
          BY <1>5, <4>1 DEF IInv, ReadInv
      <3> QED
        BY <3>1, <3>2
    <2>2. /\ Len(read') = Len(netpacket') - Len(clientnetpacket')
          /\ Len(read') <= Len(netpacket')
      BY <1>3, <1>4, <1>5
    <2> QED
      BY <1>5, <2>1, <2>2 DEF ReadInv
  <1>8. ReaderInv'
    BY <1>1, <1>3, <1>4 DEF ReaderInv, IInv
  <1> QED
    BY <1>3, <1>6, <1>7, <1>8 DEF IInv

\* NetQW_Delete: until the mutex is deleted the reader goes on as before; then the
\* queues change and it does not.
LEMMA DeleteInv ==
  IInv /\ (\/ DeleteThread \/ DeleteMutex
           \/ DeleteClientPacket \/ DeleteInternalPacket \/ DeleteDone)
    => IInv'
  <1> USE DEF clockVars, netVars, readerVars
  <1>1. ASSUME IInv, DeleteThread \/ DeleteMutex \/ DeleteDone PROVE IInv'
    <2>1. /\ UNCHANGED <<clockVars, lag, queueVars, netVars, readerVars>>
          /\ \/ phase = "running" /\ phase' = "joined"
             \/ phase' \in {"unlocked", "deleted"}
      BY <1>1 DEF DeleteThread, DeleteMutex, DeleteDone
    <2> QED
      BY <1>1, <2>1 DEF queueVars, IInv, TypeInv, QueueInv, Increasing, CountInv, Uses,
           ReadInv, ReaderInv, Locks, Due
  <1>2. ASSUME IInv, DeleteClientPacket PROVE IInv'
    <2>1. /\ phase = "unlocked" /\ clientnetpacket # << >>
          /\ clientnetpacket' = Tail(clientnetpacket)
          /\ netpacket' = Drop(Head(clientnetpacket))
          /\ UNCHANGED <<clockVars, lag, internalnetpacket, netVars, readerVars, phase>>
      BY <1>2 DEF DeleteClientPacket
    <2>2. /\ netpacket' \in Seq(Packets) /\ clientnetpacket' \in Seq(Nat)
          /\ Len(netpacket') = Len(netpacket)
          /\ QueueInv' /\ CountInv'
      BY <1>2, <2>1, TakeClient DEF IInv
    <2> QED
      BY <1>2, <2>1, <2>2 DEF IInv, TypeInv, ReadInv, ReaderInv, Locks
  <1>3. ASSUME IInv, DeleteInternalPacket PROVE IInv'
    <2>1. /\ phase = "unlocked" /\ internalnetpacket # << >>
          /\ internalnetpacket' = Tail(internalnetpacket)
          /\ netpacket' = Drop(Head(internalnetpacket))
          /\ UNCHANGED <<clockVars, lag, clientnetpacket, netVars, readerVars, phase>>
      BY <1>3 DEF DeleteInternalPacket
    <2>2. /\ netpacket' \in Seq(Packets) /\ internalnetpacket' \in Seq(Nat)
          /\ Len(netpacket') = Len(netpacket)
          /\ QueueInv' /\ CountInv'
      BY <1>3, <2>1, TakeInternal DEF IInv
    <2> QED
      BY <1>3, <2>1, <2>2 DEF IInv, TypeInv, ReadInv, ReaderInv, Locks
  <1> QED
    BY <1>1, <1>2, <1>3

LEMMA NextInv == IInv /\ [Next]_vars => IInv'
  <1> SUFFICES ASSUME IInv, [Next]_vars PROVE IInv'
    OBVIOUS
  <1>1. CASE UNCHANGED vars
    BY <1>1 DEF vars, clockVars, queueVars, netVars, readerVars, IInv, TypeInv, QueueInv,
         Increasing, CountInv, Uses, ReadInv, ReaderInv, Locks, Due
  <1>2. CASE Next
    BY <1>2, ClockInv, SetLagInv, DoReceiveInv, SanityCheckInv, HandleDelayedInv,
       GetPacketInv, FreePacketInv, DeleteInv DEF Next
  <1> QED
    BY <1>1, <1>2

-----------------------------------------------------------------------------
(* What the runs check, for every value of the constants. *)

\* Every reachable state satisfies the inductive invariant: how the net thread, the
\* reader and NetQW_Delete share the two queues.
THEOREM Invariance == Spec => []IInv
  BY InitInv, NextInv, PTL DEF Spec

\* The variables keep their types: the lists and the reader point at packets that
\* were allocated.
THEOREM TypeCorrect == Spec => []TypeOK
  <1>1. IInv => TypeOK
    <2> SUFFICES ASSUME IInv PROVE TypeOK
      OBVIOUS
    <2>1. Pointer = 1 .. Len(netpacket) /\ Len(netpacket) \in Nat
      BY Allocated DEF IInv
    <2>2. clientnetpacket \in Seq(Pointer)
      <3>1. \A i \in 1 .. Len(clientnetpacket) : clientnetpacket[i] \in Pointer
        BY <2>1, ClientQueue, ElementOfSeq DEF IInv, TypeInv
      <3> QED
        BY <3>1, SeqOfElements DEF IInv, TypeInv
    <2>3. internalnetpacket \in Seq(Pointer)
      <3>1. \A i \in 1 .. Len(internalnetpacket) : internalnetpacket[i] \in Pointer
        BY <2>1, ElementOfSeq DEF IInv, TypeInv, QueueInv
      <3> QED
        BY <3>1, SeqOfElements DEF IInv, TypeInv
    <2>4. read \in Seq(Pointer)
      <3>1. \A i \in 1 .. Len(read) : read[i] \in Pointer
        BY <2>1, LenProperties DEF IInv, TypeInv, ReadInv
      <3> QED
        BY <3>1, SeqOfElements DEF IInv, TypeInv
    <2>5. held \in Pointer \cup {0}
      BY <2>1 DEF IInv, TypeInv, ReaderInv
    <2> QED
      BY <2>2, <2>3, <2>4, <2>5 DEF IInv, TypeInv, TypeOK, Packets
  <1> QED
    BY <1>1, Invariance, PTL

\* At every step of the threads a packet's usecount is the number of queues that
\* hold it, once each: nothing is freed that a queue still leads to, nothing twice,
\* and nothing is forgotten.
THEOREM UsecountIsUsesAlways == Spec => []UsecountIsUses
  <1>1. IInv => UsecountIsUses
    BY ClientQueue, Allocated DEF IInv, QueueInv, CountInv, UsecountIsUses
  <1> QED
    BY <1>1, Invariance, PTL

\* The packet the reader works on without the mutex stays allocated, and is the one
\* FreePacket frees; only a clock set back and NetQW_Delete, once it has deleted the
\* mutex, take it away.
THEOREM HeldPacketStaysAlways == Spec => []HeldPacketStays
  <1>1. IInv => HeldPacketStays
    <2> SUFFICES ASSUME IInv PROVE HeldPacketStays
      OBVIOUS
    <2>1. Pointer = 1 .. Len(netpacket) /\ Len(netpacket) \in Nat
      BY Allocated DEF IInv
    <2>2. ASSUME reader = "data", Locks, ~jumped PROVE Ready # 0
      <3>1. clientnetpacket # << >> /\ Due(Head(clientnetpacket))
        BY <2>2 DEF IInv, ReaderInv
      <3>2. Head(clientnetpacket) \in Pointer
        BY <3>1, HeadOfClient DEF IInv
      <3> QED
        BY <2>1, <3>1, <3>2 DEF Ready
    <2>3. ASSUME reader = "free", Locks
          PROVE  /\ held # 0 /\ held = Head(clientnetpacket)
                 /\ netpacket[held].usecount > 0
      <3>1. clientnetpacket # << >> /\ held = Head(clientnetpacket)
        BY <2>3 DEF IInv, ReaderInv
      <3> QED
        BY <2>1, <3>1, InUse DEF IInv
    <2> QED
      BY <2>2, <2>3 DEF HeldPacketStays, IInv, ReaderInv
  <1> QED
    BY <1>1, Invariance, PTL

\* The client reads every packet once and in the order of arrival, however the lag
\* is changed in between.
THEOREM ReadInArrivalOrderAlways == Spec => []ReadInArrivalOrder
  <1>1. IInv => ReadInArrivalOrder
    <2> SUFFICES ASSUME IInv PROVE ReadInArrivalOrder
      OBVIOUS
    <2>1. /\ DOMAIN read = 1 .. Len(read)
          /\ DOMAIN clientnetpacket = 1 .. Len(clientnetpacket)
      BY LenProperties DEF IInv, TypeInv
    <2> QED
      BY <2>1 DEF IInv, QueueInv, ReadInv, ReadInArrivalOrder, Locks
  <1> QED
    BY <1>1, Invariance, PTL

=============================================================================
