--------------------------- MODULE FrameRingProof ---------------------------
(***************************************************************************)
(* Proofs about FrameRing, for rings of any size, any number of frames,    *)
(* and however long the threads wait.                                      *)
(***************************************************************************)
EXTENDS FrameRing, TLAPS

USE RingAssumption

\* The frames the client has copied.
Copied == Generated - framestocopy

TypeInv ==
  /\ due \in Nat /\ frames \in [Slots -> Frame] /\ overrun \in 0 .. Generated
  /\ lastsentframe \in Nat /\ framestosend \in Nat
  /\ framestocopy \in Nat /\ framestocopy <= Generated
  /\ current_outgoing_sequence_number = lastsentframe + 1
  /\ last_received_entity_update_frame \in Int
  /\ net \in {"wait", "reset", "generate", "build", "delta", "commit"}
  /\ packet \in [commands : Seq(Nat), delta : Int]
  /\ client \in {"read", "generate", "copy", "parse"}
  /\ client_frames \in [Slots -> Frame]
  /\ outgoing_sequence \in Nat /\ incoming_acknowledged \in Nat

\* Each ring holds the newest frames, generated or copied, in their slots.
HoldsLast(ring, n) ==
  \A m \in (n - UPDATE_BACKUP + 1) .. n : ring[Slot(m)].number = AtLeast0(m)

RingInv ==
  /\ HoldsLast(frames, Generated)
  /\ HoldsLast(client_frames, Copied)
  /\ lastcopiedframe = Slot(Copied)

\* A packet is built of a frame that waits.
WaitInv == net \in {"build", "delta", "commit"} => framestosend > 0

\* What is acknowledged has been sent, and what the client parses acknowledges what
\* it has copied.
AckInv ==
  /\ incoming_acknowledged <= lastsentframe
  /\ last_received_entity_update_frame <= lastsentframe
  /\ client = "parse" => /\ outgoing_sequence = Copied + 1
                         /\ incoming_acknowledged <= Copied

\* The delta a packet may ask for.
Kept(n, delta) == delta # -1 => n - delta \in 1 .. (UPDATE_BACKUP - 1)

\* Of the frames that wait only the next has a delta point, one the server keeps,
\* unless the ring was overrun since they were generated; the packet being built has
\* what was in its slot.
PacketInv ==
  /\ \A n \in current_outgoing_sequence_number .. Generated :
       n > overrun =>
         IF n = current_outgoing_sequence_number
         THEN Kept(n, frames[Slot(n)].delta_sequence)
         ELSE frames[Slot(n)].delta_sequence = -1
  /\ PacketHasLastThree
  /\ DeltaIsKept

IInv == TypeInv /\ RingInv /\ WaitInv /\ AckInv /\ PacketInv

-----------------------------------------------------------------------------
(* Slots. *)

\* Two multiples of the ring's size are equal or that far apart.
LEMMA Multiples ==
  ASSUME NEW p \in Int, NEW q \in Int,
         UPDATE_BACKUP * p - UPDATE_BACKUP * q < UPDATE_BACKUP,
         UPDATE_BACKUP * q - UPDATE_BACKUP * p < UPDATE_BACKUP
  PROVE  p = q
  <1> DEFINE N == UPDATE_BACKUP
  <1>1. N \in Nat /\ N > 0
    OBVIOUS
  <1> SUFFICES ASSUME N * p - N * q < N, N * q - N * p < N PROVE p = q
    OBVIOUS
  <1> HIDE DEF N
  <1>2. N * p - N * q = N * (p - q) /\ N * q - N * p = N * (q - p)
    BY <1>1
  <1>3. CASE p - q >= 1
    <2>1. N * (p - q) >= N
      BY <1>1, <1>3
    <2> QED
      BY <1>1, <1>2, <2>1
  <1>4. CASE q - p >= 1
    <2>1. N * (q - p) >= N
      BY <1>1, <1>4
    <2> QED
      BY <1>1, <1>2, <2>1
  <1> QED
    BY <1>3, <1>4

LEMMA SlotIs ==
  ASSUME NEW n \in Int
  PROVE  /\ Slot(n) \in Slots
         /\ n \div UPDATE_BACKUP \in Int
         /\ n = UPDATE_BACKUP * (n \div UPDATE_BACKUP) + Slot(n)
  <1> DEFINE N == UPDATE_BACKUP
  <1>1. N \in Nat /\ N > 0
    OBVIOUS
  <1>2. n % N \in 0 .. N - 1 /\ n \div N \in Int /\ n = N * (n \div N) + (n % N)
    BY <1>1
  <1> QED
    BY <1>2 DEF Slot, Slots

LEMMA SlotUnique ==
  ASSUME NEW n \in Int, NEW q \in Int, NEW r \in Slots, n = UPDATE_BACKUP * q + r
  PROVE  Slot(n) = r
  <1> DEFINE p == n \div UPDATE_BACKUP
  <1>1. Slot(n) \in Slots /\ p \in Int /\ n = UPDATE_BACKUP * p + Slot(n)
    BY SlotIs
  <1> HIDE DEF p
  <1> DEFINE P == UPDATE_BACKUP * p
             Q == UPDATE_BACKUP * q
  <1>2. P \in Int /\ Q \in Int /\ n = P + Slot(n) /\ n = Q + r
    BY <1>1
  <1>3. P - Q < UPDATE_BACKUP /\ Q - P < UPDATE_BACKUP
    <2> HIDE DEF P, Q
    <2> QED
      BY <1>1, <1>2 DEF Slots
  <1>4. p = q
    BY <1>1, <1>3, Multiples
  <1> QED
    BY <1>1, <1>4 DEF Slots

\* Numbers less than a ring apart have different slots.
LEMMA SlotsDiffer ==
  ASSUME NEW m \in Int, NEW n \in Int, Slot(m) = Slot(n),
         m - n < UPDATE_BACKUP, n - m < UPDATE_BACKUP
  PROVE  m = n
  <1> DEFINE p == m \div UPDATE_BACKUP
             q == n \div UPDATE_BACKUP
  <1>1. /\ Slot(m) \in Slots /\ p \in Int /\ m = UPDATE_BACKUP * p + Slot(m)
        /\ q \in Int /\ n = UPDATE_BACKUP * q + Slot(m)
    BY SlotIs
  <1> HIDE DEF p, q
  <1> DEFINE P == UPDATE_BACKUP * p
             Q == UPDATE_BACKUP * q
  <1>2. P \in Int /\ Q \in Int /\ m = P + Slot(m) /\ n = Q + Slot(m) /\ Slot(m) \in Int
    BY <1>1 DEF Slots
  <1>3. P - Q < UPDATE_BACKUP /\ Q - P < UPDATE_BACKUP
    <2> HIDE DEF P, Q
    <2> QED
      BY <1>2
  <1>4. p = q
    BY <1>1, <1>3, Multiples
  <1> QED
    BY <1>2, <1>4

\* Counting on from a slot is counting on from the number.
LEMMA SlotOfSlot ==
  ASSUME NEW m \in Int, NEW i \in Int
  PROVE  Slot(Slot(m) + i) = Slot(m + i)
  <1> DEFINE p == m \div UPDATE_BACKUP
             q == (Slot(m) + i) \div UPDATE_BACKUP
             r == Slot(Slot(m) + i)
  <1>1. Slot(m) \in Slots /\ p \in Int /\ m = UPDATE_BACKUP * p + Slot(m)
    BY SlotIs
  <1>2. Slot(m) \in Int
    BY <1>1 DEF Slots
  <1>3. r \in Slots /\ q \in Int /\ Slot(m) + i = UPDATE_BACKUP * q + r
    <2>1. Slot(m) + i \in Int
      BY <1>2
    <2> QED
      BY <2>1, SlotIs
  <1> HIDE DEF p, q, r
  <1>4. m + i = UPDATE_BACKUP * (p + q) + r
    <2>1. UPDATE_BACKUP * (p + q) = UPDATE_BACKUP * p + UPDATE_BACKUP * q
      BY <1>1, <1>3
    <2> DEFINE P == UPDATE_BACKUP * p
               Q == UPDATE_BACKUP * q
    <2>2. P \in Int /\ Q \in Int /\ m = P + Slot(m) /\ Slot(m) + i = Q + r /\ r \in Int
      BY <1>1, <1>3 DEF Slots
    <2>3. m + i = P + Q + r
      <3> HIDE DEF P, Q
      <3> QED
        BY <1>2, <2>2
    <2> QED
      BY <2>1, <2>3
  <1>5. p + q \in Int
    BY <1>1, <1>3
  <1>6. Slot(m + i) = r
    BY <1>3, <1>4, <1>5, SlotUnique
  <1> QED
    BY <1>6 DEF r

LEMMA NewestIs ==
  ASSUME NEW n \in Int, NEW s \in Slots
  PROVE  /\ Newest(n, s) \in (n - UPDATE_BACKUP + 1) .. n
         /\ Slot(Newest(n, s)) = s
  <1> DEFINE q == (n - s) \div UPDATE_BACKUP
             r == Slot(n - s)
  <1>1. s \in Int
    BY DEF Slots
  <1>2. r \in Slots /\ q \in Int /\ n - s = UPDATE_BACKUP * q + r
    BY <1>1, SlotIs
  <1>3. Newest(n, s) = n - r
    BY DEF Newest
  <1> HIDE DEF q, r
  <1>4. n - r = UPDATE_BACKUP * q + s
    <2> DEFINE Q == UPDATE_BACKUP * q
    <2>1. Q \in Int /\ n - s = Q + r /\ r \in Int
      BY <1>2 DEF Slots
    <2>2. n - r = Q + s
      <3> HIDE DEF Q
      <3> QED
        BY <1>1, <2>1
    <2> QED
      BY <2>2
  <1>5. Slot(n - r) = s
    <2>1. n - r \in Int
      BY <1>2 DEF Slots
    <2> QED
      BY <1>2, <1>4, <2>1, SlotUnique
  <1> QED
    BY <1>2, <1>3, <1>5 DEF Slots

\* Of the last numbers, each is the newest in its slot.
LEMMA NewestOfSlot ==
  ASSUME NEW n \in Int, NEW m \in (n - UPDATE_BACKUP + 1) .. n
  PROVE  Newest(n, Slot(m)) = m
  <1>1. Slot(m) \in Slots
    BY SlotIs
  <1>2. /\ Newest(n, Slot(m)) \in (n - UPDATE_BACKUP + 1) .. n
        /\ Slot(Newest(n, Slot(m))) = Slot(m)
    BY <1>1, NewestIs
  <1>3. /\ Newest(n, Slot(m)) - m < UPDATE_BACKUP
        /\ m - Newest(n, Slot(m)) < UPDATE_BACKUP
    BY <1>2
  <1> QED
    BY <1>2, <1>3, SlotsDiffer

-----------------------------------------------------------------------------
(* The invariant is kept. *)

LEMMA InitInv == Init => IInv
  <1> SUFFICES ASSUME Init PROVE IInv
    OBVIOUS
  <1>1. EmptyRing \in [Slots -> Frame] /\ \A s \in Slots : EmptyRing[s].number = 0
    BY DEF EmptyRing, Frame
  <1>2. \A n \in Int : Slot(n) \in Slots
    BY SlotIs
  <1>3. Slot(0) = 0 /\ Generated = 0 /\ Copied = 0
    <2>1. 0 \in Slots /\ 0 = UPDATE_BACKUP * 0 + 0
      BY DEF Slots
    <2>2. Slot(0) = 0
      BY <2>1, SlotUnique
    <2> QED
      BY <2>2 DEF Init, Generated, Copied
  <1>4. TypeInv
    <2>1. packet \in [commands : Seq(Nat), delta : Int]
      BY DEF Init
    <2> QED
      BY <1>1, <1>3, <2>1 DEF Init, TypeInv
  <1>5. RingInv
    BY <1>1, <1>2, <1>3 DEF Init, RingInv, HoldsLast, AtLeast0
  <1>6. WaitInv /\ AckInv /\ PacketInv
    BY <1>3 DEF Init, WaitInv, AckInv, PacketInv, PacketHasLastThree, DeltaIsKept
  <1> QED
    BY <1>4, <1>5, <1>6 DEF IInv

\* The numbers the ring is counted with.
LEMMA Numbers ==
  ASSUME TypeInv
  PROVE  /\ lastsentframe \in Nat /\ framestosend \in Nat /\ framestocopy \in Nat
         /\ Generated = lastsentframe + framestosend /\ Generated \in Nat
         /\ Copied = Generated - framestocopy /\ Copied \in Nat
         /\ current_outgoing_sequence_number = lastsentframe + 1
  BY DEF TypeInv, Generated, Copied

\* NetQW_GenerateFrames, in whichever thread: the ring goes on holding the newest
\* frames, and gives the next packet no delta point but one the server keeps.
LEMMA GenerateKeeps ==
  ASSUME IInv, GenerateFrames
  PROVE  /\ due' \in Nat /\ frames' \in [Slots -> Frame]
         /\ framestosend' \in Nat /\ framestosend' >= framestosend
         /\ overrun' \in 0 .. Generated' /\ overrun' >= overrun
         /\ framestocopy' \in Nat /\ framestocopy' <= Generated'
         /\ Copied' = Copied /\ Generated' >= Generated
         /\ HoldsLast(frames', Generated')
         /\ \A n \in current_outgoing_sequence_number .. Generated' :
              n > overrun' =>
                IF n = current_outgoing_sequence_number
                THEN Kept(n, frames'[Slot(n)].delta_sequence)
                ELSE frames'[Slot(n)].delta_sequence = -1
         /\ UNCHANGED <<lastsentframe, current_outgoing_sequence_number,
                        lastcopiedframe, last_received_entity_update_frame>>
  <1> DEFINE cur == current_outgoing_sequence_number
  <1>1. PICK k \in 0 .. due :
          /\ due' = due - k
          /\ frames' = IF k = 0 THEN frames ELSE AfterGenerate(k)
          /\ framestosend' = framestosend + k
          /\ framestocopy' = framestocopy + k
          /\ overrun' = IF framestosend + k > UPDATE_BACKUP THEN Generated + k ELSE overrun
          /\ UNCHANGED <<lastsentframe, current_outgoing_sequence_number,
                         lastcopiedframe, last_received_entity_update_frame>>
    BY DEF GenerateFrames
  <1>2. /\ due \in Nat /\ frames \in [Slots -> Frame]
        /\ framestocopy <= Generated
        /\ last_received_entity_update_frame \in Int
        /\ last_received_entity_update_frame <= lastsentframe
        /\ HoldsLast(frames, Generated) /\ overrun \in 0 .. Generated
    BY DEF IInv, TypeInv, AckInv, RingInv
  <1>3. /\ lastsentframe \in Nat /\ framestosend \in Nat /\ framestocopy \in Nat
        /\ Generated = lastsentframe + framestosend /\ Generated \in Nat
        /\ cur = lastsentframe + 1 /\ k \in Nat
    BY <1>2, Numbers DEF IInv
  <1>4. Generated' = Generated + k /\ Copied' = Copied
    BY <1>1, <1>3 DEF Generated, Copied
  <1>5. /\ due' \in Nat /\ framestosend' \in Nat /\ framestosend' >= framestosend
        /\ overrun' \in 0 .. Generated' /\ overrun' >= overrun
        /\ framestocopy' \in Nat /\ framestocopy' <= Generated'
        /\ Generated' >= Generated
    BY <1>1, <1>2, <1>3, <1>4
  <1>6. CASE k = 0
    <2>1. frames' = frames /\ Generated' = Generated
      BY <1>1, <1>3, <1>4, <1>6
    <2>2. ASSUME NEW n \in cur .. Generated', n > overrun'
          PROVE  IF n = cur THEN Kept(n, frames'[Slot(n)].delta_sequence)
                 ELSE frames'[Slot(n)].delta_sequence = -1
      <3>1. n \in cur .. Generated /\ n > overrun
        BY <1>2, <1>3, <1>5, <2>1, <2>2
      <3> QED
        BY <2>1, <3>1 DEF IInv, PacketInv
    <2> QED
      BY <1>1, <1>2, <1>4, <1>5, <2>1, <2>2
  <1>7. CASE k # 0
    <2> DEFINE last == Generated + k
               N(s) == Newest(last, s)
               new(s) == IF N(s) >= Generated + 1
                         THEN [number |-> N(s), delta_sequence |-> -1] ELSE frames[s]
               given(s) == IF s = Slot(cur) /\ DeltaPoint # -1
                           THEN [new(s) EXCEPT !.delta_sequence = DeltaPoint] ELSE new(s)
    <2>1. last \in Nat /\ \A s \in Slots : N(s) \in Int /\ N(s) <= last
      BY <1>3, NewestIs
    <2>2. FirstSlot = Generated + 1 /\ FirstSlot + k - 1 = last
      BY <1>3 DEF FirstSlot
    <2>3. \A s \in Slots : Generated + 1 + (N(s) - FirstSlot) = N(s)
      BY <1>3, <2>1, <2>2
    <2>4. frames' = [s \in Slots |-> given(s)]
      BY <1>1, <1>7, <2>2, <2>3 DEF AfterGenerate
    <2>5. DeltaPoint \in Int
      BY <1>2 DEF DeltaPoint
    <2>6. \A s \in Slots : new(s) \in Frame
      BY <1>2, <1>3, <2>1 DEF Frame
    <2>7. \A s \in Slots :
            /\ given(s) \in Frame /\ given(s).number = new(s).number
            /\ given(s).delta_sequence = IF s = Slot(cur) /\ DeltaPoint # -1
                                         THEN DeltaPoint ELSE new(s).delta_sequence
      <3> SUFFICES ASSUME NEW s \in Slots
                   PROVE  /\ given(s) \in Frame /\ given(s).number = new(s).number
                          /\ given(s).delta_sequence =
                               IF s = Slot(cur) /\ DeltaPoint # -1
                               THEN DeltaPoint ELSE new(s).delta_sequence
        OBVIOUS
      <3>1. new(s) \in Frame
        BY <2>6
      <3> HIDE DEF new
      <3> QED
        BY <2>5, <3>1 DEF Frame
    <2> HIDE DEF given
    <2>8. frames' \in [Slots -> Frame]
      BY <2>4, <2>7
    \* What the slots of the newest frames hold.
    <2>9. ASSUME NEW m \in (last - UPDATE_BACKUP + 1) .. last
          PROVE  /\ Slot(m) \in Slots /\ N(Slot(m)) = m
                 /\ new(Slot(m)).number = AtLeast0(m)
                 /\ m >= Generated + 1 => new(Slot(m)).delta_sequence = -1
                 /\ m <= Generated => new(Slot(m)) = frames[Slot(m)]
      <3>1. m \in Int /\ Slot(m) \in Slots
        BY <2>1, SlotIs
      <3>2. N(Slot(m)) = m
        BY <2>1, NewestOfSlot
      <3>3. CASE m >= Generated + 1
        BY <1>3, <3>1, <3>2, <3>3 DEF AtLeast0
      <3>4. CASE m <= Generated
        <4>1. m \in (Generated - UPDATE_BACKUP + 1) .. Generated
          BY <1>3, <2>9, <3>1, <3>4
        <4>2. frames[Slot(m)].number = AtLeast0(m)
          BY <1>2, <4>1 DEF HoldsLast
        <4>3. ~(m >= Generated + 1)
          BY <1>3, <3>1, <3>4
        <4> QED
          BY <3>1, <3>2, <4>2, <4>3
      <3> QED
        BY <1>3, <3>1, <3>3, <3>4
    <2>10. HoldsLast(frames', Generated')
      BY <1>4, <2>4, <2>7, <2>9 DEF HoldsLast
    <2>11. ASSUME NEW n \in cur .. Generated', n > overrun'
           PROVE  IF n = cur THEN Kept(n, frames'[Slot(n)].delta_sequence)
                  ELSE frames'[Slot(n)].delta_sequence = -1
      <3>1. framestosend + k <= UPDATE_BACKUP /\ overrun' = overrun
        BY <1>1, <1>3, <1>4, <2>11
      <3>2. /\ n \in (last - UPDATE_BACKUP + 1) .. last /\ n \in Int
            /\ n - cur < UPDATE_BACKUP /\ cur - n < UPDATE_BACKUP
        BY <1>2, <1>3, <1>4, <2>11, <3>1
      <3>3. Slot(n) = Slot(cur) => n = cur
        BY <1>3, <3>2, SlotsDiffer
      <3>4. /\ Slot(n) \in Slots
            /\ n >= Generated + 1 => new(Slot(n)).delta_sequence = -1
            /\ n <= Generated => new(Slot(n)) = frames[Slot(n)]
        BY <2>9, <3>2
      <3>5. n <= Generated =>
              IF n = cur THEN Kept(n, frames[Slot(n)].delta_sequence)
              ELSE frames[Slot(n)].delta_sequence = -1
        <4> SUFFICES ASSUME n <= Generated
                     PROVE  IF n = cur THEN Kept(n, frames[Slot(n)].delta_sequence)
                            ELSE frames[Slot(n)].delta_sequence = -1
          OBVIOUS
        <4>1. n \in cur .. Generated /\ n > overrun
          BY <1>3, <2>11, <3>1, <3>2
        <4> QED
          BY <2>11, <4>1 DEF IInv, PacketInv
      <3>6. IF n = cur THEN Kept(n, new(Slot(n)).delta_sequence)
            ELSE new(Slot(n)).delta_sequence = -1
        <4>1. CASE n <= Generated
          BY <3>4, <3>5, <4>1
        <4>2. CASE n >= Generated + 1
          BY <3>4, <4>2 DEF Kept
        <4> QED
          BY <1>3, <3>2, <4>1, <4>2
      <3>7. Kept(cur, DeltaPoint)
        BY <1>2, <1>3 DEF DeltaPoint, Kept
      <3>8. frames'[Slot(n)].delta_sequence =
              IF Slot(n) = Slot(cur) /\ DeltaPoint # -1
              THEN DeltaPoint ELSE new(Slot(n)).delta_sequence
        BY <2>4, <2>7, <3>4
      <3> HIDE DEF new
      <3> QED
        BY <3>3, <3>6, <3>7, <3>8
    <2> QED
      BY <1>1, <1>4, <1>5, <2>8, <2>10, <2>11
  <1> QED
    BY <1>3, <1>6, <1>7

LEMMA TickInv == IInv /\ Tick => IInv'
  <1> SUFFICES ASSUME IInv, Tick PROVE IInv'
    OBVIOUS
  <1>1. /\ due' = due + 1 /\ due' \in Nat
        /\ UNCHANGED <<ringVars, countVars, copyVars, last_received_entity_update_frame,
                       netVars, clientVars>>
    BY DEF Tick, IInv, TypeInv
  <1> QED
    BY <1>1 DEF ringVars, countVars, copyVars, netVars, clientVars, IInv, TypeInv, RingInv,
         HoldsLast, Generated, Copied, WaitInv, AckInv, PacketInv, PacketHasLastThree,
         DeltaIsKept

\* The reset gives up time, never frames.
LEMMA ResetInv == IInv /\ (ResetTest \/ Reset) => IInv'
  <1> SUFFICES ASSUME IInv, ResetTest \/ Reset PROVE IInv'
    OBVIOUS
  <1>1. /\ due' \in {0, due}
        /\ net' \in {"reset", "generate"}
        /\ UNCHANGED <<ringVars, countVars, copyVars, last_received_entity_update_frame,
                       packet, clientVars>>
    BY DEF ResetTest, Reset
  <1> USE DEF ringVars, countVars, copyVars, clientVars
  <1>2. due' \in Nat /\ WaitInv'
    BY <1>1 DEF IInv, TypeInv, WaitInv
  <1> QED
    BY <1>1, <1>2 DEF IInv, TypeInv, RingInv, HoldsLast, Generated, Copied, AckInv,
         PacketInv, PacketHasLastThree, DeltaIsKept

LEMMA NetGenerateInv == IInv /\ NetGenerate => IInv'
  <1> SUFFICES ASSUME IInv, NetGenerate PROVE IInv'
    OBVIOUS
  <1>1. /\ GenerateFrames
        /\ net' = IF framestosend' > 0 THEN "build" ELSE "wait"
        /\ UNCHANGED <<packet, clientVars>>
    BY DEF NetGenerate, Place, SendMore
  <1> USE DEF clientVars
  <1>2. TypeInv'
    BY <1>1, GenerateKeeps DEF IInv, TypeInv
  <1>3. RingInv'
    BY <1>1, GenerateKeeps DEF IInv, RingInv, HoldsLast
  <1>4. WaitInv'
    BY <1>1 DEF WaitInv
  <1>5. AckInv'
    BY <1>1, GenerateKeeps DEF IInv, AckInv
  <1>6. PacketInv'
    BY <1>1, GenerateKeeps DEF PacketInv, PacketHasLastThree, DeltaIsKept, Kept
  <1> QED
    BY <1>2, <1>3, <1>4, <1>5, <1>6 DEF IInv

\* The three slots read are those of the last three frames.
LEMMA BuildInv == IInv /\ Build => IInv'
  <1> SUFFICES ASSUME IInv, Build PROVE IInv'
    OBVIOUS
  <1> DEFINE cur == current_outgoing_sequence_number
             commands == [i \in 1..3 |-> frames[Slot(cur - 3 + i)].number]
  <1>1. /\ net = "build" /\ net' = "delta"
        /\ packet' = [commands |-> commands, delta |-> -1]
        /\ UNCHANGED <<due, ringVars, countVars, copyVars,
                       last_received_entity_update_frame, clientVars>>
    BY DEF Build
  <1> USE DEF ringVars, countVars, copyVars, clientVars
  <1>2. /\ lastsentframe \in Nat /\ framestosend \in Nat
        /\ Generated = lastsentframe + framestosend /\ Generated \in Nat
        /\ cur = lastsentframe + 1
    BY Numbers DEF IInv
  <1>3. commands \in [1..3 -> Nat]
    <2>1. \A i \in 1..3 : Slot(cur - 3 + i) \in Slots
      BY <1>2, SlotIs
    <2> QED
      BY <2>1 DEF IInv, TypeInv, Frame
  <1>4. TypeInv'
    <2>1. commands \in Seq(Nat)
      BY <1>3
    <2> HIDE DEF commands
    <2> QED
      BY <1>1, <2>1 DEF IInv, TypeInv, Generated
  <1>5. RingInv' /\ WaitInv' /\ AckInv'
    BY <1>1 DEF IInv, RingInv, HoldsLast, Generated, Copied, WaitInv, AckInv
  <1>6. PacketInv'
    <2>1. framestosend > 0
      BY <1>1 DEF IInv, WaitInv
    <2>2. framestosend <= UPDATE_BACKUP - 2 => commands = [i \in 1..3 |-> AtLeast0(cur - 3 + i)]
      <3>1. ASSUME framestosend <= UPDATE_BACKUP - 2, NEW i \in 1..3
            PROVE  cur - 3 + i \in (Generated - UPDATE_BACKUP + 1) .. Generated
        BY <1>2, <2>1, <3>1
      <3> QED
        BY <3>1 DEF IInv, RingInv, HoldsLast
    <2>3. PacketHasLastThree'
      <3> HIDE DEF commands
      <3> QED
        BY <1>1, <2>2 DEF PacketHasLastThree
    <2> QED
      BY <1>1, <2>3 DEF IInv, PacketInv, Generated, DeltaIsKept
  <1> QED
    BY <1>4, <1>5, <1>6 DEF IInv

LEMMA AppendDeltaInv == IInv /\ AppendDelta => IInv'
  <1> SUFFICES ASSUME IInv, AppendDelta PROVE IInv'
    OBVIOUS
  <1> DEFINE cur == current_outgoing_sequence_number
             delta == frames[Slot(cur)].delta_sequence
  <1>1. /\ net = "delta" /\ net' = "commit"
        /\ packet' = [packet EXCEPT !.delta = delta]
        /\ UNCHANGED <<due, ringVars, countVars, copyVars,
                       last_received_entity_update_frame, clientVars>>
    BY DEF AppendDelta
  <1> USE DEF ringVars, countVars, copyVars, clientVars
  <1>2. /\ lastsentframe \in Nat /\ framestosend \in Nat
        /\ Generated = lastsentframe + framestosend /\ Generated \in Nat
        /\ cur = lastsentframe + 1 /\ cur \in Nat
    BY Numbers DEF IInv
  <1>3. delta \in Int
    <2>1. Slot(cur) \in Slots
      BY <1>2, SlotIs
    <2> QED
      BY <2>1 DEF IInv, TypeInv, Frame
  <1>4. cur \in cur .. Generated
    <2>1. framestosend > 0
      BY <1>1 DEF IInv, WaitInv
    <2> QED
      BY <1>2, <2>1
  <1>5. cur > overrun => Kept(cur, delta)
    BY <1>4 DEF IInv, PacketInv
  <1> HIDE DEF delta
  <1>6. /\ packet' \in [commands : Seq(Nat), delta : Int]
        /\ packet'.commands = packet.commands /\ packet'.delta = delta
    BY <1>1, <1>3 DEF IInv, TypeInv
  <1>7. TypeInv'
    BY <1>1, <1>6 DEF IInv, TypeInv, Generated
  <1>8. RingInv' /\ WaitInv' /\ AckInv'
    BY <1>1 DEF IInv, RingInv, HoldsLast, Generated, Copied, WaitInv, AckInv
  <1>9. PacketInv'
    <2>1. PacketHasLastThree'
      BY <1>1, <1>6 DEF IInv, PacketInv, PacketHasLastThree
    <2>2. DeltaIsKept'
      BY <1>1, <1>5, <1>6 DEF DeltaIsKept, Kept
    <2> QED
      BY <1>1, <2>1, <2>2 DEF IInv, PacketInv, Generated
  <1> QED
    BY <1>7, <1>8, <1>9 DEF IInv

LEMMA CommitInv == IInv /\ Commit => IInv'
  <1> SUFFICES ASSUME IInv, Commit PROVE IInv'
    OBVIOUS
  <1> DEFINE cur == current_outgoing_sequence_number
  <1>1. /\ net = "commit" /\ net' = IF framestosend' > 0 THEN "build" ELSE "wait"
        /\ lastsentframe' = lastsentframe + 1 /\ framestosend' = framestosend - 1
        /\ current_outgoing_sequence_number' = cur + 1
        /\ UNCHANGED <<due, ringVars, copyVars, last_received_entity_update_frame,
                       packet, clientVars>>
    BY DEF Commit, Place, SendMore
  <1> USE DEF ringVars, copyVars, clientVars
  <1>2. /\ lastsentframe \in Nat /\ framestosend \in Nat /\ framestocopy \in Nat
        /\ Generated = lastsentframe + framestosend /\ Generated \in Nat
        /\ cur = lastsentframe + 1 /\ framestosend > 0 /\ due \in Nat
    BY <1>1, Numbers DEF IInv, TypeInv, WaitInv
  <1>3. Generated' = Generated /\ Copied' = Copied
    BY <1>1, <1>2 DEF Generated, Copied
  <1>4. TypeInv'
    BY <1>1, <1>2, <1>3 DEF IInv, TypeInv
  <1>5. RingInv'
    BY <1>1, <1>3 DEF IInv, RingInv, HoldsLast
  <1>6. WaitInv'
    BY <1>1, <1>2 DEF WaitInv
  <1>7. AckInv'
    BY <1>1, <1>2, <1>3 DEF IInv, TypeInv, AckInv
  <1>8. PacketInv'
    <2>1. ASSUME NEW n \in (cur + 1) .. Generated, n > overrun
          PROVE  frames[Slot(n)].delta_sequence = -1
      <3>1. n \in cur .. Generated /\ n # cur
        BY <1>2
      <3> QED
        BY <2>1, <3>1 DEF IInv, PacketInv
    <2>2. PacketHasLastThree' /\ DeltaIsKept'
      BY <1>1 DEF PacketHasLastThree, DeltaIsKept
    <2> QED
      BY <1>1, <1>3, <2>1, <2>2 DEF PacketInv, Kept
  <1> QED
    BY <1>4, <1>5, <1>6, <1>7, <1>8 DEF IInv

LEMMA GetMessageInv == IInv /\ GetMessage => IInv'
  <1> SUFFICES ASSUME IInv, GetMessage PROVE IInv'
    OBVIOUS
  <1>1. PICK n \in 1 .. (current_outgoing_sequence_number - 1) : incoming_acknowledged' = n
    BY DEF GetMessage
  <1>2. /\ client' = "generate"
        /\ UNCHANGED <<due, ringVars, countVars, copyVars,
                       last_received_entity_update_frame, netVars, client_frames,
                       outgoing_sequence>>
    BY DEF GetMessage
  <1>3. incoming_acknowledged' \in Nat /\ incoming_acknowledged' <= lastsentframe
    BY <1>1, Numbers DEF IInv
  <1> QED
    BY <1>2, <1>3 DEF ringVars, countVars, copyVars, netVars, IInv, TypeInv, RingInv, HoldsLast,
         Generated, Copied, WaitInv, AckInv, PacketInv, PacketHasLastThree, DeltaIsKept

LEMMA ClientGenerateInv == IInv /\ ClientGenerate => IInv'
  <1> SUFFICES ASSUME IInv, ClientGenerate PROVE IInv'
    OBVIOUS
  <1>1. /\ GenerateFrames /\ client' = "copy"
        /\ UNCHANGED <<netVars, client_frames, outgoing_sequence, incoming_acknowledged>>
    BY DEF ClientGenerate
  <1> USE DEF netVars
  <1>2. TypeInv'
    BY <1>1, GenerateKeeps DEF IInv, TypeInv
  <1>3. RingInv'
    BY <1>1, GenerateKeeps DEF IInv, RingInv, HoldsLast
  <1>4. WaitInv'
    <2>1. framestosend' \in Nat /\ framestosend' >= framestosend /\ framestosend \in Nat
      BY <1>1, GenerateKeeps DEF IInv, TypeInv
    <2> QED
      BY <1>1, <2>1, GenerateKeeps DEF IInv, WaitInv
  <1>5. AckInv'
    BY <1>1, GenerateKeeps DEF IInv, AckInv
  <1>6. PacketInv'
    <2>1. /\ framestosend \in Nat /\ framestosend' \in Nat /\ framestosend' >= framestosend
          /\ overrun \in Nat /\ overrun' \in Nat /\ overrun' >= overrun
          /\ current_outgoing_sequence_number' = current_outgoing_sequence_number
          /\ current_outgoing_sequence_number \in Nat
      <3>1. /\ framestosend \in Nat /\ current_outgoing_sequence_number \in Nat
            /\ overrun \in 0 .. Generated
        BY Numbers DEF IInv, TypeInv
      <3>2. /\ framestosend' \in Nat /\ framestosend' >= framestosend
            /\ overrun' \in 0 .. Generated' /\ overrun' >= overrun
            /\ current_outgoing_sequence_number' = current_outgoing_sequence_number
        BY <1>1, GenerateKeeps
      <3> QED
        BY <3>1, <3>2
    <2>2. PacketHasLastThree'
      BY <1>1, <2>1 DEF IInv, PacketInv, PacketHasLastThree
    <2>3. DeltaIsKept'
      BY <1>1, <2>1 DEF IInv, PacketInv, DeltaIsKept
    <2> QED
      BY <1>1, <2>2, <2>3, GenerateKeeps DEF PacketInv
  <1> QED
    BY <1>2, <1>3, <1>4, <1>5, <1>6 DEF IInv

LEMMA CopyFramesInv == IInv /\ CopyFrames => IInv'
  <1> SUFFICES ASSUME IInv, CopyFrames PROVE IInv'
    OBVIOUS
  <1>1. /\ client_frames' = [s \in Slots |-> IF s \in CopiedSlots THEN frames[s]
                                             ELSE client_frames[s]]
        /\ lastcopiedframe' = Slot(lastcopiedframe + framestocopy)
        /\ framestocopy' = 0 /\ client' = "parse"
        /\ outgoing_sequence' = current_outgoing_sequence_number + framestosend
        /\ UNCHANGED <<due, ringVars, countVars, last_received_entity_update_frame,
                       netVars, incoming_acknowledged>>
    BY DEF CopyFrames
  <1> USE DEF ringVars, countVars, netVars
  <1>2. /\ lastsentframe \in Nat /\ framestosend \in Nat /\ framestocopy \in Nat
        /\ Generated = lastsentframe + framestosend /\ Generated \in Nat
        /\ Copied = Generated - framestocopy /\ Copied \in Nat
        /\ current_outgoing_sequence_number = lastsentframe + 1
    BY Numbers DEF IInv
  <1>3. Generated' = Generated /\ Copied' = Generated
    BY <1>1, <1>2 DEF Generated, Copied
  <1>4. client_frames' \in [Slots -> Frame]
    BY <1>1 DEF IInv, TypeInv
  <1>5. TypeInv'
    BY <1>1, <1>2, <1>3, <1>4 DEF IInv, TypeInv
  <1>6. lastcopiedframe' = Slot(Generated)
    <2>1. Slot(Slot(Copied) + framestocopy) = Slot(Copied + framestocopy)
      BY <1>2, SlotOfSlot
    <2>2. Copied + framestocopy = Generated
      BY <1>2
    <2> QED
      BY <1>1, <2>1, <2>2 DEF IInv, RingInv
  <1>7. HoldsLast(client_frames', Generated)
    <2> SUFFICES ASSUME NEW m \in (Generated - UPDATE_BACKUP + 1) .. Generated
                 PROVE  client_frames'[Slot(m)].number = AtLeast0(m)
      BY DEF HoldsLast
    <2>1. m \in Int /\ Slot(m) \in Slots /\ frames[Slot(m)].number = AtLeast0(m)
      BY <1>2, SlotIs DEF IInv, RingInv, HoldsLast
    <2>2. CASE m > Copied
      <3> DEFINE i == m - Copied
      <3>1. i \in 1 .. framestocopy /\ i \in Int /\ Copied + i = m
        BY <1>2, <2>1, <2>2
      <3>2. Slot(lastcopiedframe + i) = Slot(m)
        BY <1>2, <3>1, SlotOfSlot DEF IInv, RingInv
      <3>3. Slot(m) \in CopiedSlots
        BY <3>1, <3>2 DEF CopiedSlots
      <3> QED
        BY <1>1, <2>1, <3>3
    <2>3. CASE m <= Copied
      <3>1. m \in (Copied - UPDATE_BACKUP + 1) .. Copied
        BY <1>2, <2>1, <2>3
      <3>2. client_frames[Slot(m)].number = AtLeast0(m)
        BY <3>1 DEF IInv, RingInv, HoldsLast
      <3> QED
        BY <1>1, <2>1, <3>2
    <2> QED
      BY <1>2, <2>1, <2>2, <2>3
  <1>8. RingInv'
    BY <1>1, <1>3, <1>6, <1>7 DEF IInv, RingInv, HoldsLast
  <1>9. WaitInv'
    BY <1>1 DEF IInv, WaitInv
  <1>10. AckInv'
    BY <1>1, <1>2, <1>3 DEF IInv, TypeInv, AckInv
  <1>11. PacketInv'
    BY <1>1, <1>3 DEF IInv, PacketInv, PacketHasLastThree, DeltaIsKept
  <1> QED
    BY <1>5, <1>8, <1>9, <1>10, <1>11 DEF IInv

LEMMA ParseInv == IInv /\ Parse => IInv'
  <1> SUFFICES ASSUME IInv, Parse PROVE IInv'
    OBVIOUS
  <1>1. /\ client' = "read"
        /\ last_received_entity_update_frame' \in
             {last_received_entity_update_frame, incoming_acknowledged}
        /\ UNCHANGED <<due, ringVars, countVars, copyVars, netVars, client_frames,
                       outgoing_sequence, incoming_acknowledged>>
    BY DEF Parse, SetDeltaPoint
  <1> QED
    BY <1>1 DEF ringVars, countVars, copyVars, netVars, IInv, TypeInv, RingInv, HoldsLast,
         Generated, Copied, WaitInv, AckInv, PacketInv, PacketHasLastThree, DeltaIsKept

LEMMA NextInv == IInv /\ [Next]_vars => IInv'
  <1> SUFFICES ASSUME IInv, [Next]_vars PROVE IInv'
    OBVIOUS
  <1>1. CASE UNCHANGED vars
    BY <1>1 DEF vars, ringVars, countVars, copyVars, netVars, clientVars, IInv, TypeInv, RingInv,
         HoldsLast, Generated, Copied, WaitInv, AckInv, PacketInv, PacketHasLastThree,
         DeltaIsKept
  <1>2. CASE Next
    BY <1>2, TickInv, ResetInv, NetGenerateInv, BuildInv, AppendDeltaInv, CommitInv,
       GetMessageInv, ClientGenerateInv, CopyFramesInv, ParseInv
       DEF Next, NetThread, Client
  <1> QED
    BY <1>1, <1>2

-----------------------------------------------------------------------------
(* What the run checks, for every size of the ring. *)

\* Every reachable state satisfies the inductive invariant: where the two threads
\* leave the rings between any two of their steps.
THEOREM Invariance == Spec => []IInv
  BY InitInv, NextInv, PTL DEF Spec

\* The variables keep their types: no more frames are sent than were generated.
THEOREM TypeCorrect == Spec => []TypeOK
  <1>1. IInv => TypeOK
    <2> SUFFICES ASSUME IInv PROVE TypeOK
      OBVIOUS
    <2>1. lastcopiedframe \in Slots
      BY SlotIs, Numbers DEF IInv, RingInv
    <2> QED
      BY <2>1 DEF IInv, TypeInv, TypeOK
  <1> QED
    BY <1>1, Invariance, PTL

\* As long as no more frames wait than the ring has room for beside the two that are
\* repeated, each packet carries the commands of its own frame and of the two before
\* it, though the client's thread writes to the ring as the net thread reads it.
THEOREM PacketHasLastThreeAlways == Spec => []PacketHasLastThree
  <1>1. IInv => PacketHasLastThree
    BY DEF IInv, PacketInv
  <1> QED
    BY <1>1, Invariance, PTL

\* No packet asks for a delta from a frame the server has dropped, but for those of
\* frames generated up to an overrun of the ring.
THEOREM DeltaIsKeptAlways == Spec => []DeltaIsKept
  <1>1. IInv => DeltaIsKept
    BY DEF IInv, PacketInv
  <1> QED
    BY <1>1, Invariance, PTL

\* However late the frames are, the client finds the frame a message acknowledges in
\* its own ring, unless the message is a whole ring late.
THEOREM AcknowledgedFrameIsCopiedAlways == Spec => []AcknowledgedFrameIsCopied
  <1>1. IInv => AcknowledgedFrameIsCopied
    <2> SUFFICES ASSUME IInv, client = "parse",
                        outgoing_sequence - incoming_acknowledged <= UPDATE_BACKUP
                 PROVE  client_frames[Slot(incoming_acknowledged)].number =
                          incoming_acknowledged
      BY DEF AcknowledgedFrameIsCopied
    <2>1. /\ incoming_acknowledged \in Nat /\ incoming_acknowledged <= Copied
          /\ outgoing_sequence = Copied + 1 /\ Copied \in Nat
      BY Numbers DEF IInv, TypeInv, AckInv
    <2>2. incoming_acknowledged \in (Copied - UPDATE_BACKUP + 1) .. Copied
      BY <2>1
    <2> QED
      BY <2>1, <2>2 DEF IInv, RingInv, HoldsLast, AtLeast0
  <1> QED
    BY <1>1, Invariance, PTL

=============================================================================
