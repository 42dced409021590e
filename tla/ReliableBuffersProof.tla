------------------------ MODULE ReliableBuffersProof ------------------------
(***************************************************************************)
(* Proofs about ReliableBuffers, for any number of appending threads, any  *)
(* number of commands and packets of any size.                             *)
(***************************************************************************)
EXTENDS ReliableBuffers, Integers, FiniteSetTheorems, SequenceTheorems,
        WellFoundedInduction, TLAPS

USE BuffersAssumption

Locked == mutex # {}

\* The newest buffer that has been put in the list: until Link or First has placed
\* it, the buffer of the thread that holds the mutex is not.
Last == IF Locked /\ appender # "settail" THEN Newest - 1 ELSE Newest

TypeInv ==
  /\ next \in Seq(Nat) /\ Newest > 0 /\ (Locked => Newest > 1)
  /\ reliablebufferhead \in Nat /\ reliablebuffertail \in Nat
  /\ mutex \in {{}} \cup {{t} : t \in Appenders}
  /\ appender \in {"test", "link", "first", "settail"}
  /\ net \in {"loop", "take", "unlink", "free", "check", "clear"}
  /\ reliable_buffers_sent \in Nat /\ reliable_buffers_sent <= PacketRoom
  /\ reliablebuffer \in Nat /\ reliablebuffer <= Newest /\ i \in Nat /\ i <= PacketRoom
  /\ released \in Seq(Nat)
  /\ fault \in {"none", "null", "freed"}

\* Where next may lead, and the chain of the buffers listed.
ListInv ==
  /\ \A c \in 1 .. Newest : next[c] = 0 \/ (next[c] = c + 1 /\ c < Newest)
  /\ reliablebufferhead # 0 =>
       /\ reliablebufferhead <= Last /\ next[Last] = 0
       /\ \A c \in reliablebufferhead .. (Last - 1) : next[c] = c + 1
  /\ reliablebuffertail \in {0, IF Locked THEN Newest - 1 ELSE Newest}

\* What is released is older than what is listed.
ReleasedInv ==
  /\ \A a, b \in 1 .. Len(released) : a < b => released[a] < released[b]
  /\ \A a \in 1 .. Len(released) :
       /\ released[a] \in freed /\ released[a] > 0 /\ released[a] <= Last
       /\ reliablebufferhead # 0 => released[a] < reliablebufferhead
  /\ \A b \in freed : \E a \in 1 .. Len(released) : released[a] = b

\* The list holds at least n buffers.
AtLeast(n) == n > 0 => reliablebufferhead # 0 /\ reliablebufferhead + n <= Last + 1

\* The net thread in its release.
NetInv ==
  /\ net # "loop" => reliable_buffers_sent > 0
  /\ net \in {"take", "unlink", "free"} => i < reliable_buffers_sent
  /\ net = "loop" => AtLeast(reliable_buffers_sent)
  /\ net \in {"take", "unlink"} => AtLeast(reliable_buffers_sent - i)
  /\ net = "unlink" => reliablebuffer = reliablebufferhead
  /\ net = "free" =>
       /\ reliablebuffer > 0 /\ reliablebuffer <= Last
       /\ \A a \in 1 .. Len(released) : released[a] < reliablebuffer
       /\ reliablebufferhead # 0 => reliablebuffer < reliablebufferhead
       /\ AtLeast(reliable_buffers_sent - i - 1)
  /\ net = "clear" => reliablebufferhead = 0

\* The tail, as the appenders rely on it: while a batch is in flight the net thread
\* leaves it alone, and who found it null has the list for himself.
TailInv ==
  /\ reliable_buffers_sent > 0 => reliablebuffertail # 0
  /\ Locked /\ appender = "first" => reliablebufferhead = 0 /\ reliablebuffertail = 0
  /\ reliablebufferhead # 0 /\ ~(Locked /\ appender = "settail") => reliablebuffertail # 0

IInv == TypeInv /\ ListInv /\ ReleasedInv /\ NetInv /\ TailInv

-----------------------------------------------------------------------------
(* What is reached along next. *)

LEMMA LeastNatural ==
  ASSUME NEW T \in SUBSET Nat, T # {}
  PROVE  \E m \in T : \A k \in T : m <= k
  <1> DEFINE R == OpToRel(<, Nat)
  <1>1. IsWellFoundedOn(R, Nat)
    BY NatLessThanWellFounded
  <1>2. R = {p \in Nat \X Nat : p[1] < p[2]}
    BY DEF OpToRel
  <1> HIDE DEF R
  <1>3. PICK m \in T : \A k \in T : ~ (<<k, m>> \in R)
    BY <1>1, WFMin
  <1>4. ASSUME NEW k \in T PROVE m <= k
    <2>1. k \in Nat /\ m \in Nat /\ <<k, m>> \notin R
      BY <1>3
    <2>2. ~(k < m)
      BY <1>2, <2>1
    <2> QED
      BY <2>1, <2>2
  <1> QED
    BY <1>4

\* A chain of consecutive buffers that ends at n is all that is reached from its
\* first.
LEMMA ReachIs ==
  ASSUME NEW a \in Nat \ {0}, NEW n \in Nat, a <= n, n <= Newest,
         next \in Seq(Nat), \A c \in a .. (n - 1) : next[c] = c + 1, next[n] = 0
  PROVE  Reach(a) = a .. n
  <1>1. Newest \in Nat /\ Buffer = 1 .. Newest
    BY LenProperties DEF Newest, Buffer
  <1>2. ASSUME NEW c \in Reach(a) PROVE c \in a .. n
    <2>1. a .. n \in SUBSET Buffer /\ a \in a .. n
      BY <1>1
    <2>2. ASSUME NEW d \in a .. n, next[d] # 0 PROVE next[d] \in a .. n
      <3>1. d # n
        BY <2>2
      <3>2. d \in a .. (n - 1) /\ d + 1 \in a .. n
        BY <3>1
      <3> QED
        BY <3>2
    <2>3. Closed(a .. n)
      BY <2>2 DEF Closed
    <2> QED
      BY <2>1, <2>3 DEF Reach
  <1>3. ASSUME NEW c \in a .. n PROVE c \in Reach(a)
    <2> SUFFICES ASSUME NEW S \in SUBSET Buffer, Closed(S), a \in S
                 PROVE  c \in S
      BY <1>1 DEF Reach
    <2> DEFINE T == {k \in a .. n : k \notin S}
    <2> SUFFICES ASSUME T # {} PROVE FALSE
      BY <1>3
    <2>1. T \in SUBSET Nat
      OBVIOUS
    <2>2. PICK m \in T : \A k \in T : m <= k
      <3> HIDE DEF T
      <3> QED
        BY <2>1, LeastNatural
    <2>3. m \in a .. n /\ m \notin S /\ m # a
      BY <2>2
    <2>4. m - 1 \in a .. (n - 1) /\ m - 1 \in a .. n /\ ~(m <= m - 1) /\ (m - 1) + 1 = m
      BY <2>3
    <2>5. m - 1 \in S
      BY <2>2, <2>4
    <2>6. next[m - 1] = m
      BY <2>4
    <2>7. m \in S
      BY <2>3, <2>5, <2>6 DEF Closed
    <2> QED
      BY <2>3, <2>7
  <1> QED
    BY <1>2, <1>3

LEMMA ReachNull == Reach(0) = {}
  <1>1. {} \in SUBSET Buffer /\ Closed({})
    BY DEF Closed
  <1> QED
    BY <1>1 DEF Reach

LEMMA Numbers ==
  ASSUME TypeInv
  PROVE  /\ Newest \in Nat \ {0} /\ Last \in Nat \ {0} /\ Last <= Newest
         /\ Buffer = 1 .. Newest
         /\ \A c \in 1 .. Newest : next[c] \in Nat
         /\ next \in [1 .. Newest -> Nat]
  <1>1. Newest \in Nat /\ Buffer = 1 .. Newest /\ next \in [1 .. Newest -> Nat]
    BY LenProperties DEF TypeInv, Newest, Buffer
  <1>2. /\ Newest > 0 /\ (Locked => Newest > 1)
        /\ Last = IF Locked /\ appender # "settail" THEN Newest - 1 ELSE Newest
    BY DEF TypeInv, Last
  <1> QED
    BY <1>1, <1>2

\* What the net thread's walk finds: the listed buffers, without a gap.
LEMMA Listed ==
  ASSUME IInv
  PROVE  /\ reliablebufferhead = 0 => Reach(reliablebufferhead) = {}
         /\ reliablebufferhead # 0 =>
              /\ Reach(reliablebufferhead) = reliablebufferhead .. Last
              /\ Cardinality(Reach(reliablebufferhead)) = Last - reliablebufferhead + 1
  <1>1. ASSUME reliablebufferhead # 0
        PROVE  Reach(reliablebufferhead) = reliablebufferhead .. Last
    <2>1. /\ reliablebufferhead \in Nat \ {0} /\ reliablebufferhead <= Last
          /\ Last \in Nat /\ Last <= Newest /\ next \in Seq(Nat) /\ next[Last] = 0
          /\ \A c \in reliablebufferhead .. (Last - 1) : next[c] = c + 1
      BY <1>1, Numbers DEF IInv, TypeInv, ListInv
    <2> QED
      BY <2>1, ReachIs
  <1>2. ASSUME reliablebufferhead # 0
        PROVE  Cardinality(reliablebufferhead .. Last) = Last - reliablebufferhead + 1
    <2>1. /\ reliablebufferhead \in Int /\ Last \in Int /\ reliablebufferhead <= Last
      BY <1>2, Numbers DEF IInv, TypeInv, ListInv
    <2> QED
      BY <2>1, FS_Interval
  <1> QED
    BY <1>1, <1>2, ReachNull

-----------------------------------------------------------------------------
(* The invariant is kept. *)

LEMMA InitInv == Init => IInv
  <1> SUFFICES ASSUME Init PROVE IInv
    OBVIOUS
  <1>1. next = <<0>> /\ next \in Seq(Nat) /\ Len(next) = 1 /\ next[1] = 0
    BY DEF Init
  <1>2. Newest = 1 /\ Last = 1 /\ ~Locked
    BY <1>1 DEF Init, Newest, Last, Locked
  <1>3. << >> \in Seq(Nat) /\ Len(<< >>) = 0
    BY EmptySeq
  <1>4. TypeInv
    BY <1>1, <1>2, <1>3 DEF Init, TypeInv
  <1>5. ListInv /\ ReleasedInv
    BY <1>1, <1>2, <1>3 DEF Init, ListInv, ReleasedInv
  <1>6. NetInv /\ TailInv
    BY <1>2 DEF Init, NetInv, TailInv, AtLeast
  <1> QED
    BY <1>4, <1>5, <1>6 DEF IInv

\* Who holds the mutex when he takes a step.
LEMMA Held ==
  ASSUME NEW t, NEW place, AppenderAt(t, place)
  PROVE  Locked /\ appender = place /\ mutex = {t} /\ fault = "none"
  BY DEF AppenderAt, Locked

LEMMA LockInv == ASSUME IInv, NEW t \in Appenders, Lock(t) PROVE IInv'
  <1>1. /\ ~Locked /\ Locked' /\ mutex' = {t} /\ appender' = "test"
        /\ next' = Append(next, 0)
        /\ UNCHANGED <<freed, reliablebufferhead, reliablebuffertail, netVars, fault>>
    BY DEF Lock, Locked
  <1> USE DEF netVars
  <1>2. /\ Newest \in Nat \ {0} /\ Last = Newest
        /\ \A c \in 1 .. Newest : next[c] \in Nat
    BY <1>1, Numbers DEF IInv, Last
  <1>3. /\ next' \in Seq(Nat) /\ Newest' = Newest + 1 /\ next'[Newest + 1] = 0
        /\ \A c \in 1 .. Newest : next'[c] = next[c]
    BY <1>1, AppendProperties DEF IInv, TypeInv, Newest
  <1>4. Last' = Last
    BY <1>1, <1>2, <1>3 DEF Last
  <1>5. TypeInv'
    <2>1. mutex' \in {{}} \cup {{u} : u \in Appenders}
      BY <1>1
    <2> QED
      BY <1>1, <1>2, <1>3, <2>1 DEF IInv, TypeInv
  <1>6. ListInv'
    <2>1. ASSUME NEW c \in 1 .. Newest + 1
          PROVE  next'[c] = 0 \/ (next'[c] = c + 1 /\ c < Newest + 1)
      <3>1. CASE c = Newest + 1
        BY <1>3, <3>1
      <3>2. CASE c # Newest + 1
        <4>1. c \in 1 .. Newest
          BY <1>2, <3>2
        <4> QED
          BY <1>2, <1>3, <4>1 DEF IInv, ListInv
      <3> QED
        BY <3>1, <3>2
    <2>2. ASSUME reliablebufferhead # 0
          PROVE  /\ reliablebufferhead <= Last /\ next'[Last] = 0
                 /\ \A c \in reliablebufferhead .. (Last - 1) : next'[c] = c + 1
      <3>1. /\ reliablebufferhead \in Nat \ {0} /\ reliablebufferhead <= Last
            /\ next[Last] = 0
            /\ \A c \in reliablebufferhead .. (Last - 1) : next[c] = c + 1
        BY <2>2 DEF IInv, TypeInv, ListInv
      <3>2. /\ Last \in 1 .. Newest
            /\ \A c \in reliablebufferhead .. (Last - 1) : c \in 1 .. Newest
        BY <1>2, <3>1
      <3> QED
        BY <1>3, <3>1, <3>2
    <2>3. reliablebuffertail \in {0, Newest' - 1}
      BY <1>1, <1>2, <1>3 DEF IInv, ListInv
    <2> QED
      BY <1>1, <1>3, <1>4, <2>1, <2>2, <2>3 DEF ListInv
  <1>7. ReleasedInv'
    BY <1>1, <1>4 DEF IInv, ReleasedInv
  <1>8. NetInv'
    BY <1>1, <1>4 DEF IInv, NetInv, AtLeast
  <1>9. TailInv'
    BY <1>1 DEF IInv, TailInv
  <1> QED
    BY <1>5, <1>6, <1>7, <1>8, <1>9 DEF IInv

LEMMA TestTailInv == ASSUME IInv, NEW t \in Appenders, TestTail(t) PROVE IInv'
  <1>1. /\ Locked /\ appender = "test"
        /\ appender' = IF reliablebuffertail # 0 THEN "link" ELSE "first"
        /\ UNCHANGED <<listVars, mutex, netVars, fault>>
    BY Held DEF TestTail
  <1> USE DEF listVars, netVars
  <1>2. Locked' = Locked /\ Newest' = Newest /\ Last' = Last
    BY <1>1 DEF Locked, Newest, Last
  <1>3. TypeInv' /\ ListInv' /\ ReleasedInv' /\ NetInv'
    BY <1>1, <1>2 DEF IInv, TypeInv, ListInv, ReleasedInv, NetInv, AtLeast
  <1>4. TailInv'
    BY <1>1, <1>2 DEF IInv, TailInv
  <1> QED
    BY <1>3, <1>4 DEF IInv

\* The buffer linked is the newest, behind the one before it; if the release has
\* taken that one in the meantime, the list stays as it is.
LEMMA LinkInv == ASSUME IInv, NEW t \in Appenders, Link(t) PROVE IInv'
  <1>1. /\ Locked /\ appender = "link"
        /\ UNCHANGED <<freed, reliablebufferhead, reliablebuffertail, mutex, netVars>>
    BY Held DEF Link
  <1> USE DEF netVars
  <1>2. Locked' = Locked
    BY <1>1 DEF Locked
  <1>3. CASE UNCHANGED <<next, appender>>
    <2>1. fault' \in {"none", "null", "freed"}
      BY DEF Link, IInv, TypeInv
    <2>2. Newest' = Newest /\ Last' = Last
      BY <1>1, <1>2, <1>3 DEF Newest, Last
    <2> QED
      BY <1>1, <1>2, <1>3, <2>1, <2>2
         DEF IInv, TypeInv, ListInv, ReleasedInv, NetInv, AtLeast, TailInv
  <1>4. CASE /\ reliablebuffertail # 0
             /\ next' = [next EXCEPT ![reliablebuffertail] = Newest]
             /\ appender' = "settail" /\ UNCHANGED fault
    <2>1. /\ Newest \in Nat /\ Newest > 1 /\ Last = Newest - 1
          /\ reliablebuffertail = Last
      BY <1>1, <1>4, Numbers DEF IInv, TypeInv, ListInv, Last
    <2>2. /\ next' \in Seq(Nat) /\ Len(next') = Len(next)
          /\ \A c \in 1 .. Len(next) : next'[c] = IF c = Last THEN Newest ELSE next[c]
      <3>1. next \in Seq(Nat) /\ Last \in 1 .. Len(next)
        BY <2>1 DEF IInv, TypeInv, Newest
      <3> QED
        BY <1>4, <2>1, <3>1, ExceptSeq
    <2>3. Newest' = Newest /\ Last' = Newest
      BY <1>4, <2>2 DEF Newest, Last
    <2>4. TypeInv'
      BY <1>1, <1>2, <1>4, <2>2, <2>3 DEF IInv, TypeInv
    <2>5. next[Newest] = 0
      <3>1. Newest \in 1 .. Newest
        BY <2>1
      <3> QED
        BY <2>1, <3>1 DEF IInv, ListInv
    <2>6. ASSUME NEW c \in 1 .. Newest
          PROVE  next'[c] = 0 \/ (next'[c] = c + 1 /\ c < Newest)
      <3>1. CASE c = Last
        BY <2>1, <2>2, <3>1 DEF Newest
      <3>2. CASE c # Last
        BY <2>2, <3>2 DEF IInv, ListInv, Newest
      <3> QED
        BY <3>1, <3>2
    <2>7. ASSUME reliablebufferhead # 0
          PROVE  /\ reliablebufferhead <= Newest /\ next'[Newest] = 0
                 /\ \A c \in reliablebufferhead .. (Newest - 1) : next'[c] = c + 1
      <3>1. /\ reliablebufferhead \in Nat \ {0} /\ reliablebufferhead <= Last
            /\ \A c \in reliablebufferhead .. (Last - 1) : next[c] = c + 1
        BY <2>7 DEF IInv, TypeInv, ListInv
      <3>2. next'[Newest] = 0
        <4>1. Newest \in 1 .. Len(next) /\ Newest # Last
          BY <2>1 DEF Newest
        <4> QED
          BY <2>2, <2>5, <4>1
      <3>3. ASSUME NEW c \in reliablebufferhead .. (Newest - 1) PROVE next'[c] = c + 1
        <4>1. c \in 1 .. Len(next)
          BY <2>1, <3>1 DEF Newest
        <4>2. CASE c = Last
          BY <2>1, <2>2, <4>1, <4>2
        <4>3. CASE c # Last
          <5>1. c \in reliablebufferhead .. (Last - 1)
            BY <2>1, <3>1, <4>3
          <5> QED
            BY <2>2, <3>1, <4>1, <4>3, <5>1
        <4> QED
          BY <4>2, <4>3
      <3> QED
        BY <2>1, <3>1, <3>2, <3>3
    <2>8. ListInv'
      BY <1>1, <1>2, <2>3, <2>6, <2>7 DEF IInv, ListInv
    <2>9. ReleasedInv'
      <3>1. \A a \in 1 .. Len(released) : released[a] \in Nat
        BY ElementOfSeq DEF IInv, TypeInv
      <3>2. \A a \in 1 .. Len(released) : released[a] <= Newest
        BY <2>1, <3>1 DEF IInv, ReleasedInv
      <3> QED
        BY <1>1, <2>3, <3>2 DEF IInv, ReleasedInv
    <2>10. NetInv'
      <3>1. reliablebuffer <= Last => reliablebuffer <= Newest
        BY <2>1 DEF IInv, TypeInv
      <3>2. /\ reliable_buffers_sent \in Int /\ reliable_buffers_sent - i \in Int
            /\ reliable_buffers_sent - i - 1 \in Int
        BY DEF IInv, TypeInv
      <3>3. /\ AtLeast(reliable_buffers_sent) => AtLeast(reliable_buffers_sent)'
            /\ AtLeast(reliable_buffers_sent - i) => AtLeast(reliable_buffers_sent - i)'
            /\ AtLeast(reliable_buffers_sent - i - 1) =>
                 AtLeast(reliable_buffers_sent - i - 1)'
        BY <1>1, <2>1, <2>3, <3>2 DEF AtLeast, IInv, TypeInv
      <3> QED
        BY <1>1, <2>3, <3>1, <3>3 DEF IInv, NetInv
    <2>11. TailInv'
      BY <1>1, <1>4 DEF IInv, TailInv
    <2> QED
      BY <2>4, <2>8, <2>9, <2>10, <2>11 DEF IInv
  <1> QED
    BY <1>3, <1>4 DEF Link

\* Who finds no tail is alone: nothing is listed and nothing is in flight.
LEMMA FirstInv == ASSUME IInv, NEW t \in Appenders, First(t) PROVE IInv'
  <1>1. /\ Locked /\ appender = "first" /\ appender' = "settail"
        /\ reliablebufferhead' = Newest
        /\ UNCHANGED <<next, freed, reliablebuffertail, mutex, netVars, fault>>
    BY Held DEF First
  <1> USE DEF netVars
  <1>2. /\ reliablebuffertail = 0 /\ reliable_buffers_sent = 0 /\ net = "loop"
    BY <1>1 DEF IInv, TypeInv, NetInv, TailInv
  <1>3. /\ Locked' /\ Newest' = Newest /\ Newest \in Nat /\ Newest > 1
        /\ Last = Newest - 1 /\ Last' = Newest
    BY <1>1, Numbers DEF IInv, TypeInv, Locked, Newest, Last
  <1>4. TypeInv'
    BY <1>1, <1>3 DEF IInv, TypeInv
  <1>5. ListInv'
    <2>1. next[Newest] = 0
      <3>1. Newest \in 1 .. Newest
        BY <1>3
      <3> QED
        BY <1>3, <3>1 DEF IInv, ListInv
    <2>2. Newest .. (Newest - 1) = {}
      BY <1>3
    <2> QED
      BY <1>1, <1>3, <2>1, <2>2 DEF IInv, ListInv
  <1>6. ReleasedInv'
    <2>1. \A a \in 1 .. Len(released) : released[a] \in Nat
      BY ElementOfSeq DEF IInv, TypeInv
    <2>2. \A a \in 1 .. Len(released) : released[a] <= Newest /\ released[a] < Newest
      BY <1>3, <2>1 DEF IInv, ReleasedInv
    <2> QED
      BY <1>1, <1>3, <2>2 DEF IInv, ReleasedInv
  <1>7. NetInv' /\ TailInv'
    BY <1>1, <1>2, <1>3 DEF NetInv, TailInv, AtLeast
  <1> QED
    BY <1>4, <1>5, <1>6, <1>7 DEF IInv

LEMMA SetTailInv == ASSUME IInv, NEW t \in Appenders, SetTail(t) PROVE IInv'
  <1>1. /\ Locked /\ appender = "settail" /\ ~Locked' /\ mutex' = {}
        /\ reliablebuffertail' = Newest
        /\ UNCHANGED <<next, freed, reliablebufferhead, appender, netVars, fault>>
    BY Held DEF SetTail, Locked
  <1> USE DEF netVars
  <1>2. Newest' = Newest /\ Newest \in Nat \ {0} /\ Last' = Last
    BY <1>1, Numbers DEF IInv, Newest, Last
  <1>3. TypeInv' /\ ListInv'
    BY <1>1, <1>2 DEF IInv, TypeInv, ListInv
  <1>4. ReleasedInv' /\ NetInv' /\ TailInv'
    BY <1>1, <1>2 DEF IInv, ReleasedInv, NetInv, AtLeast, TailInv
  <1> QED
    BY <1>3, <1>4 DEF IInv

\* What the net thread leaves alone.
LEMMA NetKeeps ==
  ASSUME UNCHANGED <<next, appendVars>>
  PROVE  UNCHANGED <<next, mutex, appender, Locked, Newest, Last>>
  BY DEF appendVars, Locked, Newest, Last

LEMMA SendInv == ASSUME IInv, Send PROVE IInv'
  <1>1. /\ net = "loop" /\ ~Locked
        /\ UNCHANGED <<listVars, appendVars, net, reliablebuffer, i, released, fault>>
    BY DEF Send, NetAt, Locked
  <1> USE DEF listVars
  <1>2. PICK j \in 1 .. PacketRoom :
          /\ j <= Cardinality(Reach(reliablebufferhead))
          /\ reliable_buffers_sent' = j
    BY DEF Send
  <1>3. UNCHANGED <<next, mutex, appender, Locked, Newest, Last>>
    BY <1>1, NetKeeps
  <1>4. reliablebufferhead # 0 /\ reliablebufferhead + j <= Last + 1
    <2>1. reliablebufferhead # 0
      BY <1>2, Listed, FS_EmptySet
    <2>2. j <= Last - reliablebufferhead + 1
      BY <1>2, <2>1, Listed
    <2>3. Last \in Nat /\ reliablebufferhead \in Nat
      BY Numbers DEF IInv, TypeInv
    <2> QED
      BY <2>1, <2>2, <2>3
  <1>5. TypeInv'
    BY <1>1, <1>2, <1>3 DEF IInv, TypeInv
  <1>6. ListInv' /\ ReleasedInv'
    BY <1>1, <1>3 DEF IInv, ListInv, ReleasedInv
  <1>7. NetInv'
    BY <1>1, <1>2, <1>3, <1>4 DEF NetInv, AtLeast
  <1>8. TailInv'
    BY <1>1, <1>3, <1>4 DEF IInv, TailInv
  <1> QED
    BY <1>5, <1>6, <1>7, <1>8 DEF IInv

LEMMA NotSeenInv == ASSUME IInv, NotSeen PROVE IInv'
  <1>1. /\ net = "loop" /\ reliable_buffers_sent' = 0
        /\ UNCHANGED <<listVars, appendVars, net, reliablebuffer, i, released, fault>>
    BY DEF NotSeen, NetAt
  <1> USE DEF listVars
  <1>2. UNCHANGED <<next, mutex, appender, Locked, Newest, Last>>
    BY <1>1, NetKeeps
  <1>3. TypeInv' /\ ListInv' /\ ReleasedInv'
    BY <1>1, <1>2 DEF IInv, TypeInv, ListInv, ReleasedInv
  <1>4. NetInv' /\ TailInv'
    BY <1>1, <1>2 DEF IInv, NetInv, TailInv, AtLeast
  <1> QED
    BY <1>3, <1>4 DEF IInv

LEMMA SeenInv == ASSUME IInv, Seen PROVE IInv'
  <1>1. /\ net = "loop" /\ reliable_buffers_sent > 0 /\ net' = "take" /\ i' = 0
        /\ UNCHANGED <<listVars, appendVars, reliable_buffers_sent, reliablebuffer,
                       released, fault>>
    BY DEF Seen, NetAt
  <1> USE DEF listVars
  <1>2. UNCHANGED <<next, mutex, appender, Locked, Newest, Last>>
    BY <1>1, NetKeeps
  <1>3. TypeInv' /\ ListInv' /\ ReleasedInv'
    BY <1>1, <1>2 DEF IInv, TypeInv, ListInv, ReleasedInv
  <1>4. NetInv'
    <2>1. reliable_buffers_sent \in Nat /\ reliable_buffers_sent - 0 = reliable_buffers_sent
      BY DEF IInv, TypeInv
    <2>2. AtLeast(reliable_buffers_sent)
      BY <1>1 DEF IInv, NetInv
    <2>3. AtLeast(reliable_buffers_sent - i)'
      BY <1>1, <1>2, <2>1, <2>2 DEF AtLeast
    <2> QED
      BY <1>1, <2>3 DEF NetInv
  <1>5. TailInv'
    BY <1>1, <1>2 DEF IInv, TailInv
  <1> QED
    BY <1>3, <1>4, <1>5 DEF IInv

LEMMA TakeInv == ASSUME IInv, Take PROVE IInv'
  <1>1. /\ net = "take" /\ net' = "unlink" /\ reliablebuffer' = reliablebufferhead
        /\ UNCHANGED <<listVars, appendVars, reliable_buffers_sent, i, released, fault>>
    BY DEF Take, NetAt
  <1> USE DEF listVars
  <1>2. UNCHANGED <<next, mutex, appender, Locked, Newest, Last>>
    BY <1>1, NetKeeps
  <1>3. reliablebufferhead <= Newest
    BY Numbers DEF IInv, TypeInv, ListInv
  <1>4. TypeInv'
    BY <1>1, <1>2, <1>3 DEF IInv, TypeInv, NetInv
  <1>5. ListInv' /\ ReleasedInv'
    BY <1>1, <1>2 DEF IInv, ListInv, ReleasedInv
  <1>6. NetInv' /\ TailInv'
    BY <1>1, <1>2 DEF IInv, NetInv, TailInv, AtLeast
  <1> QED
    BY <1>4, <1>5, <1>6 DEF IInv

\* The head moves one buffer on, or off the end; the buffer taken out is the
\* oldest of those left.
LEMMA UnlinkInv == ASSUME IInv, Unlink PROVE IInv'
  <1>1. /\ net = "unlink" /\ net' = "free" /\ reliablebufferhead' = next[reliablebuffer]
        /\ UNCHANGED <<next, freed, reliablebuffertail, appendVars,
                       reliable_buffers_sent, reliablebuffer, i, released, fault>>
    BY DEF Unlink, NetAt, NextHead
  <1>2. UNCHANGED <<next, mutex, appender, Locked, Newest, Last>>
    BY <1>1, NetKeeps
  <1>3. /\ reliable_buffers_sent > 0 /\ i < reliable_buffers_sent
        /\ AtLeast(reliable_buffers_sent - i)
        /\ reliablebuffer = reliablebufferhead
    BY <1>1 DEF IInv, NetInv
  <1>4. reliable_buffers_sent \in Nat /\ i \in Nat /\ reliablebufferhead \in Nat
    BY DEF IInv, TypeInv
  <1>5. /\ reliablebufferhead # 0
        /\ reliablebufferhead + (reliable_buffers_sent - i) <= Last + 1
    BY <1>3, <1>4 DEF AtLeast
  <1>6. /\ Last \in Nat \ {0} /\ Newest \in Nat /\ Last <= Newest
        /\ reliablebufferhead <= Last /\ next[Last] = 0
        /\ \A c \in reliablebufferhead .. (Last - 1) : next[c] = c + 1
    BY <1>5, Numbers DEF IInv, ListInv
  <1> DEFINE head == reliablebufferhead
  <1>7. \/ head = Last /\ reliablebufferhead' = 0
        \/ head < Last /\ reliablebufferhead' = head + 1
    <2>1. CASE head = Last
      BY <1>1, <1>3, <1>6, <2>1
    <2>2. CASE head < Last
      <3>1. head \in head .. (Last - 1)
        BY <1>4, <1>6, <2>2
      <3> QED
        BY <1>1, <1>3, <1>6, <2>2, <3>1
    <2> QED
      BY <1>4, <1>6, <2>1, <2>2
  <1>8. reliablebufferhead' \in Nat
    BY <1>4, <1>7
  <1>9. TypeInv'
    BY <1>1, <1>2, <1>3, <1>8 DEF IInv, TypeInv
  <1>10. ListInv'
    <2>1. ASSUME reliablebufferhead' # 0
          PROVE  /\ reliablebufferhead' <= Last
                 /\ \A c \in reliablebufferhead' .. (Last - 1) : next[c] = c + 1
      <3>1. reliablebufferhead' = head + 1 /\ head < Last
        BY <1>7, <2>1
      <3>2. head + 1 <= Last /\ \A c \in (head + 1) .. (Last - 1) : c \in head .. (Last - 1)
        BY <1>4, <1>6, <3>1
      <3>3. \A c \in (head + 1) .. (Last - 1) : next[c] = c + 1
        BY <1>6, <3>2
      <3> QED
        BY <3>1, <3>2, <3>3
    <2>2. reliablebufferhead' # 0 =>
            /\ reliablebufferhead' <= Last' /\ next'[Last'] = 0
            /\ \A c \in reliablebufferhead' .. (Last' - 1) : next'[c] = c + 1
      BY <1>2, <1>6, <2>1
    <2> QED
      BY <1>1, <1>2, <2>2 DEF IInv, ListInv
  <1>11. ReleasedInv'
    <2>1. \A a \in 1 .. Len(released) : released[a] \in Nat
      BY ElementOfSeq DEF IInv, TypeInv
    <2>2. \A a \in 1 .. Len(released) : released[a] < head
      BY <1>5 DEF IInv, ReleasedInv
    <2>3. reliablebufferhead' # 0 =>
            \A a \in 1 .. Len(released) : released[a] < reliablebufferhead'
      <3>1. \A a \in 1 .. Len(released) : released[a] < head + 1
        BY <1>4, <2>1, <2>2
      <3> QED
        BY <1>7, <3>1
    <2> QED
      BY <1>1, <1>2, <2>3 DEF IInv, ReleasedInv
  <1>12. NetInv'
    <2>1. \A a \in 1 .. Len(released) : released[a] < reliablebuffer
      BY <1>3, <1>5 DEF IInv, ReleasedInv
    <2>2. reliablebuffer > 0 /\ reliablebuffer <= Last
      BY <1>3, <1>4, <1>5, <1>6
    <2>3. reliablebufferhead' # 0 => reliablebuffer < reliablebufferhead'
      <3>1. head < head + 1
        BY <1>4
      <3> QED
        BY <1>3, <1>7, <3>1
    <2>4. reliable_buffers_sent - i - 1 > 0 =>
            reliablebufferhead' # 0 /\ reliablebufferhead' + (reliable_buffers_sent - i - 1) <= Last + 1
      <3>1. CASE reliablebufferhead' = head + 1
        <4>1. /\ head + 1 # 0
              /\ (head + 1) + (reliable_buffers_sent - i - 1) <= Last + 1
          BY <1>4, <1>5, <1>6
        <4> QED
          BY <3>1, <4>1
      <3>2. CASE head = Last
        BY <1>4, <1>5, <1>6, <3>2
      <3> QED
        BY <1>7, <3>1, <3>2
    <2>5. AtLeast(reliable_buffers_sent - i - 1)'
      BY <1>1, <1>2, <2>4 DEF AtLeast
    <2> QED
      BY <1>1, <1>2, <1>3, <2>1, <2>2, <2>3, <2>5 DEF NetInv
  <1>13. TailInv'
    BY <1>1, <1>2, <1>3, <1>5 DEF IInv, TailInv
  <1> QED
    BY <1>9, <1>10, <1>11, <1>12, <1>13 DEF IInv

LEMMA FreeInv == ASSUME IInv, Free PROVE IInv'
  <1>1. /\ net = "free" /\ freed' = freed \cup {reliablebuffer}
        /\ released' = Append(released, reliablebuffer) /\ i' = i + 1
        /\ net' = IF i + 1 < reliable_buffers_sent THEN "take" ELSE "check"
        /\ UNCHANGED <<next, reliablebufferhead, reliablebuffertail, appendVars,
                       reliable_buffers_sent, reliablebuffer, fault>>
    BY DEF Free, NetAt, MoreToRelease
  <1>2. UNCHANGED <<next, mutex, appender, Locked, Newest, Last>>
    BY <1>1, NetKeeps
  <1>3. /\ reliable_buffers_sent > 0 /\ i < reliable_buffers_sent
        /\ AtLeast(reliable_buffers_sent - i - 1)
        /\ reliablebuffer > 0 /\ reliablebuffer <= Last
        /\ \A a \in 1 .. Len(released) : released[a] < reliablebuffer
        /\ reliablebufferhead # 0 => reliablebuffer < reliablebufferhead
    BY <1>1 DEF IInv, NetInv
  <1>4. /\ reliable_buffers_sent \in Nat /\ reliable_buffers_sent <= PacketRoom
        /\ i \in Nat /\ reliablebuffer \in Nat /\ released \in Seq(Nat)
    BY DEF IInv, TypeInv
  <1>5. /\ released' \in Seq(Nat) /\ Len(released) \in Nat
        /\ Len(released') = Len(released) + 1
        /\ \A a \in 1 .. Len(released) : released'[a] = released[a]
        /\ released'[Len(released) + 1] = reliablebuffer
    BY <1>1, <1>4, AppendProperties, LenProperties
  <1> DEFINE n == Len(released)
  <1>6. TypeInv'
    <2>1. i + 1 \in Nat /\ i + 1 <= PacketRoom
      BY <1>3, <1>4
    <2> QED
      BY <1>1, <1>2, <1>5, <2>1 DEF IInv, TypeInv
  <1>7. ListInv'
    BY <1>1, <1>2 DEF IInv, ListInv
  <1>8. ReleasedInv'
    <2>1. \A a, b \in 1 .. n + 1 : a < b => released'[a] < released'[b]
      <3> SUFFICES ASSUME NEW a \in 1 .. n + 1, NEW b \in 1 .. n + 1, a < b
                   PROVE  released'[a] < released'[b]
        OBVIOUS
      <3>1. a \in 1 .. n /\ (b = n + 1 \/ b \in 1 .. n)
        BY <1>5
      <3>2. CASE b = n + 1
        BY <1>3, <1>5, <3>1, <3>2
      <3>3. CASE b \in 1 .. n
        BY <1>5, <3>1, <3>3 DEF IInv, ReleasedInv
      <3> QED
        BY <3>1, <3>2, <3>3
    <2>2. \A a \in 1 .. n + 1 :
            /\ released'[a] \in freed' /\ released'[a] > 0 /\ released'[a] <= Last
            /\ reliablebufferhead # 0 => released'[a] < reliablebufferhead
      <3> SUFFICES ASSUME NEW a \in 1 .. n + 1
                   PROVE  /\ released'[a] \in freed' /\ released'[a] > 0
                          /\ released'[a] <= Last
                          /\ reliablebufferhead # 0 => released'[a] < reliablebufferhead
        OBVIOUS
      <3>1. CASE a = n + 1
        BY <1>1, <1>3, <1>5, <3>1
      <3>2. CASE a \in 1 .. n
        BY <1>1, <1>5, <3>2 DEF IInv, ReleasedInv
      <3> QED
        BY <1>5, <3>1, <3>2
    <2>3. \A b \in freed' : \E a \in 1 .. n + 1 : released'[a] = b
      <3> SUFFICES ASSUME NEW b \in freed' PROVE \E a \in 1 .. n + 1 : released'[a] = b
        OBVIOUS
      <3>1. CASE b = reliablebuffer
        <4>1. n + 1 \in 1 .. n + 1
          BY <1>5
        <4> QED
          BY <1>5, <3>1, <4>1
      <3>2. CASE b \in freed
        <4>1. PICK a \in 1 .. n : released[a] = b
          BY <3>2 DEF IInv, ReleasedInv
        <4>2. a \in 1 .. n + 1 /\ released'[a] = b
          BY <1>5, <4>1
        <4> QED
          BY <4>2
      <3> QED
        BY <1>1, <3>1, <3>2
    <2> QED
      BY <1>1, <1>2, <1>5, <2>1, <2>2, <2>3 DEF ReleasedInv
  <1>9. NetInv'
    <2>1. reliable_buffers_sent - (i + 1) = reliable_buffers_sent - i - 1
      BY <1>4
    <2>2. AtLeast(reliable_buffers_sent - i)'
      BY <1>1, <1>2, <1>3, <2>1 DEF AtLeast
    <2> QED
      BY <1>1, <1>2, <1>3, <2>2 DEF NetInv
  <1>10. TailInv'
    BY <1>1, <1>2 DEF IInv, TailInv
  <1> QED
    BY <1>6, <1>7, <1>8, <1>9, <1>10 DEF IInv

LEMMA CheckInv == ASSUME IInv, Check PROVE IInv'
  <1>1. /\ net = "check"
        /\ net' = IF reliablebufferhead = 0 THEN "clear" ELSE "loop"
        /\ reliable_buffers_sent' =
             IF reliablebufferhead = 0 THEN reliable_buffers_sent ELSE 0
        /\ UNCHANGED <<listVars, appendVars, reliablebuffer, i, released, fault>>
    BY DEF Check, NetAt, ListEmpty
  <1> USE DEF listVars
  <1>2. UNCHANGED <<next, mutex, appender, Locked, Newest, Last>>
    BY <1>1, NetKeeps
  <1>3. TypeInv' /\ ListInv' /\ ReleasedInv'
    BY <1>1, <1>2 DEF IInv, TypeInv, ListInv, ReleasedInv
  <1>4. NetInv' /\ TailInv'
    BY <1>1, <1>2 DEF IInv, NetInv, TailInv, AtLeast
  <1> QED
    BY <1>3, <1>4 DEF IInv

\* The tail is cleared only with the list empty, though a buffer may have been linked
\* behind a freed one since: see the run MCReliableBuffersLost.
LEMMA ClearInv == ASSUME IInv, Clear PROVE IInv'
  <1>1. /\ net = "clear" /\ net' = "loop"
        /\ reliablebuffertail' = 0 /\ reliable_buffers_sent' = 0
        /\ UNCHANGED <<next, freed, reliablebufferhead, appendVars, reliablebuffer, i,
                       released, fault>>
    BY DEF Clear, NetAt
  <1>2. UNCHANGED <<next, mutex, appender, Locked, Newest, Last>>
    BY <1>1, NetKeeps
  <1>3. reliablebufferhead = 0
    BY <1>1 DEF IInv, NetInv
  <1>4. TypeInv' /\ ListInv' /\ ReleasedInv'
    BY <1>1, <1>2 DEF IInv, TypeInv, ListInv, ReleasedInv
  <1>5. NetInv' /\ TailInv'
    BY <1>1, <1>2, <1>3 DEF NetInv, TailInv, AtLeast
  <1> QED
    BY <1>4, <1>5 DEF IInv

LEMMA NextInv == ASSUME IInv, [Next]_vars PROVE IInv'
  <1>1. ASSUME NEW t \in Appenders, AppendReliableBuffer(t) PROVE IInv'
    BY <1>1, LockInv, TestTailInv, LinkInv, FirstInv, SetTailInv
       DEF AppendReliableBuffer
  <1>2. CASE Send \/ NotSeen \/ Seen
    BY <1>2, SendInv, NotSeenInv, SeenInv
  <1>3. CASE Release
    BY <1>3, TakeInv, UnlinkInv, FreeInv, CheckInv, ClearInv DEF Release
  <1>4. CASE UNCHANGED vars
    <2>1. /\ UNCHANGED <<next, freed, reliablebufferhead, reliablebuffertail>>
          /\ UNCHANGED <<net, reliable_buffers_sent, reliablebuffer, i, released, fault>>
          /\ UNCHANGED <<mutex, appender, Locked, Newest, Last>>
      BY <1>4, NetKeeps DEF vars, listVars, appendVars, netVars
    <2>2. TypeInv' /\ ListInv' /\ ReleasedInv'
      BY <2>1 DEF IInv, TypeInv, ListInv, ReleasedInv
    <2>3. NetInv' /\ TailInv'
      BY <2>1 DEF IInv, NetInv, TailInv, AtLeast
    <2> QED
      BY <2>2, <2>3 DEF IInv
  <1> QED
    BY <1>1, <1>2, <1>3, <1>4 DEF Next

-----------------------------------------------------------------------------
(* The inductive invariant holds in every behaviour: the buffers listed are *)
(* numbered without a gap up to the last one linked, those released are all *)
(* older, and a batch in flight is still in the list.                       *)
THEOREM Invariance == Spec => []IInv
  BY InitInv, NextInv, PTL DEF Spec

(* Every variable has its type, whatever the number of threads and commands:*)
(* TypeOK of ReliableBuffers.                                               *)
THEOREM TypeCorrect == Spec => []TypeOK
  <1>1. IInv => TypeOK
    <2> SUFFICES ASSUME IInv PROVE TypeOK
      OBVIOUS
    <2>1. /\ Newest \in Nat \ {0} /\ Last \in Nat \ {0} /\ Last <= Newest
          /\ Buffer = 1 .. Newest /\ next \in [1 .. Newest -> Nat]
          /\ Len(next) = Newest /\ next \in Seq(Nat)
      BY Numbers DEF IInv, TypeInv, Newest
    <2>2. Pointer = 0 .. Newest
      BY <2>1 DEF Pointer
    <2>3. next \in Seq(Pointer)
      <3>1. \A c \in 1 .. Newest : next[c] \in Pointer
        BY <2>1, <2>2 DEF IInv, ListInv
      <3>2. \A c \in 1 .. Len(next) : next[c] \in Pointer
        BY <2>1, <3>1
      <3> QED
        BY <2>1, <3>2, SeqDef
    <2>4. released \in Seq(Buffer)
      <3>1. \A a \in 1 .. Len(released) : released[a] \in Buffer
        <4>1. \A a \in 1 .. Len(released) : released[a] \in Nat
          BY ElementOfSeq DEF IInv, TypeInv
        <4> QED
          BY <2>1, <4>1 DEF IInv, ReleasedInv
      <3>2. released \in Seq(Nat)
        BY DEF IInv, TypeInv
      <3>3. Len(released) \in Nat /\ released \in [1 .. Len(released) -> Nat]
        BY <3>2, LenProperties
      <3>4. released \in [1 .. Len(released) -> Buffer]
        BY <3>1, <3>3
      <3> QED
        BY <3>3, <3>4, SeqDef
    <2>5. freed \subseteq Buffer
      <3> SUFFICES ASSUME NEW b \in freed PROVE b \in Buffer
        OBVIOUS
      <3>1. PICK a \in 1 .. Len(released) : released[a] = b
        BY DEF IInv, ReleasedInv
      <3>2. released[a] \in Nat
        BY <3>1, ElementOfSeq DEF IInv, TypeInv
      <3> QED
        BY <2>1, <3>1, <3>2 DEF IInv, ReleasedInv
    <2>6. reliablebufferhead \in Pointer /\ reliablebuffertail \in Pointer
          /\ reliablebuffer \in Pointer
      <3>1. reliablebufferhead <= Newest
        BY <2>1 DEF IInv, TypeInv, ListInv
      <3>2. reliablebuffertail <= Newest
        BY <2>1 DEF IInv, ListInv
      <3> QED
        BY <2>2, <3>1, <3>2 DEF IInv, TypeInv
    <2>7. net \in {"take", "unlink", "free"} => i < reliable_buffers_sent
      BY DEF IInv, NetInv
    <2> QED
      BY <2>3, <2>4, <2>5, <2>6, <2>7 DEF TypeOK, IInv, TypeInv
  <1> QED
    BY Invariance, <1>1, PTL

(* In spite of the unlocked release, the net thread never walks to or frees *)
(* a buffer that is null or freed, and a batch in flight stays in the list: *)
(* NetThreadSafe, whose hazard is the release of netqw.c racing an append.  *)
THEOREM NetThreadSafeAlways == Spec => []NetThreadSafe
  <1>1. IInv => NetThreadSafe
    <2> SUFFICES ASSUME IInv PROVE NetThreadSafe
      OBVIOUS
    <2>1. Last \in Nat \ {0} /\ Newest \in Nat /\ Last <= Newest /\ Buffer = 1 .. Newest
      BY Numbers DEF IInv
    <2>2. \A b \in freed : \E a \in 1 .. Len(released) : released[a] = b
      BY DEF IInv, ReleasedInv
    <2>3. \A a \in 1 .. Len(released) : released[a] \in Nat
      BY ElementOfSeq DEF IInv, TypeInv
    <2>4. Reach(reliablebufferhead) \cap freed = {}
      <3> SUFFICES ASSUME NEW b \in Reach(reliablebufferhead), b \in freed PROVE FALSE
        OBVIOUS
      <3>1. reliablebufferhead # 0 /\ b \in reliablebufferhead .. Last
        BY Listed
      <3>2. PICK a \in 1 .. Len(released) : released[a] = b
        BY <2>2
      <3>3. released[a] < reliablebufferhead
        BY <3>1, <3>2 DEF IInv, ReleasedInv
      <3>4. reliablebufferhead \in Nat
        BY DEF IInv, TypeInv
      <3> QED
        BY <2>1, <3>1, <3>2, <3>3, <3>4
    <2>5. ASSUME net = "unlink" PROVE reliablebuffer \in Buffer \ freed
      <3>1. /\ reliablebuffer = reliablebufferhead
            /\ i < reliable_buffers_sent /\ AtLeast(reliable_buffers_sent - i)
        BY <2>5 DEF IInv, NetInv
      <3>2. reliablebufferhead # 0
        BY <3>1 DEF AtLeast, IInv, TypeInv
      <3>3. reliablebufferhead \in Reach(reliablebufferhead) /\ reliablebufferhead \in Buffer
        BY <2>1, <3>2, Listed DEF IInv, TypeInv, ListInv
      <3> QED
        BY <2>4, <3>1, <3>3
    <2>6. ASSUME net = "free" PROVE reliablebuffer \in Buffer \ freed
      <3>1. /\ reliablebuffer > 0 /\ reliablebuffer <= Last
            /\ \A a \in 1 .. Len(released) : released[a] < reliablebuffer
        BY <2>6 DEF IInv, NetInv
      <3>2. reliablebuffer \in Nat
        BY DEF IInv, TypeInv
      <3>3. reliablebuffer \notin freed
        <4> SUFFICES ASSUME reliablebuffer \in freed PROVE FALSE
          OBVIOUS
        <4>1. PICK a \in 1 .. Len(released) : released[a] = reliablebuffer
          BY <2>2
        <4> QED
          BY <3>1, <3>2, <4>1
      <3> QED
        BY <2>1, <3>1, <3>2, <3>3
    <2>7. ASSUME net = "loop"
          PROVE  Cardinality(Reach(reliablebufferhead)) >= reliable_buffers_sent
      <3>1. AtLeast(reliable_buffers_sent) /\ reliable_buffers_sent \in Nat
        BY <2>7 DEF IInv, NetInv, TypeInv
      <3>2. CASE reliable_buffers_sent > 0
        <4>1. /\ reliablebufferhead # 0
              /\ reliablebufferhead + reliable_buffers_sent <= Last + 1
          BY <3>1, <3>2 DEF AtLeast
        <4>2. Cardinality(Reach(reliablebufferhead)) = Last - reliablebufferhead + 1
          BY <4>1, Listed
        <4>3. reliablebufferhead \in Nat
          BY DEF IInv, TypeInv
        <4> QED
          BY <2>1, <3>1, <4>1, <4>2, <4>3
      <3>3. CASE reliable_buffers_sent = 0
        <4>1. Cardinality(Reach(reliablebufferhead)) \in Nat
          <5>1. CASE reliablebufferhead = 0
            BY <5>1, Listed, FS_EmptySet
          <5>2. CASE reliablebufferhead # 0
            <6>1. /\ Cardinality(Reach(reliablebufferhead)) = Last - reliablebufferhead + 1
                  /\ reliablebufferhead <= Last /\ reliablebufferhead \in Nat
              BY <5>2, Listed DEF IInv, ListInv, TypeInv
            <6> QED
              BY <2>1, <6>1
          <5> QED
            BY <5>1, <5>2
        <4> QED
          BY <3>3, <4>1
      <3> QED
        BY <3>1, <3>2, <3>3
    <2> QED
      BY <2>4, <2>5, <2>6, <2>7 DEF NetThreadSafe
  <1> QED
    BY Invariance, <1>1, PTL

(* What is released, followed by what is listed, is in the order of         *)
(* appending, so no command goes out twice or out of order: ReleasedInOrder.*)
THEOREM ReleasedInOrderAlways == Spec => []ReleasedInOrder
  <1>1. IInv => ReleasedInOrder
    <2> SUFFICES ASSUME IInv PROVE ReleasedInOrder
      OBVIOUS
    <2> DEFINE s == IF net = "free" THEN Append(released, reliablebuffer) ELSE released
               listed == Reach(IF net = "unlink" THEN reliablebuffer
                                                 ELSE reliablebufferhead)
    <2>1. /\ released \in Seq(Nat) /\ reliablebuffer \in Nat /\ reliablebufferhead \in Nat
          /\ Last \in Nat \ {0} /\ Newest \in Nat /\ Last <= Newest
          /\ DOMAIN released = 1 .. Len(released) /\ Len(released) \in Nat
          /\ \A a \in 1 .. Len(released) : released[a] \in Nat
      BY Numbers, LenProperties, ElementOfSeq DEF IInv, TypeInv
    <2>2. listed = Reach(reliablebufferhead)
      BY DEF IInv, NetInv
    <2>3. ASSUME NEW c \in listed
          PROVE  reliablebufferhead # 0 /\ c \in reliablebufferhead .. Last
      BY <2>2, <2>3, Listed
    <2>4. ASSUME NEW c \in listed, next[c] # 0 PROVE c < next[c]
      <3>1. c \in 1 .. Newest
        BY <2>1, <2>3, <2>4
      <3> QED
        BY <2>4, <3>1 DEF IInv, ListInv
    <2>5. CASE net # "free"
      <3>1. s = released
        BY <2>5
      <3>2. \A a, b \in DOMAIN s : a < b => s[a] < s[b]
        BY <2>1, <3>1 DEF IInv, ReleasedInv
      <3>3. ASSUME NEW a \in DOMAIN s, NEW c \in listed PROVE s[a] < c
        <4>1. released[a] < reliablebufferhead /\ released[a] \in Nat
          BY <2>1, <2>3, <3>1, <3>3 DEF IInv, ReleasedInv
        <4>2. c \in reliablebufferhead .. Last
          BY <2>3
        <4>3. released[a] < c
          BY <2>1, <4>1, <4>2
        <4> QED
          BY <3>1, <4>3
      <3> QED
        BY <2>4, <3>2, <3>3 DEF ReleasedInOrder
    <2>6. CASE net = "free"
      <3>1. /\ \A a \in 1 .. Len(released) : released[a] < reliablebuffer
            /\ reliablebufferhead # 0 => reliablebuffer < reliablebufferhead
        BY <2>6 DEF IInv, NetInv
      <3>2. /\ s \in Seq(Nat) /\ Len(s) = Len(released) + 1
            /\ \A a \in 1 .. Len(released) : s[a] = released[a]
            /\ s[Len(released) + 1] = reliablebuffer
        BY <2>1, <2>6, AppendProperties
      <3>3. DOMAIN s = 1 .. Len(released) + 1
        BY <3>2, LenProperties
      <3> HIDE DEF s
      <3>4. \A a \in DOMAIN s : a \in 1 .. Len(released) \/ a = Len(released) + 1
        BY <2>1, <3>3
      <3>5. ASSUME NEW a \in DOMAIN s, NEW b \in DOMAIN s, a < b PROVE s[a] < s[b]
        <4>1. a \in 1 .. Len(released)
          BY <2>1, <3>3, <3>5
        <4>2. CASE b = Len(released) + 1
          BY <3>1, <3>2, <4>1, <4>2
        <4>3. CASE b \in 1 .. Len(released)
          BY <3>2, <3>5, <4>1, <4>3 DEF IInv, ReleasedInv
        <4> QED
          BY <3>4, <4>2, <4>3
      <3>6. ASSUME NEW a \in DOMAIN s, NEW c \in listed PROVE s[a] < c
        <4>1. c \in reliablebufferhead .. Last /\ reliablebufferhead # 0
          BY <2>3
        <4>2. s[a] \in Nat /\ s[a] < reliablebufferhead
          <5>1. CASE a \in 1 .. Len(released)
            BY <2>1, <3>2, <4>1, <5>1 DEF IInv, ReleasedInv
          <5>2. CASE a = Len(released) + 1
            BY <2>1, <3>1, <3>2, <4>1, <5>2
          <5> QED
            BY <3>4, <5>1, <5>2
        <4> QED
          BY <2>1, <4>1, <4>2
      <3> QED
        BY <2>4, <2>6, <3>5, <3>6 DEF ReleasedInOrder, s
    <2> QED
      BY <2>5, <2>6
  <1> QED
    BY Invariance, <1>1, PTL

(* Whoever gets the mutex and finds a list finds a tail to append to:       *)
(* HeadHasTail.                                                             *)
THEOREM HeadHasTailAlways == Spec => []HeadHasTail
  <1>1. IInv => HeadHasTail
    BY DEF IInv, TailInv, HeadHasTail, Locked
  <1> QED
    BY Invariance, <1>1, PTL

=============================================================================
