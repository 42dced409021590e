------------------------ MODULE ServerMessageProof ------------------------
(***************************************************************************)
(* Proofs about ServerMessage, for lists, levels and files of any length,  *)
(* a buffer of any size, texts of any length and however many messages a   *)
(* server sends.                                                           *)
(*                                                                         *)
(* BaseInv says what can be on its way and what the parsers expect of the  *)
(* client; on it rest an invariant for the printed lines (LinesInv), one   *)
(* for the delta point (DeltaInv) and two for downloads (FaultInv,         *)
(* DownloadInv), each with a lemma for each action that can disturb it.    *)
(***************************************************************************)
EXTENDS ServerMessage, FiniteSetTheorems, SequenceTheorems, WellFoundedInduction,
        TLAPS

\* Less than on the natural numbers, as the well-foundedness theorems want it.
LEMMA NatWellFounded == IsWellFoundedOn({p \in Nat \X Nat : p[1] < p[2]}, Nat)
  BY NatLessThanWellFounded, Zenon DEF OpToRel

\* A set of natural numbers that is not empty has a least element.
LEMMA Least ==
  ASSUME NEW S \in SUBSET Nat, S # {}
  PROVE  \E m \in S : \A n \in S : m <= n
  <1>1. PICK m \in S : \A n \in S : <<n, m>> \notin {p \in Nat \X Nat : p[1] < p[2]}
    BY NatWellFounded, WFMin, Zenon
  <1>2. ASSUME NEW n \in S
        PROVE  m <= n
    <2>1. <<n, m>> \notin {p \in Nat \X Nat : p[1] < p[2]}
      BY <1>1
    <2> QED
      BY <2>1, SMT
  <1> QED
    BY <1>2

\* Induction, with a set in the place of a predicate.
LEMMA Induction ==
  ASSUME NEW S, 0 \in S, \A n \in Nat : n \in S => n + 1 \in S
  PROVE  \A n \in Nat : n \in S
  <1> DEFINE Others == {n \in Nat : n \notin S}
  <1>1. SUFFICES ASSUME Others # {}
                 PROVE  FALSE
    OBVIOUS
  <1>2. PICK m \in Others : \A n \in Others : m <= n
    <2> HIDE DEF Others
    <2>1. Others \in SUBSET Nat
      BY DEF Others
    <2> QED
      BY <1>1, <2>1, Least
  <1>3. m \in Nat /\ m # 0
    OBVIOUS
  <1>4. m - 1 \in Nat /\ m - 1 \notin Others
    BY <1>2, <1>3
  <1>5. m \in S
    BY <1>3, <1>4
  <1> QED
    BY <1>5

-----------------------------------------------------------------------------
(* Sequences of sequences. *)

\* What the recursion of FlattenSeq computes.
LEMMA FlattenRecursion ==
  ASSUME NEW V, NEW seqs \in Seq(Seq(V)), Len(seqs) # 0
  PROVE  \E f : /\ f[1] = seqs[1]
                /\ \A n \in 2 .. Len(seqs) : f[n] = f[n - 1] \o seqs[n]
                /\ FlattenSeq(seqs) = f[Len(seqs)]
  <1> DEFINE Solves(N, h) == h = [i \in 1 .. N |->
                                    IF i = 1 THEN seqs[i] ELSE h[i - 1] \o seqs[i]]
             S == {N \in Nat : N # 0 => \E h : Solves(N, h)}
  <1>1. 0 \in S
    OBVIOUS
  <1>2. ASSUME NEW N \in Nat, N \in S
        PROVE  N + 1 \in S
    <2>1. CASE N = 0
      <3>1. Solves(1, [n \in 1 .. 1 |-> seqs[1]]) /\ N + 1 = 1
        BY <2>1
      <3> HIDE DEF Solves
      <3> QED
        BY <3>1
    <2>2. CASE N # 0
      <3>1. PICK g : Solves(N, g)
        BY <1>2, <2>2
      <3> DEFINE v == g[N] \o seqs[N + 1]
                 h == [n \in 1 .. N + 1 |-> IF n = N + 1 THEN v ELSE g[n]]
      <3>2. ASSUME NEW n \in 1 .. N + 1
            PROVE  h[n] = IF n = 1 THEN seqs[n] ELSE h[n - 1] \o seqs[n]
        <4>0. \A i \in 1 .. N : g[i] = IF i = 1 THEN seqs[i] ELSE g[i - 1] \o seqs[i]
          BY <3>1, Zenon
        <4>1. CASE n = 1
          <5>1. 1 \in 1 .. N /\ 1 # N + 1 /\ 1 \in 1 .. N + 1
            BY <2>2
          <5>2. h[1] = g[1] /\ g[1] = seqs[1]
            BY <4>0, <5>1, Zenon
          <5> QED
            BY <4>1, <5>2, Zenon
        <4>2. CASE n \in 2 .. N
          <5>1. n \in 1 .. N /\ n # 1 /\ n # N + 1 /\ n - 1 \in 1 .. N + 1 /\ n - 1 # N + 1
            BY <4>2
          <5>2. h[n] = g[n] /\ h[n - 1] = g[n - 1]
            BY <5>1, Zenon
          <5>3. g[n] = g[n - 1] \o seqs[n]
            BY <4>0, <5>1, Zenon
          <5> HIDE DEF h
          <5> QED
            BY <5>1, <5>2, <5>3, Zenon
        <4>3. CASE n = N + 1
          <5>0. N \in 1 .. N + 1 /\ N # N + 1 /\ (N + 1) - 1 = N /\ N + 1 \in 1 .. N + 1
                /\ N + 1 # 1
            BY <2>2
          <5> HIDE DEF v
          <5>1. h[N] = g[N] /\ h[N + 1] = v
            BY <5>0, Zenon
          <5>2. h[n] = h[n - 1] \o seqs[n]
            <6>1. v = g[N] \o seqs[N + 1]
              BY DEF v
            <6> HIDE DEF h
            <6> QED
              BY <4>3, <5>0, <5>1, <6>1, Zenon
          <5> QED
            BY <4>3, <5>0, <5>2, Zenon
        <4> QED
          BY <2>2, <4>1, <4>2, <4>3
      <3>3. Solves(N + 1, h)
        BY <3>2, Zenon
      <3> HIDE DEF h, Solves
      <3> QED
        BY <3>3
    <2> QED
      BY <2>1, <2>2
  <1> HIDE DEF S
  <1>3. \A n \in Nat : n \in S
    BY ONLY <1>1, <1>2, Induction, Zenon
  <1> DEFINE f == CHOOSE h : Solves(Len(seqs), h)
  <1>4. Solves(Len(seqs), f)
    <2> HIDE DEF Solves
    <2> QED
      BY <1>3 DEF S
  <1>5. FlattenSeq(seqs) = f[Len(seqs)]
    BY DEF FlattenSeq
  <1> HIDE DEF f
  <1>6. \A n \in 1 .. Len(seqs) : f[n] = IF n = 1 THEN seqs[n] ELSE f[n - 1] \o seqs[n]
    BY <1>4, Zenon
  <1>7. f[1] = seqs[1]
    <2>1. 1 \in 1 .. Len(seqs)
      OBVIOUS
    <2> QED
      BY <1>6, <2>1, Zenon
  <1>8. ASSUME NEW n \in 2 .. Len(seqs)
        PROVE  f[n] = f[n - 1] \o seqs[n]
    <2>1. n \in 1 .. Len(seqs) /\ n # 1
      OBVIOUS
    <2> QED
      BY <1>6, <2>1, Zenon
  <1> QED
    BY <1>5, <1>7, <1>8

\* FlattenSeq of no sequence, and of one sequence more.
LEMMA FlattenNone == FlattenSeq(<< >>) = << >>
  BY DEF FlattenSeq

LEMMA FlattenType ==
  ASSUME NEW V, NEW seqs \in Seq(Seq(V))
  PROVE  FlattenSeq(seqs) \in Seq(V)
  <1>1. CASE Len(seqs) = 0
    <2>1. seqs = << >>
      BY <1>1, EmptySeq
    <2>2. FlattenSeq(seqs) = << >>
      BY <2>1, FlattenNone
    <2> QED
      BY <2>2
  <1>2. CASE Len(seqs) # 0
    <2>1. PICK f : /\ f[1] = seqs[1]
                   /\ \A n \in 2 .. Len(seqs) : f[n] = f[n - 1] \o seqs[n]
                   /\ FlattenSeq(seqs) = f[Len(seqs)]
      BY <1>2, FlattenRecursion
    <2> DEFINE S == {n \in Nat : n \in 1 .. Len(seqs) => f[n] \in Seq(V)}
    <2>2. 0 \in S
      OBVIOUS
    <2>3. ASSUME NEW n \in Nat, n \in S
          PROVE  n + 1 \in S
      <3>1. SUFFICES ASSUME n + 1 \in 1 .. Len(seqs)
                     PROVE  f[n + 1] \in Seq(V)
        OBVIOUS
      <3>2. seqs[n + 1] \in Seq(V)
        BY <3>1
      <3>3. CASE n = 0
        BY <2>1, <3>2, <3>3
      <3>4. CASE n # 0
        <4>0. n + 1 \in 2 .. Len(seqs) /\ (n + 1) - 1 = n /\ n \in 1 .. Len(seqs)
          BY <3>1, <3>4
        <4>1. f[n + 1] = f[n] \o seqs[n + 1]
          BY <2>1, <4>0
        <4>2. f[n] \in Seq(V)
          BY <2>3, <4>0
        <4> QED
          BY <3>2, <4>1, <4>2
      <3> QED
        BY <3>3, <3>4
    <2> HIDE DEF S
    <2>4. \A n \in Nat : n \in S
      BY ONLY <2>2, <2>3, Induction, Zenon
    <2> QED
      BY <1>2, <2>1, <2>4 DEF S
  <1> QED
    BY <1>1, <1>2

LEMMA FlattenAppend ==
  ASSUME NEW V, NEW seqs \in Seq(Seq(V)), NEW s \in Seq(V)
  PROVE  FlattenSeq(Append(seqs, s)) = FlattenSeq(seqs) \o s
  <1> DEFINE more == Append(seqs, s)
             N == Len(seqs)
  <1>1. more \in Seq(Seq(V)) /\ Len(more) = N + 1 /\ N \in Nat /\ more[N + 1] = s
    OBVIOUS
  <1>2. \A n \in 1 .. N : more[n] = seqs[n]
    OBVIOUS
  <1>3. PICK f : /\ f[1] = more[1]
                 /\ \A n \in 2 .. N + 1 : f[n] = f[n - 1] \o more[n]
                 /\ FlattenSeq(more) = f[N + 1]
    <2> HIDE DEF more
    <2>1. N + 1 # 0
      BY <1>1
    <2> QED
      BY <1>1, <2>1, FlattenRecursion
  <1>4. CASE N = 0
    <2>1. seqs = << >>
      BY <1>4, EmptySeq
    <2>2. FlattenSeq(more) = s /\ FlattenSeq(seqs) = << >>
      BY <1>1, <1>3, <1>4, <2>1, FlattenNone
    <2> QED
      BY <2>2
  <1>5. CASE N # 0
    <2>1. PICK g : /\ g[1] = seqs[1]
                   /\ \A n \in 2 .. N : g[n] = g[n - 1] \o seqs[n]
                   /\ FlattenSeq(seqs) = g[N]
      BY <1>5, FlattenRecursion
    <2> DEFINE S == {n \in Nat : n \in 1 .. N => f[n] = g[n]}
    <2>2. 0 \in S
      OBVIOUS
    <2>3. ASSUME NEW n \in Nat, n \in S
          PROVE  n + 1 \in S
      <3> HIDE DEF more
      <3>1. SUFFICES ASSUME n + 1 \in 1 .. N
                     PROVE  f[n + 1] = g[n + 1]
        OBVIOUS
      <3>2. more[n + 1] = seqs[n + 1]
        BY <1>2, <3>1
      <3>3. CASE n = 0
        BY <1>3, <2>1, <3>2, <3>3
      <3>4. CASE n # 0
        <4>1. n + 1 \in 2 .. N /\ n + 1 \in 2 .. N + 1 /\ n \in 1 .. N /\ (n + 1) - 1 = n
          BY <3>1, <3>4
        <4>2. f[n + 1] = f[n] \o more[n + 1] /\ g[n + 1] = g[n] \o seqs[n + 1]
          BY <1>3, <2>1, <4>1
        <4> QED
          BY <2>3, <3>2, <4>1, <4>2
      <3> QED
        BY <3>3, <3>4
    <2> HIDE DEF S
    <2>4. N \in S
      BY <1>1, <2>2, <2>3, Induction
    <2>5. f[N] = g[N]
      BY <1>1, <1>5, <2>4 DEF S
    <2>6. f[N + 1] = f[N] \o s
      <3>1. N + 1 \in 2 .. N + 1 /\ (N + 1) - 1 = N
        BY <1>1, <1>5
      <3> HIDE DEF more
      <3> QED
        BY <1>1, <1>3, <3>1
    <2> QED
      BY <1>3, <2>1, <2>5, <2>6
  <1> QED
    BY <1>4, <1>5

\* FlattenSeq of two sequences of sequences, one behind the other.
LEMMA FlattenConcat ==
  ASSUME NEW V, NEW a \in Seq(Seq(V)), NEW b \in Seq(Seq(V))
  PROVE  FlattenSeq(a \o b) = FlattenSeq(a) \o FlattenSeq(b)
  <1> DEFINE First(n) == SubSeq(b, 1, n)
             S == {n \in Nat : n <= Len(b) =>
                     FlattenSeq(a \o First(n)) = FlattenSeq(a) \o FlattenSeq(First(n))}
  <1>1. 0 \in S
    <2>1. First(0) = << >> /\ a \o First(0) = a
      OBVIOUS
    <2>2. FlattenSeq(a) \in Seq(V)
      BY FlattenType
    <2>3. FlattenSeq(a) \o << >> = FlattenSeq(a)
      BY <2>2
    <2> QED
      BY <2>1, <2>3, FlattenNone
  <1>2. ASSUME NEW n \in Nat, n \in S
        PROVE  n + 1 \in S
    <2>1. SUFFICES ASSUME n + 1 <= Len(b)
                   PROVE  FlattenSeq(a \o First(n + 1))
                          = FlattenSeq(a) \o FlattenSeq(First(n + 1))
      OBVIOUS
    <2> DEFINE x == b[n + 1]
    <2>2. First(n + 1) = Append(First(n), x) /\ First(n) \in Seq(Seq(V)) /\ x \in Seq(V)
      BY <2>1
    <2> HIDE DEF First, x
    <2>3. a \o First(n + 1) = Append(a \o First(n), x) /\ a \o First(n) \in Seq(Seq(V))
      <3> DEFINE y == First(n)
                 X == Seq(V)
      <3>1. y \in Seq(X) /\ x \in X /\ a \in Seq(X)
        BY <2>2
      <3> HIDE DEF y, X
      <3>2. a \o Append(y, x) = Append(a \o y, x) /\ a \o y \in Seq(X)
        BY <3>1
      <3> QED
        BY <2>2, <3>2 DEF y, X
    <2>4. FlattenSeq(a \o First(n + 1)) = FlattenSeq(a \o First(n)) \o x
      BY <2>2, <2>3, FlattenAppend
    <2>5. FlattenSeq(First(n + 1)) = FlattenSeq(First(n)) \o x
      BY <2>2, FlattenAppend
    <2>6. FlattenSeq(a \o First(n)) = FlattenSeq(a) \o FlattenSeq(First(n))
      BY <1>2, <2>1
    <2>7. FlattenSeq(a) \in Seq(V) /\ FlattenSeq(First(n)) \in Seq(V)
      BY <2>2, FlattenType
    <2>8. (FlattenSeq(a) \o FlattenSeq(First(n))) \o x
          = FlattenSeq(a) \o (FlattenSeq(First(n)) \o x)
      <3> DEFINE p == FlattenSeq(a)
                 q == FlattenSeq(First(n))
      <3>1. p \in Seq(V) /\ q \in Seq(V) /\ x \in Seq(V)
        BY <2>2, <2>7
      <3> HIDE DEF p, q
      <3>2. (p \o q) \o x = p \o (q \o x)
        BY <3>1
      <3> QED
        BY <3>2 DEF p, q
    <2> QED
      BY <2>4, <2>5, <2>6, <2>8
  <1> HIDE DEF S
  <1>3. Len(b) \in S
    <2>1. Len(b) \in Nat
      OBVIOUS
    <2> QED
      BY <1>1, <1>2, <2>1, Induction
  <1>4. First(Len(b)) = b
    OBVIOUS
  <1> HIDE DEF First
  <1> QED
    BY <1>3, <1>4 DEF S

\* FlattenSeq of one sequence.
LEMMA FlattenOne ==
  ASSUME NEW V, NEW s \in Seq(V)
  PROVE  FlattenSeq(<<s>>) = s
  <1>1. <<s>> = Append(<< >>, s) /\ << >> \in Seq(Seq(V)) /\ << >> \o s = s
    OBVIOUS
  <1> QED
    BY <1>1, FlattenAppend, FlattenNone

-----------------------------------------------------------------------------
(* Reading a message. *)

KindNames == DOMAIN Width \cup {"string"}

Names ==
  {"message", "msg_readcount", "msg_badread", "parsing", "command", "abort", "quit",
   "protoversion", "servercount", "reliable", "buffer", "buffer_position",
   "save_console_output", "console_output", "download_file", "lp",
   "incoming_sequence", "validsequence", "deltapoint", "instep", "stuck", "cut",
   "fault", "loaded", "printed", "got", "long", "name", "content", "finished",
   "running", "overlap"}

\* What is said of a client anywhere: its fields, and where it reads.
IsClient(c) ==
  /\ DOMAIN c = Names
  /\ c.msg_readcount \in Nat
  /\ c.msg_badread \in BOOLEAN /\ c.instep \in BOOLEAN /\ c.stuck \in BOOLEAN

\* What reading moves.
Place == {"msg_readcount", "msg_badread", "instep", "stuck"}

\* Client c becomes d by reading on and by changes of the fields in S.
Changes(c, d, S) ==
  /\ IsClient(d)
  /\ \A x \in Names \ (S \cup Place) : d[x] = c[x]
  /\ c.msg_readcount <= d.msg_readcount
  /\ c.msg_badread => d.msg_badread

LEMMA ChangesTwice ==
  ASSUME NEW c, NEW d, NEW e, NEW S, NEW T, IsClient(c),
         Changes(c, d, S), Changes(d, e, T)
  PROVE  Changes(c, e, S \cup T)
  BY DEF Changes, IsClient

LEMMA ChangesMore ==
  ASSUME NEW c, NEW d, NEW S, NEW T, Changes(c, d, S), S \subseteq T
  PROVE  Changes(c, d, T)
  BY DEF Changes

LEMMA ChangesNothing ==
  ASSUME NEW c, IsClient(c)
  PROVE  Changes(c, c, {})
  BY DEF Changes, IsClient

\* One reading after another.
LEMMA ReadsTwice ==
  ASSUME NEW c, NEW d, NEW e, IsClient(c), Changes(c, d, {}), Changes(d, e, {})
  PROVE  Changes(c, e, {})
  BY DEF Changes, IsClient

LEMMA WidthType == \A kind \in DOMAIN Width : Width[kind] \in {1, 2, 4}
  BY DEF Width

LEMMA PlaceNames == Place \subseteq Names /\ "message" \in Names \ Place
  BY DEF Place, Names

LEMMA AdvanceChanges ==
  ASSUME NEW r, IsClient(r), NEW kind, NEW n \in Nat
  PROVE  Changes(r, Advance(r, kind, n), {})
  <1> DEFINE q == [r EXCEPT !.msg_readcount = @ + n]
             b == r.instep /\ Here(r, kind)
             s == [q EXCEPT !.instep = b]
  <1>1. Advance(r, kind, n) = s /\ b \in BOOLEAN
    <2>1. q.instep = r.instep
      BY PlaceNames DEF IsClient, Place
    <2> QED
      BY <2>1 DEF Advance
  <1> HIDE DEF b
  <1>2. Changes(r, q, {})
    BY PlaceNames DEF Changes, IsClient, Place
  <1> HIDE DEF q
  <1>3. Changes(q, s, {})
    BY <1>1, <1>2, PlaceNames DEF Changes, IsClient, Place
  <1>4. Changes(r, s, {})
    BY <1>2, <1>3, ReadsTwice
  <1> QED
    BY <1>1, <1>4

LEMMA ReadIs ==
  ASSUME NEW r, NEW kind
  PROVE  Read(r, kind) = CASE kind = "float" -> MSG_ReadFloat(r)
                           [] kind = "string" -> MSG_ReadString(r)
                           [] OTHER -> ReadInteger(r, kind)
  BY DEF Read, Once

LEMMA ReadChanges ==
  ASSUME NEW r, IsClient(r), NEW kind \in KindNames
  PROVE  Changes(r, Read(r, kind), {})
  <1>1. Changes(r, [r EXCEPT !.msg_badread = TRUE], {})
    BY DEF Changes, IsClient, Place, Names
  <1>2. Changes(r, MSG_ReadFloat(r), {})
    <2>1. Changes(r, [r EXCEPT !.msg_readcount = @ + 4], {})
      BY DEF Changes, IsClient, Place, Names
    <2> QED
      BY <2>1, AdvanceChanges DEF MSG_ReadFloat
  <1>3. Changes(r, MSG_ReadString(r), {})
    <2>1. Changes(r, [Advance(r, "string", 1) EXCEPT !.msg_badread = TRUE], {})
      <3> DEFINE q == Advance(r, "string", 1)
      <3>1. Changes(r, q, {})
        BY AdvanceChanges
      <3> HIDE DEF q
      <3>2. IsClient(q)
        BY <3>1 DEF Changes
      <3>3. Changes(q, [q EXCEPT !.msg_badread = TRUE], {})
        BY <3>2, PlaceNames DEF Changes, IsClient, Place
      <3> QED
        BY <3>1, <3>3, ReadsTwice DEF q
    <2> QED
      BY <1>1, <2>1, AdvanceChanges DEF MSG_ReadString
  <1>4. ASSUME kind \in DOMAIN Width
        PROVE  Changes(r, ReadInteger(r, kind), {})
    <2>1. Width[kind] \in Nat
      BY <1>4, WidthType
    <2> QED
      BY <1>1, <2>1, AdvanceChanges DEF ReadInteger
  <1> QED
    BY <1>2, <1>3, <1>4, ReadIs DEF KindNames

\* What the recursion of ReadAll computes.
LEMMA ReadAllRecursion ==
  ASSUME NEW r, NEW kinds, Len(kinds) \in Nat
  PROVE  \E h : /\ h[0] = r
                /\ \A n \in 1 .. Len(kinds) : h[n] = Read(h[n - 1], kinds[n])
                /\ ReadAll(r, kinds) = h[Len(kinds)]
  <1> DEFINE Solves(N, h) == h = [n \in 0 .. N |->
                                    IF n = 0 THEN r ELSE Read(h[n - 1], kinds[n])]
             S == {N \in Nat : \E h : Solves(N, h)}
  <1>1. 0 \in S
    <2>1. Solves(0, [n \in 0 .. 0 |-> r])
      OBVIOUS
    <2> QED
      BY <2>1
  <1>2. ASSUME NEW N \in Nat, N \in S
        PROVE  N + 1 \in S
    <2>1. PICK g : Solves(N, g)
      BY <1>2
    <2> DEFINE v == Read(g[N], kinds[N + 1])
               h == [n \in 0 .. N + 1 |-> IF n = N + 1 THEN v ELSE g[n]]
    <2>2. ASSUME NEW n \in 0 .. N + 1
          PROVE  h[n] = IF n = 0 THEN r ELSE Read(h[n - 1], kinds[n])
      <3>1. CASE n = 0
        BY <2>1, <3>1
      <3>2. CASE n \in 1 .. N
        <4>1. h[n] = g[n] /\ h[n - 1] = g[n - 1]
          BY <3>2
        <4>2. g[n] = Read(g[n - 1], kinds[n])
          BY <2>1, <3>2
        <4> HIDE DEF h
        <4> QED
          BY <3>2, <4>1, <4>2
      <3>3. CASE n = N + 1
        <4>1. h[N] = g[N] /\ h[N + 1] = v
          OBVIOUS
        <4> HIDE DEF h
        <4> QED
          BY <3>3, <4>1
      <3> QED
        BY <3>1, <3>2, <3>3
    <2>3. Solves(N + 1, h)
      BY <2>2, Zenon
    <2> HIDE DEF h, Solves
    <2> QED
      BY <2>3
  <1> HIDE DEF S
  <1>3. Len(kinds) \in S
    BY <1>1, <1>2, Induction
  <1> DEFINE f == CHOOSE h : Solves(Len(kinds), h)
  <1>4. Solves(Len(kinds), f)
    <2> HIDE DEF Solves
    <2> QED
      BY <1>3 DEF S
  <1>5. ReadAll(r, kinds) = f[Len(kinds)]
    BY DEF ReadAll
  <1> HIDE DEF f
  <1> QED
    BY <1>4, <1>5

LEMMA ReadAllChanges ==
  ASSUME NEW r, IsClient(r), NEW kinds \in Seq(KindNames)
  PROVE  Changes(r, ReadAll(r, kinds), {})
  <1>1. PICK h : /\ h[0] = r
                 /\ \A n \in 1 .. Len(kinds) : h[n] = Read(h[n - 1], kinds[n])
                 /\ ReadAll(r, kinds) = h[Len(kinds)]
    <2>1. Len(kinds) \in Nat
      OBVIOUS
    <2> QED
      BY <2>1, ReadAllRecursion
  <1> DEFINE S == {n \in Nat : n <= Len(kinds) => Changes(r, h[n], {})}
  <1>2. 0 \in S
    BY <1>1, ChangesNothing
  <1>3. ASSUME NEW n \in Nat, n \in S
        PROVE  n + 1 \in S
    <2>1. SUFFICES ASSUME n + 1 <= Len(kinds)
                   PROVE  Changes(r, h[n + 1], {})
      OBVIOUS
    <2>2. /\ Changes(r, h[n], {}) /\ (n + 1) - 1 = n /\ n + 1 \in 1 .. Len(kinds)
          /\ kinds[n + 1] \in KindNames
      BY <1>3, <2>1
    <2>3. h[n + 1] = Read(h[n], kinds[n + 1])
      BY <1>1, <2>2
    <2>4. IsClient(h[n])
      BY <2>2 DEF Changes
    <2>5. Changes(h[n], h[n + 1], {})
      BY <2>2, <2>3, <2>4, ReadChanges
    <2> QED
      BY <2>2, <2>5, ReadsTwice
  <1> HIDE DEF S
  <1>4. Len(kinds) \in S
    <2>1. Len(kinds) \in Nat
      OBVIOUS
    <2> QED
      BY <1>2, <1>3, <2>1, Induction
  <1> QED
    BY <1>1, <1>4 DEF S

LEMMA ReadIfChanges ==
  ASSUME NEW r, IsClient(r), NEW condition, NEW kind \in KindNames
  PROVE  Changes(r, ReadIf(r, condition, kind), {})
  BY ReadChanges, ChangesNothing DEF ReadIf

\* Fields that are there only if their flag is set.
FlagNames ==
  {"always", "CM_ANGLE1", "CM_ANGLE2", "CM_ANGLE3", "CM_FORWARD", "CM_SIDE", "CM_UP",
   "CM_BUTTONS", "CM_IMPULSE", "PF_VELOCITY1", "PF_VELOCITY2", "PF_VELOCITY3",
   "PF_MODEL", "PF_SKINNUM", "PF_EFFECTS", "PF_WEAPONFRAME", "PF_MSEC", "SND_VOLUME",
   "SND_ATTENUATION", "U_MODEL", "U_FRAME", "U_COLORMAP", "U_SKIN", "U_EFFECTS",
   "U_ORIGIN1", "U_ANGLE1", "U_ORIGIN2", "U_ANGLE2", "U_ORIGIN3", "U_ANGLE3"}
OptionalKinds == {"byte", "char", "short"}
OptionalFields == Seq(FlagNames \X OptionalKinds)

LEMMA KindsType ==
  ASSUME NEW flags, NEW fields \in OptionalFields
  PROVE  Kinds(flags, fields) \in Seq(OptionalKinds) /\ Kinds(flags, fields) \in Seq(KindNames)
  <1> DEFINE kinds == [i \in DOMAIN fields |->
                         IF fields[i][1] \in flags THEN <<fields[i][2]>> ELSE << >>]
  <1>1. kinds \in Seq(Seq(OptionalKinds))
    <2>1. ASSUME NEW i \in 1 .. Len(fields)
          PROVE  (IF fields[i][1] \in flags THEN <<fields[i][2]>> ELSE << >>)
                 \in Seq(OptionalKinds)
      <3>1. fields[i][2] \in OptionalKinds
        BY DEF OptionalFields
      <3> QED
        BY <3>1
    <2>2. DOMAIN fields = 1 .. Len(fields) /\ Len(fields) \in Nat
      BY DEF OptionalFields
    <2> DEFINE v(i) == IF fields[i][1] \in flags THEN <<fields[i][2]>> ELSE << >>
    <2>3. \A i \in 1 .. Len(fields) : v(i) \in Seq(OptionalKinds)
      BY <2>1
    <2> HIDE DEF v
    <2>4. [i \in 1 .. Len(fields) |-> v(i)] \in Seq(Seq(OptionalKinds))
      BY <2>2, <2>3
    <2> QED
      BY <2>2, <2>4 DEF v
  <1> HIDE DEF kinds
  <1>2. FlattenSeq(kinds) \in Seq(OptionalKinds)
    BY <1>1, FlattenType
  <1>3. Seq(OptionalKinds) \subseteq Seq(KindNames)
    <2>1. OptionalKinds \subseteq KindNames
      BY DEF OptionalKinds, KindNames, Width
    <2>2. \A X, Y : X \subseteq Y => Seq(X) \subseteq Seq(Y)
      OBVIOUS
    <2> QED
      BY <2>1, <2>2
  <1> QED
    BY <1>2, <1>3 DEF kinds, Kinds

LEMMA OnceIs ==
  ASSUME NEW r, NEW kinds
  PROVE  Once(kinds, LAMBDA k : ReadAll(r, k)) = ReadAll(r, kinds)
  BY DEF Once

LEMMA ReadOptionalChanges ==
  ASSUME NEW r, IsClient(r), NEW flags, NEW fields \in OptionalFields
  PROVE  Changes(r, ReadOptional(r, flags, fields), {})
  <1>1. ReadOptional(r, flags, fields) = ReadAll(r, Kinds(flags, fields))
    BY OnceIs DEF ReadOptional
  <1> QED
    BY <1>1, KindsType, ReadAllChanges

\* One change after another of the same fields.
LEMMA ChangesAgain ==
  ASSUME NEW c, NEW d, NEW e, NEW S, IsClient(c), Changes(c, d, S), Changes(d, e, S)
  PROVE  Changes(c, e, S)
  BY DEF Changes, IsClient

LEMMA KindsNamed ==
  {"svc", "byte", "type", "bits", "char", "short", "word", "long", "float", "string"}
  \subseteq KindNames
  BY DEF KindNames, Width

LEMMA TablesType ==
  /\ Vector \in Seq(KindNames) /\ Vector \o <<"byte">> \in Seq(KindNames)
  /\ <<"byte">> \o Vector \in Seq(KindNames) /\ ParseBeam \in Seq(KindNames)
  /\ \A te : TempEntityPayload(te) \in Seq(KindNames)
  /\ \A version : UsercmdFields(version) \in OptionalFields
  /\ {PlayerFields, SoundFields, DeltaFields} \subseteq OptionalFields
  <1>1. {"svc", "byte", "type", "bits", "char", "short", "word", "long", "float", "string"}
        = KindNames
    BY DEF KindNames, Width
  <1> HIDE DEF KindNames
  <1>2. Vector \in Seq(KindNames) /\ <<"byte">> \in Seq(KindNames)
        /\ <<"short">> \in Seq(KindNames)
    BY <1>1 DEF Vector
  <1>3. ParseBeam \in Seq(KindNames)
    BY <1>2 DEF ParseBeam
  <1>4. \A te : TempEntityPayload(te) \in Seq(KindNames)
    <2>1. <<"byte">> \o Vector \in Seq(KindNames)
      BY <1>2
    <2> QED
      BY <1>2, <1>3, <2>1 DEF TempEntityPayload
  <1> DEFINE P == FlagNames \X OptionalKinds
  <1>9. \A name \in FlagNames :
           {<<name, "byte">>, <<name, "char">>, <<name, "short">>} \subseteq P
    BY DEF OptionalKinds
  <1> HIDE DEF P
  <1>5. \A version : UsercmdFields(version) \in Seq(P)
    BY <1>9 DEF FlagNames, UsercmdFields
  <1>6. PlayerFields \in Seq(P)
    BY <1>9 DEF FlagNames, PlayerFields
  <1>7. SoundFields \in Seq(P)
    BY <1>9 DEF FlagNames, SoundFields
  <1>8. DeltaFields \in Seq(P)
    BY <1>9 DEF FlagNames, DeltaFields
  <1> QED
    BY <1>2, <1>3, <1>4, <1>5, <1>6, <1>7, <1>8 DEF P, OptionalFields

LEMMA ParsedType == \A svc \in DOMAIN Parsed : Parsed[svc] \in Seq(KindNames)
  <1>1. {"svc", "byte", "type", "bits", "char", "short", "word", "long", "float", "string"}
        = KindNames
    BY DEF KindNames, Width
  <1> HIDE DEF KindNames
  <1>2. \A svc \in DOMAIN Payload : Payload[svc] \in Seq(KindNames)
    <2>1. DOMAIN Payload =
            {"centerprint", "damage", "setangle", "lightstyle", "updatefrags",
             "updateping", "updatepl", "updateentertime", "updateuserinfo",
             "spawnbaseline", "updatestat", "updatestatlong", "spawnstaticsound",
             "cdtrack", "muzzleflash", "setinfo", "chokecount"}
      BY DEF Payload
    <2>2. {Payload.centerprint, Payload.damage, Payload.setangle, Payload.lightstyle,
           Payload.updatefrags, Payload.updateping, Payload.updatepl,
           Payload.updateentertime, Payload.updateuserinfo, Payload.spawnbaseline,
           Payload.updatestat, Payload.updatestatlong, Payload.spawnstaticsound,
           Payload.cdtrack, Payload.muzzleflash, Payload.setinfo, Payload.chokecount}
          \subseteq Seq(KindNames)
      BY <1>1 DEF Payload, ParseLightstyles, ParseBaseLine, ParseSpawnStaticSound, Vector
    <2> QED
      BY <2>1, <2>2
  <1> QED
    BY <1>2 DEF Parsed

-----------------------------------------------------------------------------
(* What the parsers change. *)

LEMMA DeltaUsercmdChanges ==
  ASSUME NEW r, IsClient(r), NEW version
  PROVE  Changes(r, MSG_ReadDeltaUsercmd(r, version), {})
  <1> DEFINE fields == UsercmdFields(version)
             bits == Value(r, "bits", FlagsOf(fields)) \cup {"always"}
             q == Read(r, "bits")
  <1>1. Changes(r, q, {}) /\ IsClient(q)
    BY ReadChanges, KindsNamed DEF Changes
  <1>2. fields \in OptionalFields
    BY TablesType
  <1> HIDE DEF fields, bits, q
  <1>3. Changes(q, ReadOptional(q, bits, fields), {})
    BY <1>1, <1>2, ReadOptionalChanges
  <1>4. Changes(r, ReadOptional(q, bits, fields), {})
    BY <1>1, <1>3, ReadsTwice
  <1> QED
    BY <1>4 DEF MSG_ReadDeltaUsercmd, fields, bits, q

LEMMA PlayerinfoChanges ==
  ASSUME NEW r, IsClient(r), NEW version
  PROVE  Changes(r, ParsePlayerinfo(r, version), {})
  <1> DEFINE number == Read(r, "byte")
             flags == Value(number, "word", PlayerFlags)
             word == Read(number, "word")
             place == ReadAll(word, Vector \o <<"byte">>)
             msec == ReadIf(place, "PF_MSEC" \in flags, "byte")
             command == IF "PF_COMMAND" \in flags
                        THEN MSG_ReadDeltaUsercmd(msec, version)
                        ELSE msec
             last == ReadOptional(command, flags, PlayerFields)
  <1>1. ParsePlayerinfo(r, version) = last
    BY DEF ParsePlayerinfo
  <1>2. Changes(r, number, {}) /\ IsClient(number)
    BY ReadChanges, KindsNamed DEF Changes
  <1> HIDE DEF number, flags
  <1>3. Changes(number, word, {}) /\ IsClient(word)
    BY <1>2, ReadChanges, KindsNamed DEF Changes
  <1> HIDE DEF word
  <1>4. Changes(word, place, {}) /\ IsClient(place)
    BY <1>3, ReadAllChanges, TablesType DEF Changes
  <1> HIDE DEF place
  <1>5. Changes(place, msec, {}) /\ IsClient(msec)
    BY <1>4, ReadIfChanges, KindsNamed DEF Changes
  <1> HIDE DEF msec
  <1>6. Changes(msec, command, {}) /\ IsClient(command)
    BY <1>5, DeltaUsercmdChanges, ChangesNothing DEF Changes
  <1> HIDE DEF command
  <1>7. Changes(command, last, {})
    BY <1>6, ReadOptionalChanges, TablesType
  <1> HIDE DEF last
  <1>8. Changes(r, word, {}) /\ Changes(r, place, {}) /\ Changes(r, msec, {})
    BY <1>2, <1>3, <1>4, <1>5, ReadsTwice
  <1>9. Changes(r, last, {})
    BY <1>6, <1>7, <1>8, ReadsTwice
  <1> QED
    BY <1>1, <1>9

LEMMA SoundPacketChanges ==
  ASSUME NEW r, IsClient(r)
  PROVE  Changes(r, ParseSoundPacket(r), {})
  <1> DEFINE channel == Value(r, "word", FlagsOf(SoundFields))
             word == Read(r, "word")
             fields == ReadOptional(word, channel, SoundFields)
             last == ReadAll(fields, <<"byte">> \o Vector)
  <1>1. ParseSoundPacket(r) = last
    BY DEF ParseSoundPacket
  <1>2. Changes(r, word, {}) /\ IsClient(word)
    BY ReadChanges, KindsNamed DEF Changes
  <1> HIDE DEF word, channel
  <1>3. Changes(word, fields, {}) /\ IsClient(fields)
    BY <1>2, ReadOptionalChanges, TablesType DEF Changes
  <1> HIDE DEF fields
  <1>4. Changes(fields, last, {})
    BY <1>3, ReadAllChanges, TablesType
  <1> HIDE DEF last
  <1> QED
    BY <1>1, <1>2, <1>3, <1>4, ReadsTwice

LEMMA TempEntityChanges ==
  ASSUME NEW r, IsClient(r)
  PROVE  Changes(r, ParseTempEntity(r), {})
  <1> DEFINE type == Read(r, "type")
             te == Value(r, "type", "none")
             last == ReadAll(type, TempEntityPayload(te))
  <1>1. ParseTempEntity(r) \in {last, type}
    BY DEF ParseTempEntity
  <1>2. Changes(r, type, {}) /\ IsClient(type)
    BY ReadChanges, KindsNamed DEF Changes
  <1> HIDE DEF type, te
  <1>3. Changes(type, last, {})
    BY <1>2, ReadAllChanges, TablesType
  <1> HIDE DEF last
  <1> QED
    BY <1>1, <1>2, <1>3, ReadsTwice

LEMMA ParseDeltaChanges ==
  ASSUME NEW r, IsClient(r), NEW word
  PROVE  Changes(r, ParseDelta(r, word), {})
  <1> DEFINE bits == word \cap WordFlags
             more == "U_MODEL" \in bits
             q == ReadIf(r, more, "bits")
             flags == IF more THEN bits \cup Value(r, "bits", MoreFlags) ELSE bits
             last == ReadOptional(q, flags, DeltaFields)
  <1>1. ParseDelta(r, word) = last
    BY DEF ParseDelta
  <1>2. Changes(r, q, {}) /\ IsClient(q)
    BY ReadIfChanges, KindsNamed DEF Changes
  <1> HIDE DEF q, flags
  <1>3. Changes(q, last, {})
    BY <1>2, ReadOptionalChanges, TablesType
  <1> HIDE DEF last
  <1> QED
    BY <1>1, <1>2, <1>3, ReadsTwice

LEMMA FlushEntityChanges ==
  ASSUME NEW r, IsClient(r)
  PROVE  Changes(r, FlushEntity(r)[1], {})
  <1> DEFINE word == Value(r, "word", AllBits)
             q == Read(r, "word")
  <1>1. Changes(r, q, {}) /\ IsClient(q)
    BY ReadChanges, KindsNamed DEF Changes
  <1> HIDE DEF word, q
  <1>2. Changes(q, [q EXCEPT !.stuck = TRUE], {})
    BY <1>1, PlaceNames DEF Changes, IsClient, Place
  <1>3. Changes(q, ParseDelta(q, word), {})
    BY <1>1, ParseDeltaChanges
  <1>4. FlushEntity(r)[1] \in {[q EXCEPT !.stuck = TRUE], q, ParseDelta(q, word)}
    BY DEF FlushEntity, word, q
  <1>5. Changes(r, [q EXCEPT !.stuck = TRUE], {}) /\ Changes(r, ParseDelta(q, word), {})
    BY <1>1, <1>2, <1>3, ReadsTwice
  <1> QED
    BY <1>1, <1>4, <1>5

\* What the recursion of Repeat computes for FlushEntity.
LEMMA FlushedRecursion ==
  ASSUME NEW r, Len(r.message) \in Nat
  PROVE  \E h : /\ h[0] = <<r, TRUE>>
                /\ \A n \in 1 .. Len(r.message) + 1 :
                     h[n] = IF h[n - 1][2] THEN FlushEntity(h[n - 1][1]) ELSE h[n - 1]
                /\ Flushed(r) = h[Len(r.message) + 1][1]
  <1> DEFINE Step(x) == Once(x, LAMBDA s : IF s[2] THEN FlushEntity(s[1]) ELSE s)
             Solves(N, h) == h = [n \in 0 .. N |->
                                    IF n = 0 THEN <<r, TRUE>> ELSE Step(h[n - 1])]
             S == {N \in Nat : \E h : Solves(N, h)}
             L == Len(r.message) + 1
  <1>0. \A x : Step(x) = IF x[2] THEN FlushEntity(x[1]) ELSE x
    BY DEF Once
  <1>1. 0 \in S
    <2> HIDE DEF Step
    <2>1. Solves(0, [n \in 0 .. 0 |-> <<r, TRUE>>])
      OBVIOUS
    <2> QED
      BY <2>1
  <1>2. ASSUME NEW N \in Nat, N \in S
        PROVE  N + 1 \in S
    <2> HIDE DEF Step
    <2>1. PICK g : Solves(N, g)
      BY <1>2
    <2> DEFINE v == Step(g[N])
               h == [n \in 0 .. N + 1 |-> IF n = N + 1 THEN v ELSE g[n]]
    <2>2. ASSUME NEW n \in 0 .. N + 1
          PROVE  h[n] = IF n = 0 THEN <<r, TRUE>> ELSE Step(h[n - 1])
      <3>1. CASE n = 0
        BY <2>1, <3>1
      <3>2. CASE n \in 1 .. N
        <4>1. h[n] = g[n] /\ h[n - 1] = g[n - 1]
          BY <3>2
        <4>2. g[n] = Step(g[n - 1])
          <5>1. n \in 0 .. N /\ n # 0
            BY <3>2
          <5>2. \A i \in 0 .. N : g[i] = IF i = 0 THEN <<r, TRUE>> ELSE Step(g[i - 1])
            BY <2>1, Zenon
          <5> QED
            BY <5>1, <5>2, Zenon
        <4> HIDE DEF h
        <4> QED
          BY <3>2, <4>1, <4>2
      <3>3. CASE n = N + 1
        <4>1. h[N] = g[N] /\ h[N + 1] = v
          OBVIOUS
        <4> HIDE DEF h
        <4> QED
          BY <3>3, <4>1
      <3> QED
        BY <3>1, <3>2, <3>3
    <2>3. Solves(N + 1, h)
      BY <2>2, Zenon
    <2> HIDE DEF h, Solves
    <2> QED
      BY <2>3
  <1> HIDE DEF S
  <1>3. L \in S
    BY <1>1, <1>2, Induction
  <1> DEFINE f == CHOOSE h : Solves(L, h)
  <1>4. Solves(L, f)
    <2> HIDE DEF Solves
    <2> QED
      BY <1>3 DEF S
  <1>5. Flushed(r) = f[L][1]
    BY DEF Flushed, Repeat
  <1> HIDE DEF f, Step
  <1>6. f[0] = <<r, TRUE>>
    BY <1>4, SMTT(20)
  <1>7. ASSUME NEW n \in 1 .. L
        PROVE  f[n] = IF f[n - 1][2] THEN FlushEntity(f[n - 1][1]) ELSE f[n - 1]
    <2>1. f[n] = Step(f[n - 1])
      <3>1. n \in 0 .. L /\ n # 0
        OBVIOUS
      <3>2. \A i \in 0 .. L : f[i] = IF i = 0 THEN <<r, TRUE>> ELSE Step(f[i - 1])
        BY <1>4, Zenon
      <3> QED
        BY <3>1, <3>2, Zenon
    <2> QED
      BY <1>0, <2>1
  <1> QED
    BY <1>5, <1>6, <1>7

LEMMA FlushedChanges ==
  ASSUME NEW r, IsClient(r), Len(r.message) \in Nat
  PROVE  Changes(r, Flushed(r), {})
  <1>1. PICK h : /\ h[0] = <<r, TRUE>>
                 /\ \A n \in 1 .. Len(r.message) + 1 :
                      h[n] = IF h[n - 1][2] THEN FlushEntity(h[n - 1][1]) ELSE h[n - 1]
                 /\ Flushed(r) = h[Len(r.message) + 1][1]
    BY FlushedRecursion
  <1> DEFINE S == {n \in Nat : n <= Len(r.message) + 1 => Changes(r, h[n][1], {})}
  <1>2. 0 \in S
    <2>1. h[0][1] = r
      BY <1>1
    <2> QED
      BY <2>1, ChangesNothing, ChangesMore
  <1>3. ASSUME NEW n \in Nat, n \in S
        PROVE  n + 1 \in S
    <2>1. SUFFICES ASSUME n + 1 <= Len(r.message) + 1
                   PROVE  Changes(r, h[n + 1][1], {})
      OBVIOUS
    <2> DEFINE q == h[n][1]
    <2>2. /\ Changes(r, q, {}) /\ (n + 1) - 1 = n
          /\ n + 1 \in 1 .. Len(r.message) + 1
      BY <1>3, <2>1
    <2>3. h[n + 1] = IF h[n][2] THEN FlushEntity(q) ELSE h[n]
      BY <1>1, <2>2
    <2>4. IsClient(q)
      BY <2>2 DEF Changes
    <2>5. Changes(q, FlushEntity(q)[1], {})
      BY <2>4, FlushEntityChanges
    <2>6. Changes(r, FlushEntity(q)[1], {})
      BY <2>2, <2>5, ChangesAgain
    <2> QED
      BY <2>2, <2>3, <2>6
  <1> HIDE DEF S
  <1>4. Len(r.message) + 1 \in S
    BY <1>2, <1>3, Induction
  <1> QED
    BY <1>1, <1>4 DEF S

LEMMA FlushEntityPacketChanges ==
  ASSUME NEW r, IsClient(r), Len(r.message) \in Nat, NEW q \in FlushEntityPacket(r)
  PROVE  Changes(r, q, {})
  <1> DEFINE f == Flushed(r)
             g == [f EXCEPT !.stuck = TRUE]
  <1>1. Changes(r, f, {}) /\ IsClient(f)
    BY FlushedChanges DEF Changes
  <1>2. q \in {f, g}
    BY DEF FlushEntityPacket
  <1> HIDE DEF f
  <1>3. Changes(f, g, {})
    BY <1>1, PlaceNames DEF Changes, IsClient, Place
  <1> QED
    BY <1>1, <1>2, <1>3, ReadsTwice

\* A field is assigned.
LEMMA AssignedChanges ==
  ASSUME NEW c, IsClient(c), NEW v
  PROVE  /\ Changes(c, [c EXCEPT !.protoversion = v], {"protoversion"})
         /\ Changes(c, [c EXCEPT !.servercount = v], {"servercount"})
         /\ Changes(c, [c EXCEPT !.loaded = v], {"loaded"})
         /\ Changes(c, [c EXCEPT !.reliable = v], {"reliable"})
         /\ Changes(c, [c EXCEPT !.command = v], {"command"})
         /\ Changes(c, [c EXCEPT !.abort = v], {"abort"})
         /\ Changes(c, [c EXCEPT !.fault = v], {"fault"})
         /\ Changes(c, [c EXCEPT !.validsequence = v], {"validsequence"})
         /\ Changes(c, [c EXCEPT !.deltapoint = v], {"deltapoint"})
  <1>1. Names \ Place \in SUBSET Names /\ Place \subseteq Names
        /\ {"protoversion", "servercount", "loaded", "reliable", "command", "abort",
            "fault", "validsequence", "deltapoint"} \subseteq Names \ Place
    BY DEF Names, Place
  <1> QED
    BY <1>1 DEF Changes, IsClient, Place

LEMMA ReadProtocolChanges ==
  ASSUME NEW c, IsClient(c)
  PROVE  Changes(c, ReadProtocol(c)[1], {"protoversion"})
  <1> DEFINE version == Value(c, "long", -1)
             r == Read(c, "long")
             q == [r EXCEPT !.protoversion = version]
  <1>1. Changes(c, r, {}) /\ IsClient(r)
    BY ReadChanges, KindsNamed DEF Changes
  <1> HIDE DEF r, version
  <1>2. Changes(r, q, {"protoversion"})
    BY <1>1, AssignedChanges
  <1>7. IsClient(q)
    BY <1>2 DEF Changes
  <1> HIDE DEF q
  <1>3. Changes(q, Read(q, "long"), {})
    BY <1>7, ReadChanges, KindsNamed
  <1>4. Changes(c, q, {"protoversion"})
    BY <1>1, <1>2, ChangesMore, ChangesAgain
  <1>5. Changes(c, Read(q, "long"), {"protoversion"})
    BY <1>3, <1>4, ChangesMore, ChangesAgain
  <1>6. ReadProtocol(c)[1] \in {q, Read(q, "long")}
    BY DEF ReadProtocol, q, r, version
  <1> QED
    BY <1>4, <1>5, <1>6

\* What the recursion of Repeat computes for ReadProtocol.
LEMMA ReadVersionRecursion ==
  ASSUME NEW r, Len(r.message) \in Nat
  PROVE  \E h : /\ h[0] = <<r, TRUE>>
                /\ \A n \in 1 .. Len(r.message) + 1 :
                     h[n] = IF h[n - 1][2] THEN ReadProtocol(h[n - 1][1]) ELSE h[n - 1]
                /\ ReadVersion(r) = h[Len(r.message) + 1][1]
  <1> DEFINE Step(x) == Once(x, LAMBDA s : IF s[2] THEN ReadProtocol(s[1]) ELSE s)
             Solves(N, h) == h = [n \in 0 .. N |->
                                    IF n = 0 THEN <<r, TRUE>> ELSE Step(h[n - 1])]
             S == {N \in Nat : \E h : Solves(N, h)}
             L == Len(r.message) + 1
  <1>0. \A x : Step(x) = IF x[2] THEN ReadProtocol(x[1]) ELSE x
    BY DEF Once
  <1>1. 0 \in S
    <2> HIDE DEF Step
    <2>1. Solves(0, [n \in 0 .. 0 |-> <<r, TRUE>>])
      OBVIOUS
    <2> QED
      BY <2>1
  <1>2. ASSUME NEW N \in Nat, N \in S
        PROVE  N + 1 \in S
    <2> HIDE DEF Step
    <2>1. PICK g : Solves(N, g)
      BY <1>2
    <2> DEFINE v == Step(g[N])
               h == [n \in 0 .. N + 1 |-> IF n = N + 1 THEN v ELSE g[n]]
    <2>2. ASSUME NEW n \in 0 .. N + 1
          PROVE  h[n] = IF n = 0 THEN <<r, TRUE>> ELSE Step(h[n - 1])
      <3>1. CASE n = 0
        BY <2>1, <3>1
      <3>2. CASE n \in 1 .. N
        <4>1. h[n] = g[n] /\ h[n - 1] = g[n - 1]
          BY <3>2
        <4>2. g[n] = Step(g[n - 1])
          <5>1. n \in 0 .. N /\ n # 0
            BY <3>2
          <5>2. \A i \in 0 .. N : g[i] = IF i = 0 THEN <<r, TRUE>> ELSE Step(g[i - 1])
            BY <2>1, Zenon
          <5> QED
            BY <5>1, <5>2, Zenon
        <4> HIDE DEF h
        <4> QED
          BY <3>2, <4>1, <4>2
      <3>3. CASE n = N + 1
        <4>1. h[N] = g[N] /\ h[N + 1] = v
          OBVIOUS
        <4> HIDE DEF h
        <4> QED
          BY <3>3, <4>1
      <3> QED
        BY <3>1, <3>2, <3>3
    <2>3. Solves(N + 1, h)
      BY <2>2, Zenon
    <2> HIDE DEF h, Solves
    <2> QED
      BY <2>3
  <1> HIDE DEF S
  <1>3. L \in S
    BY <1>1, <1>2, Induction
  <1> DEFINE f == CHOOSE h : Solves(L, h)
  <1>4. Solves(L, f)
    <2> HIDE DEF Solves
    <2> QED
      BY <1>3 DEF S
  <1>5. ReadVersion(r) = f[L][1]
    BY DEF ReadVersion, Repeat
  <1> HIDE DEF f, Step
  <1>6. f[0] = <<r, TRUE>>
    BY <1>4, SMTT(20)
  <1>7. ASSUME NEW n \in 1 .. L
        PROVE  f[n] = IF f[n - 1][2] THEN ReadProtocol(f[n - 1][1]) ELSE f[n - 1]
    <2>1. f[n] = Step(f[n - 1])
      <3>1. n \in 0 .. L /\ n # 0
        OBVIOUS
      <3>2. \A i \in 0 .. L : f[i] = IF i = 0 THEN <<r, TRUE>> ELSE Step(f[i - 1])
        BY <1>4, Zenon
      <3> QED
        BY <3>1, <3>2, Zenon
    <2> QED
      BY <1>0, <2>1
  <1> QED
    BY <1>5, <1>6, <1>7

LEMMA ReadVersionChanges ==
  ASSUME NEW r, IsClient(r), Len(r.message) \in Nat
  PROVE  Changes(r, ReadVersion(r), {"protoversion"})
  <1>1. PICK h : /\ h[0] = <<r, TRUE>>
                 /\ \A n \in 1 .. Len(r.message) + 1 :
                      h[n] = IF h[n - 1][2] THEN ReadProtocol(h[n - 1][1]) ELSE h[n - 1]
                 /\ ReadVersion(r) = h[Len(r.message) + 1][1]
    BY ReadVersionRecursion
  <1> DEFINE S == {n \in Nat : n <= Len(r.message) + 1 => Changes(r, h[n][1], {"protoversion"})}
  <1>2. 0 \in S
    <2>1. h[0][1] = r
      BY <1>1
    <2> QED
      BY <2>1, ChangesNothing, ChangesMore
  <1>3. ASSUME NEW n \in Nat, n \in S
        PROVE  n + 1 \in S
    <2>1. SUFFICES ASSUME n + 1 <= Len(r.message) + 1
                   PROVE  Changes(r, h[n + 1][1], {"protoversion"})
      OBVIOUS
    <2> DEFINE q == h[n][1]
    <2>2. /\ Changes(r, q, {"protoversion"}) /\ (n + 1) - 1 = n
          /\ n + 1 \in 1 .. Len(r.message) + 1
      BY <1>3, <2>1
    <2>3. h[n + 1] = IF h[n][2] THEN ReadProtocol(q) ELSE h[n]
      BY <1>1, <2>2
    <2>4. IsClient(q)
      BY <2>2 DEF Changes
    <2>5. Changes(q, ReadProtocol(q)[1], {"protoversion"})
      BY <2>4, ReadProtocolChanges
    <2>6. Changes(r, ReadProtocol(q)[1], {"protoversion"})
      BY <2>2, <2>5, ChangesAgain
    <2> QED
      BY <2>2, <2>3, <2>6
  <1> HIDE DEF S
  <1>4. Len(r.message) + 1 \in S
    BY <1>2, <1>3, Induction
  <1> QED
    BY <1>1, <1>4 DEF S

LEMMA ReadNameChanges ==
  ASSUME NEW c, IsClient(c)
  PROVE  Changes(c, ReadName(c)[1], {"loaded"})
  <1> DEFINE name == Value(c, "string", << >>)
             q == Read(c, "string")
             s == [q EXCEPT !.loaded = Append(@, name)]
  <1>1. Changes(c, q, {}) /\ IsClient(q)
    BY ReadChanges, KindsNamed DEF Changes
  <1>2. ReadName(c)[1] \in {q, s}
    BY DEF ReadName
  <1> HIDE DEF q, name
  <1>3. Changes(q, s, {"loaded"})
    BY <1>1, AssignedChanges
  <1> HIDE DEF s
  <1> QED
    BY <1>1, <1>2, <1>3, ChangesMore, ChangesAgain

\* What the recursion of Repeat computes for ReadName.
LEMMA ReadNamesRecursion ==
  ASSUME NEW r, Len(r.message) \in Nat
  PROVE  \E h : /\ h[0] = <<r, TRUE>>
                /\ \A n \in 1 .. Len(r.message) + 1 :
                     h[n] = IF h[n - 1][2] THEN ReadName(h[n - 1][1]) ELSE h[n - 1]
                /\ ReadNames(r) = h[Len(r.message) + 1][1]
  <1> DEFINE Step(x) == Once(x, LAMBDA s : IF s[2] THEN ReadName(s[1]) ELSE s)
             Solves(N, h) == h = [n \in 0 .. N |->
                                    IF n = 0 THEN <<r, TRUE>> ELSE Step(h[n - 1])]
             S == {N \in Nat : \E h : Solves(N, h)}
             L == Len(r.message) + 1
  <1>0. \A x : Step(x) = IF x[2] THEN ReadName(x[1]) ELSE x
    BY DEF Once
  <1>1. 0 \in S
    <2> HIDE DEF Step
    <2>1. Solves(0, [n \in 0 .. 0 |-> <<r, TRUE>>])
      OBVIOUS
    <2> QED
      BY <2>1
  <1>2. ASSUME NEW N \in Nat, N \in S
        PROVE  N + 1 \in S
    <2> HIDE DEF Step
    <2>1. PICK g : Solves(N, g)
      BY <1>2
    <2> DEFINE v == Step(g[N])
               h == [n \in 0 .. N + 1 |-> IF n = N + 1 THEN v ELSE g[n]]
    <2>2. ASSUME NEW n \in 0 .. N + 1
          PROVE  h[n] = IF n = 0 THEN <<r, TRUE>> ELSE Step(h[n - 1])
      <3>1. CASE n = 0
        BY <2>1, <3>1
      <3>2. CASE n \in 1 .. N
        <4>1. h[n] = g[n] /\ h[n - 1] = g[n - 1]
          BY <3>2
        <4>2. g[n] = Step(g[n - 1])
          <5>1. n \in 0 .. N /\ n # 0
            BY <3>2
          <5>2. \A i \in 0 .. N : g[i] = IF i = 0 THEN <<r, TRUE>> ELSE Step(g[i - 1])
            BY <2>1, Zenon
          <5> QED
            BY <5>1, <5>2, Zenon
        <4> HIDE DEF h
        <4> QED
          BY <3>2, <4>1, <4>2
      <3>3. CASE n = N + 1
        <4>1. h[N] = g[N] /\ h[N + 1] = v
          OBVIOUS
        <4> HIDE DEF h
        <4> QED
          BY <3>3, <4>1
      <3> QED
        BY <3>1, <3>2, <3>3
    <2>3. Solves(N + 1, h)
      BY <2>2, Zenon
    <2> HIDE DEF h, Solves
    <2> QED
      BY <2>3
  <1> HIDE DEF S
  <1>3. L \in S
    BY <1>1, <1>2, Induction
  <1> DEFINE f == CHOOSE h : Solves(L, h)
  <1>4. Solves(L, f)
    <2> HIDE DEF Solves
    <2> QED
      BY <1>3 DEF S
  <1>5. ReadNames(r) = f[L][1]
    BY DEF ReadNames, Repeat
  <1> HIDE DEF f, Step
  <1>6. f[0] = <<r, TRUE>>
    BY <1>4, SMTT(20)
  <1>7. ASSUME NEW n \in 1 .. L
        PROVE  f[n] = IF f[n - 1][2] THEN ReadName(f[n - 1][1]) ELSE f[n - 1]
    <2>1. f[n] = Step(f[n - 1])
      <3>1. n \in 0 .. L /\ n # 0
        OBVIOUS
      <3>2. \A i \in 0 .. L : f[i] = IF i = 0 THEN <<r, TRUE>> ELSE Step(f[i - 1])
        BY <1>4, Zenon
      <3> QED
        BY <3>1, <3>2, Zenon
    <2> QED
      BY <1>0, <2>1
  <1> QED
    BY <1>5, <1>6, <1>7

LEMMA ReadNamesChanges ==
  ASSUME NEW r, IsClient(r), Len(r.message) \in Nat
  PROVE  Changes(r, ReadNames(r), {"loaded"})
  <1>1. PICK h : /\ h[0] = <<r, TRUE>>
                 /\ \A n \in 1 .. Len(r.message) + 1 :
                      h[n] = IF h[n - 1][2] THEN ReadName(h[n - 1][1]) ELSE h[n - 1]
                 /\ ReadNames(r) = h[Len(r.message) + 1][1]
    BY ReadNamesRecursion
  <1> DEFINE S == {n \in Nat : n <= Len(r.message) + 1 => Changes(r, h[n][1], {"loaded"})}
  <1>2. 0 \in S
    <2>1. h[0][1] = r
      BY <1>1
    <2> QED
      BY <2>1, ChangesNothing, ChangesMore
  <1>3. ASSUME NEW n \in Nat, n \in S
        PROVE  n + 1 \in S
    <2>1. SUFFICES ASSUME n + 1 <= Len(r.message) + 1
                   PROVE  Changes(r, h[n + 1][1], {"loaded"})
      OBVIOUS
    <2> DEFINE q == h[n][1]
    <2>2. /\ Changes(r, q, {"loaded"}) /\ (n + 1) - 1 = n
          /\ n + 1 \in 1 .. Len(r.message) + 1
      BY <1>3, <2>1
    <2>3. h[n + 1] = IF h[n][2] THEN ReadName(q) ELSE h[n]
      BY <1>1, <2>2
    <2>4. IsClient(q)
      BY <2>2 DEF Changes
    <2>5. Changes(q, ReadName(q)[1], {"loaded"})
      BY <2>4, ReadNameChanges
    <2>6. Changes(r, ReadName(q)[1], {"loaded"})
      BY <2>2, <2>5, ChangesAgain
    <2> QED
      BY <2>2, <2>3, <2>6
  <1> HIDE DEF S
  <1>4. Len(r.message) + 1 \in S
    BY <1>2, <1>3, Induction
  <1> QED
    BY <1>1, <1>4 DEF S

-----------------------------------------------------------------------------
(* Messages as they are written. *)

\* A sequence, whatever is in it.
Listed(s) == s \in Seq({s[i] : i \in DOMAIN s})

LEMMA JoinIs ==
  ASSUME NEW V, NEW p \in Seq(V), NEW q \in Seq(V), NEW t,
         t = [i \in 1 .. Len(p) + Len(q) |-> t[i]],
         \A i \in 1 .. Len(p) : t[i] = p[i],
         \A i \in 1 .. Len(q) : t[Len(p) + i] = q[i]
  PROVE  t = p \o q
  <1> DEFINE n == Len(p)
             m == Len(q)
             u == p \o q
  <1>1. n \in Nat /\ m \in Nat
    OBVIOUS
  <1>2. u \in Seq(V) /\ Len(u) = n + m
    OBVIOUS
  <1>3. \A i \in 1 .. n : u[i] = p[i]
    OBVIOUS
  <1>4. \A i \in 1 .. m : u[n + i] = q[i]
    OBVIOUS
  <1> HIDE DEF u
  <1>5. u = [i \in 1 .. n + m |-> u[i]]
    BY <1>1, <1>2
  <1>6. ASSUME NEW i \in 1 .. n + m
        PROVE  u[i] = t[i]
    <2>1. CASE i \in 1 .. n
      BY <1>3, <2>1
    <2>2. CASE i \notin 1 .. n
      <3>1. i - n \in 1 .. m /\ n + (i - n) = i
        BY <1>1, <2>2
      <3> QED
        BY <1>4, <3>1
    <2> QED
      BY <2>1, <2>2
  <1>7. t = [i \in 1 .. n + m |-> t[i]]
    OBVIOUS
  <1> HIDE DEF n, m
  <1>8. t = u
    BY <1>5, <1>6, <1>7
  <1> QED
    BY <1>8 DEF u

LEMMA ListedIn ==
  ASSUME NEW V, NEW s \in Seq(V)
  PROVE  Listed(s)
  <1> DEFINE R == {s[i] : i \in DOMAIN s}
  <1>1. Len(s) \in Nat /\ DOMAIN s = 1 .. Len(s) /\ s = [i \in 1 .. Len(s) |-> s[i]]
    OBVIOUS
  <1>2. \A i \in 1 .. Len(s) : s[i] \in R
    BY <1>1
  <1> HIDE DEF R
  <1>3. [i \in 1 .. Len(s) |-> s[i]] \in Seq(R)
    BY <1>1, <1>2
  <1>4. s \in Seq(R)
    BY <1>1, <1>3
  <1> QED
    BY <1>4 DEF Listed, R

LEMMA ListedLen ==
  ASSUME NEW s, Listed(s)
  PROVE  Len(s) \in Nat /\ DOMAIN s = 1 .. Len(s)
  BY DEF Listed

LEMMA ListedJoin ==
  ASSUME NEW s, NEW t, Listed(s), Listed(t)
  PROVE  /\ Listed(s \o t) /\ Len(s \o t) = Len(s) + Len(t)
         /\ \A i \in 1 .. Len(s) : (s \o t)[i] = s[i]
         /\ \A i \in 1 .. Len(t) : (s \o t)[Len(s) + i] = t[i]
  <1> DEFINE V == {s[i] : i \in DOMAIN s} \cup {t[i] : i \in DOMAIN t}
  <1>1. s \in Seq(V) /\ t \in Seq(V)
    <2>1. \A X, Y : X \subseteq Y => Seq(X) \subseteq Seq(Y)
      OBVIOUS
    <2> QED
      BY <2>1 DEF Listed
  <1> HIDE DEF V
  <1>2. s \o t \in Seq(V)
    BY <1>1
  <1>3. Listed(s \o t)
    BY <1>2, ListedIn
  <1>4. Len(s \o t) = Len(s) + Len(t)
    BY <1>1
  <1>5. \A i \in 1 .. Len(s) : (s \o t)[i] = s[i]
    BY <1>1
  <1>6. \A i \in 1 .. Len(t) : (s \o t)[Len(s) + i] = t[i]
    BY <1>1
  <1> QED
    BY <1>3, <1>4, <1>5, <1>6

LEMMA ListedAgain ==
  ASSUME NEW s, NEW t, NEW u, Listed(s), Listed(t), Listed(u)
  PROVE  (s \o t) \o u = s \o (t \o u)
  <1> DEFINE V == {s[i] : i \in DOMAIN s} \cup {t[i] : i \in DOMAIN t}
                  \cup {u[i] : i \in DOMAIN u}
  <1>1. s \in Seq(V) /\ t \in Seq(V) /\ u \in Seq(V)
    <2>1. \A X, Y : X \subseteq Y => Seq(X) \subseteq Seq(Y)
      OBVIOUS
    <2> QED
      BY <2>1 DEF Listed
  <1> HIDE DEF V
  <1> QED
    BY <1>1

LEMMA ListedEmpty ==
  /\ Listed(<< >>)
  /\ \A s : Listed(s) => s \o << >> = s /\ << >> \o s = s
  <1>1. << >> \in Seq({})
    OBVIOUS
  <1>2. ASSUME NEW s, Listed(s)
        PROVE  s \o << >> = s /\ << >> \o s = s
    <2> DEFINE R == {s[i] : i \in DOMAIN s}
    <2>1. s \in Seq(R)
      BY <1>2 DEF Listed
    <2> HIDE DEF R
    <2> QED
      BY <2>1
  <1> QED
    BY <1>1, <1>2, ListedIn

\* What the other bytes of a field are.
Fillers == {Field("more", 0), Field("end", 0)}

\* The bytes of a field: the first carries it.
LEMMA BytesIs ==
  ASSUME NEW f
  PROVE  /\ Listed(Bytes(f)) /\ Bytes(f)[1] = f
         /\ f[1] \in DOMAIN Width => Len(Bytes(f)) = Width[f[1]]
         /\ f[1] = "string" => Len(Bytes(f)) = 2
         /\ f[1] \notin KindNames => Len(Bytes(f)) = 1
         /\ \A i \in 2 .. Len(Bytes(f)) : Bytes(f)[i] \in Fillers
  <1>1. CASE f[1] \in DOMAIN Width
    <2> DEFINE n == Width[f[1]]
               more == [i \in 1 .. n - 1 |-> Field("more", 0)]
    <2>1. n \in {1, 2, 4} /\ "string" \notin DOMAIN Width
      <3>1. "string" \notin DOMAIN Width
        BY DEF Width
      <3> QED
        BY <1>1, <3>1, WidthType
    <2>2. Bytes(f) = <<f>> \o more
      BY <1>1, <2>1 DEF Bytes
    <2> HIDE DEF n
    <2>3. more \in Seq({Field("more", 0)}) /\ Len(more) = n - 1
      BY <2>1
    <2>4. \A i \in 1 .. n - 1 : more[i] = Field("more", 0)
      OBVIOUS
    <2> HIDE DEF more
    <2>5. Listed(more) /\ Listed(<<f>>) /\ Len(<<f>>) = 1
      <3>1. <<f>> \in Seq({f})
        OBVIOUS
      <3> QED
        BY <2>3, <3>1, ListedIn
    <2>6. /\ Listed(Bytes(f)) /\ Len(Bytes(f)) = n
          /\ Bytes(f)[1] = f
          /\ \A i \in 1 .. n - 1 : Bytes(f)[1 + i] = Field("more", 0)
      BY <2>1, <2>2, <2>3, <2>4, <2>5, ListedJoin
    <2>7. \A i \in 2 .. n : Bytes(f)[i] = Field("more", 0)
      <3>1. \A i \in 2 .. n : i - 1 \in 1 .. n - 1 /\ 1 + (i - 1) = i
        BY <2>1
      <3> QED
        BY <2>6, <3>1
    <2>8. f[1] \in KindNames /\ f[1] # "string"
      BY <1>1, <2>1 DEF KindNames
    <2>9. Field("more", 0) \in Fillers
      BY DEF Fillers
    <2> QED
      BY <1>1, <2>6, <2>7, <2>8, <2>9 DEF n
  <1>2. CASE f[1] = "string"
    <2>1. f[1] \notin DOMAIN Width /\ f[1] \in KindNames
      BY <1>2 DEF Width, KindNames
    <2>2. Bytes(f) = <<f, Field("end", 0)>>
      BY <1>2, <2>1 DEF Bytes
    <2> DEFINE g == Field("end", 0)
    <2>3. g \in Fillers
      BY DEF Fillers
    <2> HIDE DEF g
    <2>4. <<f, g>> \in Seq({f, g}) /\ Len(<<f, g>>) = 2 /\ <<f, g>>[1] = f /\ <<f, g>>[2] = g
      OBVIOUS
    <2>5. Listed(<<f, g>>)
      BY <2>4, ListedIn
    <2>6. \A i \in 2 .. 2 : <<f, g>>[i] \in Fillers
      BY <2>3, <2>4
    <2> QED
      BY <1>2, <2>1, <2>2, <2>4, <2>5, <2>6 DEF g
  <1>3. CASE f[1] \notin DOMAIN Width /\ f[1] # "string"
    <2>1. Bytes(f) = <<f>>
      BY <1>3 DEF Bytes
    <2>2. <<f>> \in Seq({f}) /\ Len(<<f>>) = 1 /\ <<f>>[1] = f
      OBVIOUS
    <2>3. Listed(<<f>>)
      BY <2>2, ListedIn
    <2> QED
      BY <1>3, <2>1, <2>2, <2>3
  <1> QED
    BY <1>1, <1>2, <1>3

\* The bytes of fields, as sequences in the bytes of all of them.
LEMMA WrittenPieces ==
  ASSUME NEW V, NEW fields \in Seq(V)
  PROVE  [i \in DOMAIN fields |-> Bytes(fields[i])]
         \in Seq(Seq(UNION {{Bytes(f)[i] : i \in DOMAIN Bytes(f)} : f \in V}))
  <1> DEFINE B == UNION {{Bytes(f)[i] : i \in DOMAIN Bytes(f)} : f \in V}
  <1>1. ASSUME NEW f \in V
        PROVE  Bytes(f) \in Seq(B)
    <2>1. Bytes(f) \in Seq({Bytes(f)[i] : i \in DOMAIN Bytes(f)})
      BY BytesIs DEF Listed
    <2>2. {Bytes(f)[i] : i \in DOMAIN Bytes(f)} \subseteq B
      OBVIOUS
    <2> HIDE DEF B
    <2>3. \A X : X \subseteq B => Seq(X) \subseteq Seq(B)
      OBVIOUS
    <2> QED
      BY <2>1, <2>2, <2>3
  <1> HIDE DEF B
  <1>2. DOMAIN fields = 1 .. Len(fields) /\ Len(fields) \in Nat
    OBVIOUS
  <1>3. \A i \in 1 .. Len(fields) : Bytes(fields[i]) \in Seq(B)
    BY <1>1
  <1>4. [i \in 1 .. Len(fields) |-> Bytes(fields[i])] \in Seq(Seq(B))
    BY <1>2, <1>3
  <1> QED
    BY <1>2, <1>4 DEF B

LEMMA WrittenListed ==
  ASSUME NEW fields, Listed(fields)
  PROVE  Listed(Written(fields))
  <1> DEFINE V == {fields[i] : i \in DOMAIN fields}
             B == UNION {{Bytes(f)[i] : i \in DOMAIN Bytes(f)} : f \in V}
  <1>1. [i \in DOMAIN fields |-> Bytes(fields[i])] \in Seq(Seq(B))
    <2>1. fields \in Seq(V)
      BY DEF Listed
    <2> HIDE DEF V
    <2> QED
      BY <2>1, WrittenPieces
  <1> HIDE DEF B
  <1>2. Written(fields) \in Seq(B)
    BY <1>1, FlattenType DEF Written
  <1> QED
    BY <1>2, ListedIn

LEMMA WrittenConcat ==
  ASSUME NEW a, NEW b, Listed(a), Listed(b)
  PROVE  Written(a \o b) = Written(a) \o Written(b)
  <1> DEFINE V == {a[i] : i \in DOMAIN a} \cup {b[i] : i \in DOMAIN b}
             B == UNION {{Bytes(f)[i] : i \in DOMAIN Bytes(f)} : f \in V}
             P(s) == [i \in DOMAIN s |-> Bytes(s[i])]
  <1>1. a \in Seq(V) /\ b \in Seq(V)
    <2>1. \A X, Y : X \subseteq Y => Seq(X) \subseteq Seq(Y)
      OBVIOUS
    <2> QED
      BY <2>1 DEF Listed
  <1> HIDE DEF V
  <1>2. P(a) \in Seq(Seq(B)) /\ P(b) \in Seq(Seq(B))
    BY <1>1, WrittenPieces
  <1> HIDE DEF B
  <1>3. P(a \o b) = P(a) \o P(b)
    <2> DEFINE c == a \o b
               n == Len(a)
               m == Len(b)
               p == P(a)
               q == P(b)
               t == P(c)
    <2>1. /\ n \in Nat /\ m \in Nat /\ DOMAIN a = 1 .. n /\ DOMAIN b = 1 .. m
          /\ DOMAIN c = 1 .. n + m
          /\ \A i \in 1 .. n : c[i] = a[i]
          /\ \A i \in 1 .. m : c[n + i] = b[i]
      BY <1>1
    <2>2. p \in Seq(Seq(B)) /\ q \in Seq(Seq(B)) /\ Len(p) = n /\ Len(q) = m
      BY <1>2, <2>1
    <2>3. /\ \A i \in 1 .. n : p[i] = Bytes(a[i])
          /\ \A i \in 1 .. m : q[i] = Bytes(b[i])
          /\ \A i \in 1 .. n + m : t[i] = Bytes(c[i])
          /\ t = [i \in 1 .. n + m |-> Bytes(c[i])]
      BY <2>1
    <2> HIDE DEF p, q, t, n, m, c
    <2>4. \A i \in 1 .. n : t[i] = p[i]
      <3>1. \A i \in 1 .. n : i \in 1 .. n + m
        BY <2>1
      <3> QED
        BY <2>1, <2>3, <3>1
    <2>5. \A i \in 1 .. m : t[n + i] = q[i]
      <3>1. \A i \in 1 .. m : n + i \in 1 .. n + m
        BY <2>1
      <3> QED
        BY <2>1, <2>3, <3>1
    <2>6. t = [i \in 1 .. n + m |-> t[i]]
      BY <2>3
    <2>7. t = p \o q
      BY ONLY <2>2, <2>4, <2>5, <2>6, JoinIs
    <2> QED
      BY <2>7 DEF t, p, q, c
  <1> HIDE DEF P
  <1>4. FlattenSeq(P(a) \o P(b)) = FlattenSeq(P(a)) \o FlattenSeq(P(b))
    BY <1>2, FlattenConcat
  <1> QED
    BY <1>3, <1>4 DEF Written, P

LEMMA WrittenEmpty == Written(<< >>) = << >>
  <1>1. [i \in DOMAIN << >> |-> Bytes(<< >>[i])] = << >>
    OBVIOUS
  <1> QED
    BY <1>1, FlattenNone DEF Written

LEMMA WrittenOne ==
  ASSUME NEW f
  PROVE  Written(<<f>>) = Bytes(f)
  <1>1. [i \in DOMAIN <<f>> |-> Bytes(<<f>>[i])] = <<Bytes(f)>>
    <2> DEFINE v(g) == Bytes(g)
    <2> HIDE DEF v
    <2>1. [i \in DOMAIN <<f>> |-> v(<<f>>[i])] = <<v(f)>>
      OBVIOUS
    <2> QED
      BY <2>1 DEF v
  <1>2. Bytes(f) \in Seq({Bytes(f)[i] : i \in DOMAIN Bytes(f)})
    BY BytesIs DEF Listed
  <1>3. FlattenSeq(<<Bytes(f)>>) = Bytes(f)
    BY <1>2, FlattenOne
  <1> QED
    BY <1>1, <1>3 DEF Written

\* A field, and what is written behind it.
LEMMA WrittenFirst ==
  ASSUME NEW f, NEW gs, Listed(gs)
  PROVE  /\ Listed(<<f>> \o gs) /\ Written(<<f>> \o gs) = Bytes(f) \o Written(gs)
         /\ Listed(Written(gs)) /\ Listed(Bytes(f))
  <1>1. <<f>> \in Seq({f})
    OBVIOUS
  <1>2. Listed(<<f>>)
    BY <1>1, ListedIn
  <1>3. Listed(<<f>> \o gs)
    BY ONLY <1>2, Listed(gs), ListedJoin
  <1>4. Written(<<f>> \o gs) = Bytes(f) \o Written(gs)
    BY <1>2, WrittenConcat, WrittenOne, SMTT(20)
  <1> QED
    BY <1>3, <1>4, WrittenListed, BytesIs, Zenon

\* Some index of s holds x.
In(x, s) == \E i \in DOMAIN s : x = s[i]

LEMMA InJoin ==
  ASSUME NEW s, NEW t, Listed(s), Listed(t), NEW x, In(x, s \o t)
  PROVE  In(x, s) \/ In(x, t)
  <1>1. PICK i \in 1 .. Len(s) + Len(t) : x = (s \o t)[i]
    <2>1. DOMAIN (s \o t) = 1 .. Len(s) + Len(t)
      BY ListedJoin, ListedLen
    <2> QED
      BY <2>1 DEF In
  <1>2. Len(s) \in Nat /\ DOMAIN s = 1 .. Len(s) /\ Len(t) \in Nat /\ DOMAIN t = 1 .. Len(t)
    BY ListedLen
  <1>3. CASE i \in 1 .. Len(s)
    BY <1>1, <1>2, <1>3, ListedJoin DEF In
  <1>4. CASE i \notin 1 .. Len(s)
    <2>1. i - Len(s) \in 1 .. Len(t) /\ Len(s) + (i - Len(s)) = i
      BY <1>2, <1>4
    <2>2. (s \o t)[i] = t[i - Len(s)]
      BY <2>1, ListedJoin
    <2> QED
      BY <1>1, <1>2, <2>1, <2>2 DEF In
  <1> QED
    BY <1>3, <1>4

\* Short sequences.
LEMMA ListedShort ==
  ASSUME NEW a, NEW b, NEW c, NEW d, NEW e
  PROVE  /\ Listed(<<a>>) /\ Listed(<<a, b>>) /\ Listed(<<a, b, c>>)
         /\ Listed(<<a, b, c, d>>) /\ Listed(<<a, b, c, d, e>>)
         /\ \A x : In(x, <<a>>) => x = a
         /\ \A x : In(x, <<a, b>>) => x \in {a, b}
         /\ \A x : In(x, <<a, b, c>>) => x \in {a, b, c}
         /\ \A x : In(x, <<a, b, c, d>>) => x \in {a, b, c, d}
         /\ \A x : In(x, <<a, b, c, d, e>>) => x \in {a, b, c, d, e}
  <1>1. /\ <<a>> \in Seq({a}) /\ <<a, b>> \in Seq({a, b}) /\ <<a, b, c>> \in Seq({a, b, c})
        /\ <<a, b, c, d>> \in Seq({a, b, c, d})
        /\ <<a, b, c, d, e>> \in Seq({a, b, c, d, e})
    OBVIOUS
  <1>2. /\ Listed(<<a>>) /\ Listed(<<a, b>>) /\ Listed(<<a, b, c>>)
        /\ Listed(<<a, b, c, d>>) /\ Listed(<<a, b, c, d, e>>)
    BY <1>1, ListedIn
  <1>3. /\ \A x : In(x, <<a>>) => x = a
        /\ \A x : In(x, <<a, b>>) => x \in {a, b}
        /\ \A x : In(x, <<a, b, c>>) => x \in {a, b, c}
    BY DEF In
  <1>4. \A x : In(x, <<a, b, c, d>>) => x \in {a, b, c, d}
    BY DEF In
  <1>5. \A x : In(x, <<a, b, c, d, e>>) => x \in {a, b, c, d, e}
    BY DEF In
  <1> QED
    BY <1>2, <1>3, <1>4, <1>5

LEMMA BytesLen ==
  ASSUME NEW f
  PROVE  Len(Bytes(f)) \in Nat /\ Len(Bytes(f)) >= 1 /\ DOMAIN Bytes(f) = 1 .. Len(Bytes(f))
  <1>1. Len(Bytes(f)) \in Nat /\ DOMAIN Bytes(f) = 1 .. Len(Bytes(f))
    BY BytesIs, ListedLen
  <1>2. CASE f[1] \in DOMAIN Width
    BY <1>1, <1>2, BytesIs, WidthType
  <1>3. CASE f[1] = "string"
    BY <1>1, <1>3, BytesIs
  <1>4. CASE f[1] \notin DOMAIN Width /\ f[1] # "string"
    BY <1>1, <1>4, BytesIs DEF KindNames
  <1> QED
    BY <1>1, <1>2, <1>3, <1>4

\* Each byte of a message is the first of a field or says nothing.
LEMMA WrittenIn ==
  ASSUME NEW fields, Listed(fields), NEW x, In(x, Written(fields))
  PROVE  In(x, fields) \/ x \in Fillers
  <1> DEFINE V == {fields[i] : i \in DOMAIN fields} \cup Fillers
             P == [i \in DOMAIN fields |-> Bytes(fields[i])]
  <1>1. ASSUME NEW i \in DOMAIN fields
        PROVE  Bytes(fields[i]) \in Seq(V)
    <2> DEFINE f == fields[i]
               b == Bytes(f)
    <2>1. \A j \in DOMAIN b : b[j] \in V
      <3>1. b[1] = f /\ \A j \in 2 .. Len(b) : b[j] \in Fillers
        BY BytesIs
      <3>2. DOMAIN b = 1 .. Len(b) /\ Len(b) \in Nat
        BY BytesLen
      <3>3. f \in V /\ Fillers \subseteq V
        OBVIOUS
      <3> HIDE DEF b, f, V
      <3>4. \A j \in 1 .. Len(b) : j = 1 \/ j \in 2 .. Len(b)
        BY <3>2
      <3> QED
        BY <3>1, <3>2, <3>3, <3>4
    <2>2. b \in Seq({b[j] : j \in DOMAIN b})
      BY BytesIs DEF Listed
    <2> HIDE DEF V, b
    <2>3. {b[j] : j \in DOMAIN b} \subseteq V
      BY <2>1
    <2>4. \A X, Y : X \subseteq Y => Seq(X) \subseteq Seq(Y)
      OBVIOUS
    <2>5. b \in Seq(V)
      BY <2>2, <2>3, <2>4
    <2> QED
      BY <2>5 DEF b
  <1>2. P \in Seq(Seq(V))
    <2>1. DOMAIN fields = 1 .. Len(fields) /\ Len(fields) \in Nat
      BY ListedLen
    <2> HIDE DEF V
    <2>2. \A i \in 1 .. Len(fields) : Bytes(fields[i]) \in Seq(V)
      BY <1>1, <2>1
    <2>3. [i \in 1 .. Len(fields) |-> Bytes(fields[i])] \in Seq(Seq(V))
      BY <2>1, <2>2
    <2> QED
      BY <2>1, <2>3
  <1> HIDE DEF V, P
  <1>3. FlattenSeq(P) \in Seq(V)
    BY <1>2, FlattenType
  <1>4. Written(fields) \in Seq(V)
    BY <1>3 DEF Written, P
  <1>5. x \in V
    BY <1>4 DEF In
  <1> QED
    BY <1>5 DEF V, In

\* The first field of a message, and the bytes behind it.
LEMMA WrittenHead ==
  ASSUME NEW f, NEW gs, Listed(gs)
  PROVE  LET m == Written(<<f>> \o gs)
         IN  /\ Listed(m) /\ 1 \in DOMAIN m /\ m[1] = f
             /\ \A i \in DOMAIN m : i # 1 => In(m[i], gs) \/ m[i] \in Fillers
  <1> DEFINE b == Bytes(f)
             w == Written(gs)
             m == Written(<<f>> \o gs)
  <1>1. m = b \o w /\ Listed(b) /\ Listed(w) /\ Listed(m)
    BY WrittenFirst, WrittenListed
  <1>2. Len(b) \in Nat /\ Len(b) >= 1 /\ b[1] = f /\ \A j \in 2 .. Len(b) : b[j] \in Fillers
    BY BytesLen, BytesIs
  <1>3. /\ Len(w) \in Nat /\ Len(m) = Len(b) + Len(w) /\ DOMAIN m = 1 .. Len(b) + Len(w)
        /\ DOMAIN w = 1 .. Len(w)
        /\ \A i \in 1 .. Len(b) : m[i] = b[i]
        /\ \A i \in 1 .. Len(w) : m[Len(b) + i] = w[i]
    <2> HIDE DEF b, w, m
    <2> QED
      BY <1>1, <1>2, ListedJoin, ListedLen
  <1>4. \A x : In(x, w) => In(x, gs) \/ x \in Fillers
    BY WrittenIn
  <1> HIDE DEF b, w, m
  <1>5. ASSUME NEW i \in DOMAIN m, i # 1
        PROVE  In(m[i], gs) \/ m[i] \in Fillers
    <2>1. CASE i \in 1 .. Len(b)
      <3>1. i \in 2 .. Len(b)
        BY <1>2, <1>5, <2>1
      <3> QED
        BY <1>2, <1>3, <2>1, <3>1
    <2>2. CASE i \notin 1 .. Len(b)
      <3>1. i - Len(b) \in 1 .. Len(w) /\ Len(b) + (i - Len(b)) = i
        BY <1>2, <1>3, <2>2
      <3>2. m[i] = w[i - Len(b)]
        BY <1>3, <3>1
      <3> QED
        BY <1>3, <1>4, <3>1, <3>2 DEF In
    <2> QED
      BY <2>1, <2>2
  <1>6. 1 \in 1 .. Len(b) /\ 1 \in DOMAIN m
    BY <1>2, <1>3
  <1>7. m[1] = f
    BY <1>2, <1>3, <1>6
  <1> QED
    BY <1>1, <1>5, <1>6, <1>7 DEF m

LEMMA UnnamedIn ==
  ASSUME NEW K, NEW kinds \in Seq(K)
  PROVE  /\ Listed(Unnamed(kinds))
         /\ \A x : In(x, Unnamed(kinds)) => \E kind \in K : x = Field(kind, 0)
  <1> DEFINE u == Unnamed(kinds)
             V == {Field(kind, 0) : kind \in K}
  <1>1. DOMAIN kinds = 1 .. Len(kinds) /\ Len(kinds) \in Nat
        /\ \A i \in 1 .. Len(kinds) : kinds[i] \in K
    OBVIOUS
  <1>2. \A i \in 1 .. Len(kinds) : Field(kinds[i], 0) \in V
    BY <1>1
  <1> HIDE DEF V
  <1>3. u = [i \in 1 .. Len(kinds) |-> Field(kinds[i], 0)]
    BY <1>1 DEF Unnamed
  <1>4. u \in Seq(V)
    BY <1>1, <1>2, <1>3
  <1>5. Listed(u)
    BY <1>4, ListedIn
  <1>6. \A x : In(x, u) => x \in V
    BY <1>4 DEF In
  <1> QED
    BY <1>5, <1>6 DEF V

-----------------------------------------------------------------------------
(* What a server sends. *)

\* What a text that is carried out must be.
IsText(text) == text.verb = "cmd" => text.request.n \in Int

\* A field behind the command name.
Fit(name, g) ==
  /\ g = Field(g[1], g[2])
  /\ g[1] # "svc"
  /\ g[1] = "byte" => g[2] \in Int
  /\ name = "print" /\ g[1] = "string" => g[2] \in Seq(Nat)
  /\ name \in {"stufftext", "updatestat"} /\ g[1] = "string" => IsText(g[2])
  /\ name = "download" /\ g[1] = "short" => g[2] \in {-1, 1}

AllFit(name, gs) == Listed(gs) /\ \A g : In(g, gs) => Fit(name, g)

PlainKinds == {"byte", "short", "char", "long", "float", "string", "data"}
Special == {"print", "stufftext", "updatestat", "download"}

LEMMA FitPlain ==
  ASSUME NEW name, NEW kind
  PROVE  /\ name \notin Special /\ kind \in PlainKinds => Fit(name, Field(kind, 0))
         /\ kind = "byte" => Fit(name, Field(kind, 0))
         /\ name \notin Special /\ kind \in {"word", "bits", "type", "end"}
            => \A value : Fit(name, Field(kind, value))
  BY DEF Fit, Field, Special, PlainKinds

LEMMA FitJoin ==
  ASSUME NEW name, NEW s, NEW t, AllFit(name, s), AllFit(name, t)
  PROVE  AllFit(name, s \o t)
  BY InJoin, ListedJoin DEF AllFit

LEMMA FitShort ==
  ASSUME NEW name, NEW a, NEW b, NEW c, NEW d, NEW e
  PROVE  /\ Fit(name, a) => AllFit(name, <<a>>)
         /\ Fit(name, a) /\ Fit(name, b) => AllFit(name, <<a, b>>)
         /\ Fit(name, a) /\ Fit(name, b) /\ Fit(name, c) => AllFit(name, <<a, b, c>>)
         /\ Fit(name, a) /\ Fit(name, b) /\ Fit(name, c) /\ Fit(name, d)
            => AllFit(name, <<a, b, c, d>>)
         /\ Fit(name, a) /\ Fit(name, b) /\ Fit(name, c) /\ Fit(name, d) /\ Fit(name, e)
            => AllFit(name, <<a, b, c, d, e>>)
  <1>1. /\ Listed(<<a>>) /\ Listed(<<a, b>>) /\ Listed(<<a, b, c>>)
        /\ Listed(<<a, b, c, d>>) /\ Listed(<<a, b, c, d, e>>)
        /\ \A x : In(x, <<a>>) => x = a
        /\ \A x : In(x, <<a, b>>) => x \in {a, b}
        /\ \A x : In(x, <<a, b, c>>) => x \in {a, b, c}
        /\ \A x : In(x, <<a, b, c, d>>) => x \in {a, b, c, d}
        /\ \A x : In(x, <<a, b, c, d, e>>) => x \in {a, b, c, d, e}
    BY ListedShort, Zenon
  <1>2. /\ Fit(name, a) => AllFit(name, <<a>>)
        /\ Fit(name, a) /\ Fit(name, b) => AllFit(name, <<a, b>>)
    BY <1>1, Zenon DEF AllFit
  <1>3. Fit(name, a) /\ Fit(name, b) /\ Fit(name, c) => AllFit(name, <<a, b, c>>)
    BY <1>1, Zenon DEF AllFit
  <1>4. Fit(name, a) /\ Fit(name, b) /\ Fit(name, c) /\ Fit(name, d)
        => AllFit(name, <<a, b, c, d>>)
    BY <1>1, Zenon DEF AllFit
  <1>5. Fit(name, a) /\ Fit(name, b) /\ Fit(name, c) /\ Fit(name, d) /\ Fit(name, e)
        => AllFit(name, <<a, b, c, d, e>>)
    BY <1>1, Zenon DEF AllFit
  <1> QED
    BY <1>2, <1>3, <1>4, <1>5

LEMMA FitNothing == \A name : AllFit(name, << >>)
  BY ListedEmpty DEF AllFit, In

LEMMA FitUnnamed ==
  ASSUME NEW name, NEW kinds, \/ name \notin Special /\ kinds \in Seq(PlainKinds)
                              \/ kinds \in Seq({"byte"})
  PROVE  AllFit(name, Unnamed(kinds))
  <1>1. CASE name \notin Special /\ kinds \in Seq(PlainKinds)
    BY <1>1, UnnamedIn, FitPlain DEF AllFit
  <1>2. CASE kinds \in Seq({"byte"})
    BY <1>2, UnnamedIn, FitPlain DEF AllFit
  <1> QED
    BY <1>1, <1>2

LEMMA FitOptional ==
  ASSUME NEW name, name \notin Special, NEW flags, NEW fields \in OptionalFields
  PROVE  AllFit(name, WrittenOptional(flags, fields))
  <1>1. Kinds(flags, fields) \in Seq(PlainKinds)
    <2>1. OptionalKinds \subseteq PlainKinds
      BY DEF OptionalKinds, PlainKinds
    <2>2. \A X, Y : X \subseteq Y => Seq(X) \subseteq Seq(Y)
      OBVIOUS
    <2> QED
      BY <2>1, <2>2, KindsType
  <1> QED
    BY <1>1, FitUnnamed DEF WrittenOptional

\* The tables of payloads.
LEMMA DocumentedType ==
  /\ \A svc \in DOMAIN Documented : Documented[svc] \in Seq(PlainKinds)
  /\ DOMAIN Documented \cap Special = {"updatestat"}
  /\ Documented["updatestat"] = <<"byte", "byte">>
  /\ {"packetentities", "playerinfo", "sound", "temp_entity", "serverdata", "soundlist",
      "modellist", "none"} \cap DOMAIN Documented = {}
  <1>1. DOMAIN Payload =
          {"centerprint", "damage", "setangle", "lightstyle", "updatefrags",
           "updateping", "updatepl", "updateentertime", "updateuserinfo",
           "spawnbaseline", "updatestat", "updatestatlong", "spawnstaticsound",
           "cdtrack", "muzzleflash", "setinfo", "chokecount"}
    BY DEF Payload
  <1>2. DOMAIN InProtocol =
          {"updatestat", "setview", "time", "setangle", "lightstyle", "updatefrags",
           "setpause", "centerprint", "spawnstaticsound", "intermission", "finale",
           "cdtrack", "updateping", "updateentertime", "updatestatlong", "muzzleflash",
           "updateuserinfo", "nails", "chokecount", "updatepl"}
    BY DEF InProtocol
  <1>3. \A svc \in DOMAIN Payload : Payload[svc] \in Seq(PlainKinds)
    <2>1. {Payload.centerprint, Payload.damage, Payload.setangle, Payload.lightstyle,
           Payload.updatefrags, Payload.updateping, Payload.updatepl,
           Payload.updateentertime, Payload.updateuserinfo, Payload.spawnbaseline,
           Payload.updatestat, Payload.updatestatlong, Payload.spawnstaticsound,
           Payload.cdtrack, Payload.muzzleflash, Payload.setinfo, Payload.chokecount}
          \subseteq Seq(PlainKinds)
      BY DEF Payload, ParseLightstyles, ParseBaseLine, ParseSpawnStaticSound, Vector,
             PlainKinds
    <2> QED
      BY <1>1, <2>1
  <1>4. \A svc \in DOMAIN InProtocol : InProtocol[svc] \in Seq(PlainKinds)
    <2>1. InProtocol.nails \in Seq(PlainKinds)
      <3>1. "data" \in PlainKinds
        BY DEF PlainKinds
      <3>2. [i \in 1 .. 7 |-> "data"] \in Seq(PlainKinds)
        BY <3>1
      <3> QED
        BY <3>2 DEF InProtocol
    <2>2. {InProtocol.updatestat, InProtocol.setview, InProtocol.time, InProtocol.setangle,
           InProtocol.lightstyle, InProtocol.updatefrags, InProtocol.setpause,
           InProtocol.centerprint, InProtocol.spawnstaticsound, InProtocol.intermission}
          \subseteq Seq(PlainKinds)
      BY DEF InProtocol, Vector, PlainKinds
    <2>3. {InProtocol.finale, InProtocol.cdtrack, InProtocol.updateping,
           InProtocol.updateentertime, InProtocol.updatestatlong, InProtocol.muzzleflash,
           InProtocol.updateuserinfo, InProtocol.chokecount, InProtocol.updatepl}
          \subseteq Seq(PlainKinds)
      BY DEF InProtocol, PlainKinds
    <2> QED
      BY <1>2, <2>1, <2>2, <2>3
  <1>5. \A svc \in DOMAIN Parsed : Parsed[svc] \in Seq(PlainKinds)
    BY <1>3 DEF Parsed
  <1>6. \A svc \in DOMAIN Documented : Documented[svc] \in Seq(PlainKinds)
    <2>1. <<"data">> \in Seq(PlainKinds)
      BY DEF PlainKinds
    <2> QED
      BY <1>4, <1>5, <2>1 DEF Documented
  <1>7. DOMAIN Parsed = DOMAIN Payload \cup Silent
        /\ DOMAIN Documented = DOMAIN InProtocol \cup (DOMAIN Parsed \ {"deltapacketentities"})
    BY DEF Parsed, Documented
  <1>8. DOMAIN Documented \cap Special = {"updatestat"}
    BY <1>1, <1>2, <1>7 DEF Special, Silent
  <1>9. Documented["updatestat"] = <<"byte", "byte">>
    <2>1. "updatestat" \in DOMAIN Documented /\ "updatestat" \in DOMAIN InProtocol
      BY <1>2, <1>7
    <2>4. "updatestat" \notin Undocumented
      BY DEF Undocumented
    <2>2. Documented["updatestat"] = InProtocol["updatestat"]
      BY <2>1, <2>4 DEF Documented
    <2>3. InProtocol["updatestat"] = <<"byte", "byte">>
      BY DEF InProtocol
    <2> QED
      BY <2>1, <2>2, <2>3
  <1>10. {"packetentities", "playerinfo", "sound", "temp_entity", "serverdata",
          "soundlist", "modellist", "none"} \cap DOMAIN Documented = {}
    BY <1>1, <1>2, <1>7 DEF Silent
  <1> QED
    BY <1>6, <1>8, <1>9, <1>10

LEMMA PlayerInfoFits ==
  ASSUME NEW flags, NEW bits, NEW version
  PROVE  AllFit("playerinfo", PlayerInfo(flags, bits, version))
  <1> DEFINE n == "playerinfo"
             fields == <<<<"CM_ANGLE1", "short">>, <<"CM_ANGLE2", "short">>,
                         <<"CM_ANGLE3", "short">>, <<"CM_FORWARD", "short">>,
                         <<"CM_SIDE", "short">>, <<"CM_UP", "short">>,
                         <<"CM_BUTTONS", "byte">>, <<"CM_IMPULSE", "byte">>>>
             msec == <<<<"PF_MSEC", "byte">>>>
  <1>1. n \notin Special
    BY DEF Special
  <1>2. {fields, msec, PlayerFields, UsercmdFields(26)} \subseteq OptionalFields
    <2> DEFINE P == FlagNames \X OptionalKinds
    <2>1. \A name \in FlagNames :
             {<<name, "byte">>, <<name, "char">>, <<name, "short">>} \subseteq P
      BY DEF OptionalKinds
    <2> HIDE DEF P
    <2>2. fields \in Seq(P) /\ msec \in Seq(P)
      BY <2>1 DEF FlagNames
    <2> QED
      BY <2>2, TablesType DEF P, OptionalFields
  <1>3. \A value : Fit(n, Field("bits", value)) /\ Fit(n, Field("word", value))
    BY <1>1, FitPlain
  <1>4. Fit(n, Field("byte", 0)) /\ Fit(n, Field("short", 0))
    BY <1>1, FitPlain DEF PlainKinds
  <1> HIDE DEF n, fields, msec
  <1>5. \A set, table : table \in OptionalFields => AllFit(n, WrittenOptional(set, table))
    BY <1>1, FitOptional
  <1>6. AllFit(n, <<Field("bits", bits)>>) /\ AllFit(n, <<Field("byte", 0)>>)
    BY <1>3, <1>4, FitShort
  <1>7. AllFit(n, WriteDeltaUsercmd(bits))
    <2> DEFINE w == WrittenOptional(bits, fields)
    <2>1. AllFit(n, w)
      BY <1>2, <1>5
    <2>2. WriteDeltaUsercmd(bits) = (<<Field("bits", bits)>> \o w) \o <<Field("byte", 0)>>
      BY DEF WriteDeltaUsercmd, fields
    <2> HIDE DEF w
    <2> QED
      BY <1>6, <2>1, <2>2, FitJoin
  <1>8. AllFit(n, Usercmd(bits, version))
    <2>1. AllFit(n, WrittenOptional(bits \cup {"always"}, UsercmdFields(26)))
      BY <1>2, <1>5
    <2> QED
      BY <1>6, <1>7, <2>1, FitJoin DEF Usercmd
  <1> DEFINE a == <<Field("byte", 0), Field("word", flags), Field("short", 0),
                    Field("short", 0), Field("short", 0), Field("byte", 0)>>
             b == WrittenOptional(flags, msec)
             c == IF "PF_COMMAND" \in flags THEN Usercmd(bits, version) ELSE << >>
             d == WrittenOptional(flags, PlayerFields)
  <1>9. AllFit(n, a)
    <2> DEFINE p == <<Field("byte", 0), Field("word", flags), Field("short", 0)>>
               q == <<Field("short", 0), Field("short", 0), Field("byte", 0)>>
    <2>1. AllFit(n, p) /\ AllFit(n, q)
      BY <1>3, <1>4, FitShort
    <2>2. a = p \o q
      OBVIOUS
    <2> HIDE DEF a, p, q
    <2> QED
      BY <2>1, <2>2, FitJoin
  <1>10. AllFit(n, b) /\ AllFit(n, c) /\ AllFit(n, d)
    BY <1>2, <1>5, <1>8, FitNothing
  <1>11. PlayerInfo(flags, bits, version) = ((a \o b) \o c) \o d
    BY DEF PlayerInfo, msec
  <1> HIDE DEF a, b, c, d
  <1>12. AllFit(n, ((a \o b) \o c) \o d)
    BY <1>9, <1>10, FitJoin
  <1> QED
    BY <1>11, <1>12 DEF n

LEMMA SoundPacketFits ==
  ASSUME NEW flags
  PROVE  AllFit("sound", SoundPacket(flags))
  <1> DEFINE n == "sound"
             a == <<Field("word", flags)>>
             b == WrittenOptional(flags, SoundFields)
             c == <<Field("byte", 0), Field("short", 0), Field("short", 0),
                    Field("short", 0)>>
  <1>1. n \notin Special
    BY DEF Special
  <1>2. Fit(n, Field("word", flags)) /\ Fit(n, Field("byte", 0)) /\ Fit(n, Field("short", 0))
    BY <1>1, FitPlain DEF PlainKinds
  <1>3. AllFit(n, a) /\ AllFit(n, c)
    BY <1>2, FitShort
  <1>4. AllFit(n, b)
    BY <1>1, FitOptional, TablesType
  <1>5. SoundPacket(flags) = (a \o b) \o c
    BY DEF SoundPacket
  <1> HIDE DEF a, b, c
  <1> QED
    BY <1>3, <1>4, <1>5, FitJoin DEF n

LEMMA TempEntityFits ==
  ASSUME NEW te
  PROVE  AllFit("temp_entity", TempEntity(te))
  <1> DEFINE n == "temp_entity"
  <1>1. n \notin Special
    BY DEF Special
  <1>2. Fit(n, Field("type", te))
    BY <1>1, FitPlain
  <1>3. TempEntityPayload(te) \in Seq(PlainKinds)
    <2>1. Vector \in Seq(PlainKinds) /\ <<"byte">> \in Seq(PlainKinds)
          /\ <<"short">> \in Seq(PlainKinds)
      BY DEF Vector, PlainKinds
    <2>2. ParseBeam \in Seq(PlainKinds) /\ <<"byte">> \o Vector \in Seq(PlainKinds)
      BY <2>1 DEF ParseBeam
    <2> QED
      BY <2>1, <2>2 DEF TempEntityPayload
  <1>4. AllFit(n, Unnamed(TempEntityPayload(te)))
    BY <1>1, <1>3, FitUnnamed
  <1>5. AllFit(n, <<Field("type", te)>>)
    BY <1>2, FitShort
  <1> HIDE DEF n
  <1>6. AllFit(n, TempEntity(te))
    BY <1>4, <1>5, FitJoin DEF TempEntity
  <1> QED
    BY <1>6 DEF n

LEMMA StuffFits ==
  ASSUME NEW text, IsText(text), NEW name, name \in {"stufftext", "updatestat"}
  PROVE  AllFit(name, <<Field("string", text)>>)
  <1>1. Fit(name, Field("string", text))
    BY DEF Fit, Field
  <1> QED
    BY <1>1, FitShort

\* ServerData behind its command.
Data(level, extended) ==
  (IF extended THEN <<Field("long", QW_PROTOEXT_FTEX), Field("long", 0)>> ELSE << >>)
  \o <<Field("long", 28), Field("long", level), Field("string", 0),
       Field("byte", 1), Field("string", 0)>>
  \o [i \in 1 .. 10 |-> Field("float", 0)]

LEMMA ServerDataFits ==
  ASSUME NEW level, NEW extended
  PROVE  /\ ServerData(level, extended) = <<Svc("serverdata")>> \o Data(level, extended)
         /\ AllFit("serverdata", Data(level, extended))
  <1> DEFINE n == "serverdata"
             a == IF extended THEN <<Field("long", QW_PROTOEXT_FTEX), Field("long", 0)>>
                  ELSE << >>
             b == <<Field("long", 28), Field("long", level), Field("string", 0),
                    Field("byte", 1), Field("string", 0)>>
             c == [i \in 1 .. 10 |-> Field("float", 0)]
             s == <<Svc("serverdata")>>
  <1>1. \A value : Fit(n, Field("long", value)) /\ Fit(n, Field("string", value))
                   /\ Fit(n, Field("float", value))
    BY DEF Fit, Field
  <1>2. Fit(n, Field("byte", 1))
    BY DEF Fit, Field
  <1> HIDE DEF n
  <1>3. AllFit(n, a)
    BY <1>1, FitShort, FitNothing
  <1>4. AllFit(n, b)
    BY <1>1, <1>2, FitShort
  <1>5. AllFit(n, c)
    <2> DEFINE f == Field("float", 0)
    <2> HIDE DEF f
    <2>1. [i \in 1 .. 10 |-> f] \in Seq({f})
      OBVIOUS
    <2>2. Listed([i \in 1 .. 10 |-> f])
      BY <2>1, ListedIn
    <2>3. \A g : In(g, [i \in 1 .. 10 |-> f]) => g = f
      BY DEF In
    <2>4. Fit(n, f)
      BY <1>1 DEF f
    <2> QED
      BY <2>2, <2>3, <2>4 DEF AllFit, f
  <1>6. Listed(s)
    BY ListedShort
  <1>7. ServerData(level, extended) = ((s \o a) \o b) \o c
        /\ Data(level, extended) = (a \o b) \o c
    BY DEF ServerData, Data
  <1> HIDE DEF a, b, c, s
  <1>8. Listed(a) /\ Listed(b) /\ Listed(c) /\ Listed(a \o b)
    BY <1>3, <1>4, <1>5, ListedJoin DEF AllFit
  <1>9. ((s \o a) \o b) \o c = s \o ((a \o b) \o c)
    <2>1. (s \o a) \o b = s \o (a \o b)
      BY ONLY <1>6, <1>8, ListedAgain, SMTT(20)
    <2>2. (s \o (a \o b)) \o c = s \o ((a \o b) \o c)
      <3> DEFINE u == a \o b
      <3>1. Listed(u) /\ Listed(c)
        BY <1>8
      <3> HIDE DEF u
      <3>2. (s \o u) \o c = s \o (u \o c)
        BY ONLY <1>6, <3>1, ListedAgain, SMTT(20)
      <3> QED
        BY <3>2 DEF u
    <2> QED
      BY <2>1, <2>2
  <1>10. AllFit(n, (a \o b) \o c)
    BY <1>3, <1>4, <1>5, FitJoin
  <1> QED
    BY <1>7, <1>9, <1>10 DEF s, n

\* ListChunk behind its command.
LastOf(size, n) == IF n + 2 < size THEN n + 2 ELSE size
Chunk(list, size, n) ==
  <<Field("byte", n)>>
  \o [i \in 1 .. LastOf(size, n) - n |-> Text(<<list, n + i>>)]
  \o <<Text(<< >>), Field("byte", IF LastOf(size, n) < size THEN LastOf(size, n) ELSE 0)>>

LEMMA ListChunkFits ==
  ASSUME NEW list \in {"soundlist", "modellist"}, NEW size \in Nat, NEW n \in Int
  PROVE  /\ ListChunk(list, size, n) = <<Svc(list)>> \o Chunk(list, size, n)
         /\ AllFit(list, Chunk(list, size, n))
         /\ [i \in 1 .. LastOf(size, n) - n |-> Text(<<list, n + i>>)]
            \in Seq({Field("string", <<list, n + i>>) : i \in Int})
  <1> DEFINE last == LastOf(size, n)
             k == last - n
             more == IF last < size THEN last ELSE 0
             s == <<Svc(list)>>
             a == <<Field("byte", n)>>
             b == [i \in 1 .. k |-> Text(<<list, n + i>>)]
             c == <<Text(<< >>), Field("byte", more)>>
             N == {Field("string", <<list, n + i>>) : i \in Int}
  <1>1. last \in Int /\ k \in Int /\ more \in Int
    BY DEF LastOf
  <1>2. list \notin Special
    BY DEF Special
  <1>3. ListChunk(list, size, n) = (s \o <<Field("byte", n)>>) \o b \o c
    <2>1. <<Svc(list), Field("byte", n)>> = s \o <<Field("byte", n)>>
      OBVIOUS
    <2> QED
      BY <2>1 DEF ListChunk, LastOf
  <1>4. Chunk(list, size, n) = (a \o b) \o c
    BY DEF Chunk
  <1>5. Fit(list, Field("byte", n)) /\ Fit(list, Field("byte", more))
    BY <1>1, <1>2 DEF Fit, Field, Special
  <1>6. \A i : Text(<<list, n + i>>) = Field("string", <<list, n + i>>)
    BY DEF Text
  <1>7. \A i : Fit(list, Field("string", <<list, n + i>>))
    BY <1>2 DEF Fit, Field, Special
  <1>8. b \in Seq(N)
    <2>0. k \in Int /\ (k >= 0 \/ k < 0)
      BY <1>1
    <2>1. \A i \in 1 .. k : Text(<<list, n + i>>) \in N
      BY <1>1, <1>6
    <2> DEFINE v(i) == Text(<<list, n + i>>)
    <2>2. \A i \in 1 .. k : v(i) \in N
      BY <2>1
    <2> HIDE DEF v, N, k
    <2>3. [i \in 1 .. k |-> v(i)] \in Seq(N)
      <3>1. CASE k >= 0
        <4>1. k \in Nat
          BY <2>0, <3>1
        <4> QED
          BY <2>2, <4>1
      <3>2. CASE k < 0
        <4>1. 1 .. k = {} /\ 1 .. 0 = {}
          BY <2>0, <3>2
        <4>2. [i \in 1 .. k |-> v(i)] = << >>
          BY <4>1
        <4>3. << >> \in Seq(N)
          OBVIOUS
        <4> QED
          BY <4>2, <4>3, Zenon
      <3> QED
        BY <2>0, <3>1, <3>2
    <2> QED
      BY <2>3 DEF v
  <1>9. AllFit(list, b)
    <2>1. Listed(b)
      BY <1>8, ListedIn
    <2>2. \A g : In(g, b) => g \in N
      <3> HIDE DEF b, N
      <3> QED
        BY <1>8 DEF In
    <2> QED
      BY <1>7, <2>1, <2>2 DEF AllFit
  <1>10. AllFit(list, a) /\ AllFit(list, c)
    <2>1. Fit(list, Text(<< >>))
      BY <1>2, FitPlain DEF Text
    <2> QED
      BY <1>5, <2>1, FitShort
  <1>11. Listed(s)
    BY ListedShort
  <1>12. Listed(a) /\ Listed(b) /\ Listed(c) /\ Listed(a \o b)
    BY <1>9, <1>10, ListedJoin DEF AllFit
  <1> HIDE DEF s, b, c, N
  <1>13. ListChunk(list, size, n) = s \o Chunk(list, size, n)
    <2> HIDE DEF a
    <2>1. (s \o a) \o b = s \o (a \o b)
      BY ONLY <1>11, <1>12, ListedAgain, SMTT(20)
    <2>2. (s \o (a \o b)) \o c = s \o ((a \o b) \o c)
      BY ONLY <1>11, <1>12, ListedAgain, SMTT(20)
    <2>3. (s \o a) \o b \o c = s \o Chunk(list, size, n)
      BY ONLY <1>4, <2>1, <2>2
    <2> QED
      BY <1>3, <2>3 DEF a
  <1>14. AllFit(list, Chunk(list, size, n))
    BY <1>4, <1>9, <1>10, FitJoin
  <1> QED
    BY <1>8, <1>13, <1>14 DEF s, b, N

LEMMA EntityFits ==
  ASSUME NEW flags
  PROVE  /\ AllFit("packetentities", Entity(flags))
         /\ Len(Entity(flags)) \in Nat /\ Len(Entity(flags)) >= 1
         /\ \E word : "entity" \in word /\ Entity(flags)[1] = Field("word", word)
         /\ \A g : In(g, Entity(flags)) /\ g[1] = "word" => "entity" \in g[2]
  <1> DEFINE n == "packetentities"
             more == flags \cap MoreFlags
             word == {"entity"} \cup (flags \cap WordFlags)
                     \cup (IF more = {} THEN {} ELSE {"U_MOREBITS"})
             a == <<Field("word", word)>>
             b == IF more = {} THEN << >> ELSE <<Field("bits", more)>>
             c == WrittenOptional(flags, DeltaFields)
  <1>1. n \notin Special
    BY DEF Special
  <1>2. "entity" \in word
    OBVIOUS
  <1>3. \A value : Fit(n, Field("word", value)) /\ Fit(n, Field("bits", value))
    BY <1>1, FitPlain
  <1> HIDE DEF n, word
  <1>4. AllFit(n, a) /\ AllFit(n, b)
    BY <1>3, FitShort, FitNothing
  <1>5. AllFit(n, c)
    BY <1>1, FitOptional, TablesType
  <1>6. Entity(flags) = (a \o b) \o c
    BY DEF Entity, word
  <1>7. \A g : In(g, a) => g = Field("word", word)
    BY ListedShort
  <1>8. \A g : In(g, b) => g[1] = "bits"
    BY ListedShort DEF In, Field
  <1>9. \A g : In(g, c) => g[1] # "word"
    <2>1. Kinds(flags, DeltaFields) \in Seq(OptionalKinds)
      BY KindsType, TablesType
    <2>2. \A g : In(g, c) => \E kind \in OptionalKinds : g = Field(kind, 0)
      BY <2>1, UnnamedIn DEF WrittenOptional
    <2> QED
      BY <2>2 DEF OptionalKinds, Field
  <1>10. a[1] = Field("word", word) /\ Len(a) = 1 /\ Field("word", word)[2] = word
         /\ Field("word", word)[1] = "word"
    BY DEF Field
  <1> HIDE DEF a, b, c
  <1>11. Listed(a) /\ Listed(b) /\ Listed(c)
    BY <1>4, <1>5 DEF AllFit
  <1>12. Listed(a \o b) /\ Len(a \o b) = 1 + Len(b) /\ (a \o b)[1] = a[1]
    <2>1. 1 \in 1 .. Len(a) /\ Len(a) = 1
      BY <1>10
    <2>2. Listed(a) /\ Listed(b)
      BY <1>11
    <2>3. Listed(a \o b) /\ Len(a \o b) = Len(a) + Len(b)
          /\ \A i \in 1 .. Len(a) : (a \o b)[i] = a[i]
      BY ONLY <2>2, ListedJoin
    <2> QED
      BY <2>1, <2>3
  <1>13. Len(b) \in Nat /\ Len(c) \in Nat
    BY <1>11, ListedLen
  <1>14. Len((a \o b) \o c) = (1 + Len(b)) + Len(c) /\ ((a \o b) \o c)[1] = a[1]
    <2> DEFINE u == a \o b
    <2>1. 1 \in 1 .. Len(u)
      BY <1>12, <1>13
    <2>2. Listed(u) /\ Listed(c) /\ Len(u) = 1 + Len(b) /\ u[1] = a[1]
      BY <1>11, <1>12
    <2> HIDE DEF u
    <2>3. Len(u \o c) = Len(u) + Len(c) /\ \A i \in 1 .. Len(u) : (u \o c)[i] = u[i]
      BY ONLY <2>2, ListedJoin
    <2> QED
      BY <2>1, <2>2, <2>3 DEF u
  <1>15. \A g : In(g, (a \o b) \o c) => In(g, a) \/ In(g, b) \/ In(g, c)
    BY <1>11, <1>12, InJoin
  <1>16. \A g : In(g, (a \o b) \o c) /\ g[1] = "word" => "entity" \in g[2]
    BY <1>2, <1>7, <1>8, <1>9, <1>10, <1>15
  <1>17. AllFit(n, (a \o b) \o c)
    BY <1>4, <1>5, FitJoin
  <1>18. \E w : "entity" \in w /\ Entity(flags)[1] = Field("word", w)
    BY <1>2, <1>6, <1>10, <1>14
  <1> QED
    BY <1>6, <1>13, <1>14, <1>16, <1>17, <1>18 DEF n

\* The entities of an update: none, one, or two.
IsEntities(es) ==
  \/ es = << >>
  \/ \E flags \in SUBSET (WordFlags \cup MoreFlags) : es = Entity(flags)
  \/ \E flags \in SUBSET (WordFlags \cup MoreFlags) : es = Entity({}) \o Entity(flags)

\* An update that begins with its end has no entities.
Update(gs) ==
  gs[1] = Field("word", {})
  => \A g : In(g, gs) /\ g[1] = "word" => "entity" \notin g[2]

LEMMA UpdateFits ==
  ASSUME NEW es, IsEntities(es)
  PROVE  /\ AllFit("packetentities", es) /\ AllFit("packetentities", es \o EndOfEntities)
         /\ Update(es \o EndOfEntities)
         /\ Len(es \o EndOfEntities) >= 1
         /\ (es \o EndOfEntities)[1][1] = "word"
         /\ \A g : In(g, es) /\ g[1] = "word" => "entity" \in g[2]
  <1> DEFINE n == "packetentities"
             end == Field("word", {})
  <1>1. EndOfEntities = <<end>> /\ Len(<<end>>) = 1 /\ <<end>>[1] = end /\ end[1] = "word"
        /\ end[2] = {}
    BY DEF EndOfEntities, Field
  <1>2. AllFit(n, <<end>>)
    <2>1. Fit(n, end)
      BY FitPlain DEF Special
    <2> HIDE DEF n
    <2> QED
      BY <2>1, FitShort
  <1>3. \A g : In(g, <<end>>) => g = end
    BY ListedShort
  <1>4. \/ es = << >>
        \/ /\ AllFit(n, es) /\ Len(es) >= 1
           /\ \E word : "entity" \in word /\ es[1] = Field("word", word)
           /\ \A g : In(g, es) /\ g[1] = "word" => "entity" \in g[2]
    <2>1. CASE es = << >>
      BY <2>1
    <2>2. CASE \E flags \in SUBSET (WordFlags \cup MoreFlags) : es = Entity(flags)
      BY <2>2, EntityFits
    <2>3. CASE \E flags \in SUBSET (WordFlags \cup MoreFlags) :
                 es = Entity({}) \o Entity(flags)
      <3>7. PICK flags : es = Entity({}) \o Entity(flags)
        BY <2>3
      <3> DEFINE a == Entity({})
                 b == Entity(flags)
      <3>1. AllFit(n, a) /\ AllFit(n, b) /\ Len(a) \in Nat /\ Len(a) >= 1
            /\ Len(b) \in Nat
            /\ (\E word : "entity" \in word /\ a[1] = Field("word", word))
            /\ (\A g : In(g, a) /\ g[1] = "word" => "entity" \in g[2])
            /\ (\A g : In(g, b) /\ g[1] = "word" => "entity" \in g[2])
        BY EntityFits
      <3> HIDE DEF a, b, n
      <3>2. AllFit(n, a \o b)
        BY <3>1, FitJoin
      <3>3. Listed(a) /\ Listed(b)
        BY <3>1 DEF AllFit
      <3>4. Len(a \o b) = Len(a) + Len(b) /\ (a \o b)[1] = a[1]
        <4>1. 1 \in 1 .. Len(a)
          BY <3>1
        <4> QED
          BY <3>3, <4>1, ListedJoin
      <3>5. \A g : In(g, a \o b) => In(g, a) \/ In(g, b)
        BY <3>3, InJoin
      <3>6. es = a \o b
        BY <3>7 DEF a, b
      <3> QED
        BY <3>1, <3>2, <3>4, <3>5, <3>6
    <2> QED
      BY <2>1, <2>2, <2>3 DEF IsEntities
  <1> HIDE DEF n, end
  <1>5. CASE es = << >>
    <2>1. es \o EndOfEntities = <<end>>
      BY <1>1, <1>5
    <2>2. \A g : ~In(g, es)
      BY <1>5 DEF In
    <2>3. Update(<<end>>)
      BY <1>1, <1>3 DEF Update
    <2> QED
      BY <1>1, <1>2, <1>5, <2>1, <2>2, <2>3, FitNothing DEF n
  <1>6. CASE es # << >>
    <2>1. /\ AllFit(n, es) /\ Len(es) >= 1
          /\ \E word : "entity" \in word /\ es[1] = Field("word", word)
          /\ \A g : In(g, es) /\ g[1] = "word" => "entity" \in g[2]
      BY <1>4, <1>6
    <2>2. Listed(es) /\ Listed(<<end>>)
      BY <1>2, <2>1 DEF AllFit
    <2>3. Len(es) \in Nat /\ 1 \in 1 .. Len(es)
      BY <2>1, <2>2, ListedLen
    <2>4. Len(es \o <<end>>) = Len(es) + 1 /\ (es \o <<end>>)[1] = es[1]
      BY <1>1, <2>2, <2>3, ListedJoin
    <2>5. es[1][1] = "word" /\ es[1] # end
      <3>1. PICK word : "entity" \in word /\ es[1] = Field("word", word)
        BY <2>1
      <3>2. es[1][1] = "word" /\ es[1][2] = word
        BY <3>1 DEF Field
      <3> QED
        BY <1>1, <3>1, <3>2
    <2>6. Update(es \o <<end>>)
      BY <2>4, <2>5 DEF Update, end
    <2>7. AllFit(n, es \o <<end>>)
      BY <1>2, <2>1, FitJoin
    <2> QED
      BY <1>1, <2>1, <2>3, <2>4, <2>5, <2>6, <2>7 DEF n
  <1> QED
    BY <1>5, <1>6

\* The commands a server sends to a client that has agreed on this version.
IsCommand(fs, version) ==
  \/ \E svc \in DOMAIN Documented : fs = <<Svc(svc)>> \o Unnamed(Documented[svc])
  \/ \E flags, bits : fs = <<Svc("playerinfo")>> \o PlayerInfo(flags, bits, version)
  \/ \E flags : fs = <<Svc("sound")>> \o SoundPacket(flags)
  \/ \E te \in TempEntities : fs = <<Svc("temp_entity")>> \o TempEntity(te)
  \/ \E text \in Seq(Nat) : fs = <<Svc("print")>> \o <<Field("byte", 0), Text(text)>>
  \/ \E text : IsText(text) /\ fs = <<Svc("stufftext")>> \o <<Field("string", text)>>
  \/ \E level \in Nat, extended \in BOOLEAN :
       fs = <<Svc("serverdata")>> \o Data(level, extended)
  \/ \E list \in {"soundlist", "modellist"}, size \in Nat, n \in Int :
       fs = <<Svc(list)>> \o Chunk(list, size, n)
  \/ \E percent \in Nat : \E block :
       fs = <<Svc("download")>>
            \o <<Field("short", 1), Field("byte", percent), Field("data", block)>>
  \/ \E no \in {0, 50} :
       fs = <<Svc("download")>> \o <<Field("short", -1), Field("byte", no)>>
  \/ \E es : IsEntities(es)
             /\ fs = <<Svc("packetentities")>> \o (es \o EndOfEntities)
  \/ fs = <<Svc("deltapacketentities")>> \o (<<Field("byte", 0)>> \o EndOfEntities)

LEMMA CommandFits ==
  ASSUME NEW fs, NEW version, IsCommand(fs, version)
  PROVE  \E name, gs : /\ fs = <<Svc(name)>> \o gs /\ AllFit(name, gs)
                       /\ name # "none"
                       /\ name = "packetentities"
                          => Update(gs) /\ Len(gs) >= 1 /\ gs[1][1] = "word"
  <1> DEFINE Fine(name, gs) == /\ fs = <<Svc(name)>> \o gs /\ AllFit(name, gs)
                               /\ name # "none"
                               /\ name = "packetentities"
                                  => Update(gs) /\ Len(gs) >= 1 /\ gs[1][1] = "word"
  <1>1. ASSUME NEW svc \in DOMAIN Documented, fs = <<Svc(svc)>> \o Unnamed(Documented[svc])
        PROVE  \E name, gs : Fine(name, gs)
    <2>1. AllFit(svc, Unnamed(Documented[svc]))
      <3>1. CASE svc \in Special
        <4>1. svc = "updatestat" /\ <<"byte", "byte">> \in Seq({"byte"})
          BY <3>1, DocumentedType
        <4> QED
          BY <4>1, DocumentedType, FitUnnamed
      <3>2. CASE svc \notin Special
        BY <3>2, DocumentedType, FitUnnamed
      <3> QED
        BY <3>1, <3>2
    <2>2. svc # "packetentities" /\ svc # "none"
      BY DocumentedType
    <2>3. Fine(svc, Unnamed(Documented[svc]))
      BY <1>1, <2>1, <2>2
    <2> HIDE DEF Fine
    <2> QED
      BY <2>3
  <1>2. ASSUME NEW flags, NEW bits,
               fs = <<Svc("playerinfo")>> \o PlayerInfo(flags, bits, version)
        PROVE  \E name, gs : Fine(name, gs)
    <2>1. Fine("playerinfo", PlayerInfo(flags, bits, version))
      BY <1>2, PlayerInfoFits
    <2> HIDE DEF Fine
    <2> QED
      BY <2>1
  <1>3. ASSUME NEW flags, fs = <<Svc("sound")>> \o SoundPacket(flags)
        PROVE  \E name, gs : Fine(name, gs)
    <2>1. Fine("sound", SoundPacket(flags))
      BY <1>3, SoundPacketFits
    <2> HIDE DEF Fine
    <2> QED
      BY <2>1
  <1>4. ASSUME NEW te, fs = <<Svc("temp_entity")>> \o TempEntity(te)
        PROVE  \E name, gs : Fine(name, gs)
    <2>1. Fine("temp_entity", TempEntity(te))
      BY <1>4, TempEntityFits
    <2> HIDE DEF Fine
    <2> QED
      BY <2>1
  <1>5. ASSUME NEW text \in Seq(Nat),
               fs = <<Svc("print")>> \o <<Field("byte", 0), Text(text)>>
        PROVE  \E name, gs : Fine(name, gs)
    <2>1. Fit("print", Field("byte", 0)) /\ Fit("print", Text(text))
      BY DEF Fit, Field, Text
    <2>2. AllFit("print", <<Field("byte", 0), Text(text)>>)
      BY <2>1, FitShort
    <2>3. Fine("print", <<Field("byte", 0), Text(text)>>)
      BY <1>5, <2>2
    <2> HIDE DEF Fine
    <2> QED
      BY <2>3
  <1>6. ASSUME NEW text, IsText(text), fs = <<Svc("stufftext")>> \o <<Field("string", text)>>
        PROVE  \E name, gs : Fine(name, gs)
    <2>1. Fine("stufftext", <<Field("string", text)>>)
      BY <1>6, StuffFits
    <2> HIDE DEF Fine
    <2> QED
      BY <2>1
  <1>7. ASSUME NEW level, NEW extended, fs = <<Svc("serverdata")>> \o Data(level, extended)
        PROVE  \E name, gs : Fine(name, gs)
    <2>1. Fine("serverdata", Data(level, extended))
      BY <1>7, ServerDataFits
    <2> HIDE DEF Fine
    <2> QED
      BY <2>1
  <1>8. ASSUME NEW list \in {"soundlist", "modellist"}, NEW size \in Nat, NEW n \in Int,
               fs = <<Svc(list)>> \o Chunk(list, size, n)
        PROVE  \E name, gs : Fine(name, gs)
    <2>1. Fine(list, Chunk(list, size, n))
      BY <1>8, ListChunkFits
    <2> HIDE DEF Fine
    <2> QED
      BY <2>1
  <1>9. ASSUME NEW percent \in Nat, NEW block,
               fs = <<Svc("download")>>
                    \o <<Field("short", 1), Field("byte", percent), Field("data", block)>>
        PROVE  \E name, gs : Fine(name, gs)
    <2>1. Fit("download", Field("short", 1)) /\ Fit("download", Field("byte", percent))
          /\ Fit("download", Field("data", block))
      BY DEF Fit, Field
    <2>2. AllFit("download",
                 <<Field("short", 1), Field("byte", percent), Field("data", block)>>)
      BY <2>1, FitShort
    <2>3. Fine("download",
               <<Field("short", 1), Field("byte", percent), Field("data", block)>>)
      BY <1>9, <2>2
    <2> HIDE DEF Fine
    <2> QED
      BY <2>3
  <1>10. ASSUME NEW no \in {0, 50},
                fs = <<Svc("download")>> \o <<Field("short", -1), Field("byte", no)>>
         PROVE  \E name, gs : Fine(name, gs)
    <2>1. Fit("download", Field("short", -1)) /\ Fit("download", Field("byte", no))
      BY DEF Fit, Field
    <2>2. AllFit("download", <<Field("short", -1), Field("byte", no)>>)
      BY <2>1, FitShort
    <2>3. Fine("download", <<Field("short", -1), Field("byte", no)>>)
      BY <1>10, <2>2
    <2> HIDE DEF Fine
    <2> QED
      BY <2>3
  <1>11. ASSUME NEW es, IsEntities(es),
                fs = <<Svc("packetentities")>> \o (es \o EndOfEntities)
         PROVE  \E name, gs : Fine(name, gs)
    <2>1. Fine("packetentities", es \o EndOfEntities)
      BY <1>11, UpdateFits
    <2> HIDE DEF Fine
    <2> QED
      BY <2>1
  <1>12. ASSUME fs = <<Svc("deltapacketentities")>> \o (<<Field("byte", 0)>> \o EndOfEntities)
         PROVE  \E name, gs : Fine(name, gs)
    <2> DEFINE n == "deltapacketentities"
    <2>1. Fit(n, Field("byte", 0)) /\ Fit(n, Field("word", {}))
      BY FitPlain DEF Special
    <2> HIDE DEF n
    <2>2. AllFit(n, <<Field("byte", 0)>>) /\ AllFit(n, EndOfEntities)
      BY <2>1, FitShort DEF EndOfEntities
    <2>3. AllFit(n, <<Field("byte", 0)>> \o EndOfEntities)
      BY <2>2, FitJoin
    <2>4. Fine(n, <<Field("byte", 0)>> \o EndOfEntities)
      BY <1>12, <2>3 DEF n
    <2> HIDE DEF Fine
    <2> QED
      BY <2>4
  <1> HIDE DEF Fine
  <1>13. \E name, gs : Fine(name, gs)
    BY <1>1, <1>2, <1>3, <1>4, <1>5, <1>6, <1>7, <1>8, <1>9, <1>10, <1>11, <1>12
    DEF IsCommand
  <1> QED
    BY <1>13 DEF Fine

-----------------------------------------------------------------------------
(* What the packets of each topic are. *)

\* The commands of a topic.
Heads(tp) ==
  CASE tp = "signon" ->
         {"serverdata", "soundlist", "modellist", "stufftext", "updatestat"}
    [] tp = "print" -> {"print"}
    [] tp = "download" -> {"download", "stufftext"}
    [] tp = "entities" -> {"packetentities", "deltapacketentities"}
    [] OTHER -> {}

\* What may follow a command in the same message.
Behind(c, rest) ==
  \/ rest = << >>
  \/ rest = <<Svc("nop")>>
  \/ c[1] = Svc("updatestat") /\ \E text : IsText(text) /\ rest = Stuff(text)

\* A packet of the server.
IsPacket(tp, version, p) ==
  \E c, rest :
    /\ IsCommand(c, version) /\ Behind(c, rest)
    /\ tp # "any" => c[1][2] \in Heads(tp)
    /\ tp = "any" /\ c[1] = Svc("download") => ~In(Field("byte", 100), c)
    /\ Listed(p.message) /\ Len(p.message) \in 1 .. Len(Written(c \o rest))
    /\ \A i \in DOMAIN p.message : p.message[i] = Written(c \o rest)[i]
    /\ tp # "any" => p.message = Written(c \o rest)
    /\ p.cut = "none" => Len(p.message) >= Len(Written(c))
    /\ p.cut # "none" => p.cut = c[1][2] /\ Len(p.message) < Len(Written(c))

\* What the bytes of a message say, wherever the client reads them.
Says(tp, m) ==
  /\ Listed(m)
  /\ \A i \in DOMAIN m :
       /\ m[i] = Field(m[i][1], m[i][2])
       /\ m[i][1] = "svc" => \/ i = 1 \/ m[i][2] = "nop"
                             \/ (m[i][2] = "stufftext" /\ m[1] = Svc("updatestat"))
       /\ m[i][1] = "byte" => m[i][2] \in Int
       /\ m[i][1] = "string" /\ m[1] = Svc("print") => m[i][2] \in Seq(Nat)
       /\ m[i][1] = "string" /\ m[1] \in {Svc("stufftext"), Svc("updatestat")}
          => IsText(m[i][2])
       /\ m[i][1] = "short" /\ m[1] = Svc("download") => m[i][2] \in {-1, 1}
       /\ m[i][1] = "word" /\ "entity" \in m[i][2] /\ m[1] = Svc("packetentities")
          => ~(2 \in DOMAIN m /\ m[2] = Field("word", {}))
       /\ m[i] = Field("byte", 100) => ~(tp = "any" /\ m[1] = Svc("download"))
       /\ m[1] = Svc("packetentities") => tp \in {"any", "entities"}
       /\ m[1] = Svc("download") => tp \in {"any", "download"}

LEMMA SaysNothing == \A tp : Says(tp, << >>)
  BY ListedEmpty DEF Says

\* One byte of a message whose first command is name with the payload gs.
OneSays(tp, name, first, g) ==
  /\ g = Field(g[1], g[2])
  /\ g[1] = "svc" => g[2] = "nop" \/ (g[2] = "stufftext" /\ name = "updatestat")
  /\ g[1] = "byte" => g[2] \in Int
  /\ g[1] = "string" /\ name = "print" => g[2] \in Seq(Nat)
  /\ g[1] = "string" /\ name \in {"stufftext", "updatestat"} => IsText(g[2])
  /\ g[1] = "short" /\ name = "download" => g[2] \in {-1, 1}
  /\ g[1] = "word" /\ "entity" \in g[2] /\ name = "packetentities"
     => first # Field("word", {})
  /\ g = Field("byte", 100) => ~(tp = "any" /\ name = "download")

LEMMA FieldNames ==
  /\ \A a, b, x, y : Field(a, x) = Field(b, y) <=> a = b /\ x = y
  /\ \A a, b : Svc(a) = Svc(b) <=> a = b
  /\ \A a, x : Field(a, x)[1] = a /\ Field(a, x)[2] = x
  /\ \A a : Svc(a)[1] = "svc" /\ Svc(a)[2] = a
  BY DEF Field, Svc

LEMMA SequenceHead ==
  ASSUME NEW f, NEW gs, Listed(gs)
  PROVE  (<<f>> \o gs)[1] = f
  <1>0. Listed(<<f>>)
    BY ListedShort
  <1>1. Listed(<<f>>) /\ Len(<<f>>) = 1 /\ <<f>>[1] = f /\ 1 \in 1 .. Len(<<f>>)
    BY <1>0
  <1>2. \A i \in 1 .. Len(<<f>>) : (<<f>> \o gs)[i] = <<f>>[i]
    BY ONLY Listed(gs), <1>1, ListedJoin
  <1> QED
    BY <1>1, <1>2

LEMMA MessageSays ==
  ASSUME NEW tp, NEW name, NEW gs, Listed(gs),
         \A g : In(g, gs) => OneSays(tp, name, gs[1], g),
         name = "packetentities" => Len(gs) >= 1 /\ gs[1] \notin Fillers,
         tp # "any" => name \in Heads(tp), tp \in Topics,
         NEW m, Listed(m), Len(m) <= Len(Written(<<Svc(name)>> \o gs)),
         \A i \in DOMAIN m : m[i] = Written(<<Svc(name)>> \o gs)[i]
  PROVE  Says(tp, m)
  <1> DEFINE f == Svc(name)
             w == Written(<<f>> \o gs)
  <1>1. /\ Listed(w) /\ 1 \in DOMAIN w /\ w[1] = f
        /\ \A i \in DOMAIN w : i # 1 => In(w[i], gs) \/ w[i] \in Fillers
    BY WrittenHead
  <1>2. DOMAIN m = 1 .. Len(m) /\ Len(m) \in Nat /\ DOMAIN w = 1 .. Len(w)
        /\ Len(w) \in Nat
    BY <1>1, ListedLen
  <1>3. DOMAIN m \subseteq DOMAIN w /\ \A i \in DOMAIN m : m[i] = w[i] /\ 1 \in DOMAIN m
    BY <1>2
  <1>4. ASSUME NEW i \in DOMAIN m, i # 1
        PROVE  OneSays(tp, name, w[2], m[i]) /\ 2 \in DOMAIN m
    <2>1. 2 \in DOMAIN m /\ 2 \in DOMAIN w
      BY <1>2, <1>3, <1>4
    <2>2. \A g \in Fillers : \A x : OneSays(tp, name, x, g)
      BY DEF Fillers, OneSays, Field
    <2>3. name = "packetentities" => w[2] = gs[1]
      <3>1. SUFFICES ASSUME name = "packetentities"
                     PROVE  w[2] = gs[1]
        OBVIOUS
      <3>2. w = Bytes(f) \o Written(gs) /\ Listed(Bytes(f)) /\ Listed(Written(gs))
        BY WrittenFirst
      <3>3. Len(Bytes(f)) = 1
        <4>1. f[1] = "svc" /\ "svc" \in DOMAIN Width /\ Width["svc"] = 1
          BY FieldNames DEF Width
        <4> QED
          BY <4>1, BytesIs
      <3>4. gs = <<gs[1]>> \o Tail(gs) /\ Listed(Tail(gs))
        <4> DEFINE V == {gs[j] : j \in DOMAIN gs}
        <4>1. gs \in Seq(V)
          BY DEF Listed
        <4> HIDE DEF V
        <4>2. Len(gs) >= 1 /\ gs # << >>
          BY <3>1, <4>1
        <4>3. Tail(gs) \in Seq(V) /\ gs = <<gs[1]>> \o Tail(gs)
          BY <4>1, <4>2
        <4> QED
          BY <4>3, ListedIn
      <3>5. Written(gs)[1] = gs[1] /\ 1 \in DOMAIN Written(gs)
        <4>1. 1 \in DOMAIN Written(<<gs[1]>> \o Tail(gs))
              /\ Written(<<gs[1]>> \o Tail(gs))[1] = gs[1]
          BY <3>4, WrittenHead
        <4> QED
          BY <3>4, <4>1
      <3> DEFINE a == Bytes(f)
                 b == Written(gs)
      <3>6. 1 \in 1 .. Len(b)
        BY <3>2, <3>5, ListedLen
      <3>7. Listed(a) /\ Listed(b)
        BY <3>2
      <3> HIDE DEF a, b
      <3>8. (a \o b)[Len(a) + 1] = b[1]
        BY ONLY <3>6, <3>7, ListedJoin
      <3>9. Len(a) + 1 = 2
        BY <3>3 DEF a
      <3> QED
        BY <3>2, <3>5, <3>8, <3>9 DEF a, b
    <2>4. In(m[i], gs) \/ m[i] \in Fillers
      BY <1>1, <1>3, <1>4
    <2> HIDE DEF w
    <2>5. In(m[i], gs) => OneSays(tp, name, w[2], m[i])
      BY <2>3 DEF OneSays
    <2> QED
      BY <2>1, <2>2, <2>4, <2>5
  <1>5. \A i \in DOMAIN m : m[1] = f
    BY <1>1, <1>3
  <1>6. f[1] = "svc" /\ f[2] = name /\ f = Field(f[1], f[2]) /\ \A a : f = Svc(a) <=> name = a
    BY FieldNames DEF Svc
  <1>7. name = "packetentities" => tp \in {"any", "entities"}
    BY DEF Heads, Topics
  <1>8. name = "download" => tp \in {"any", "download"}
    BY DEF Heads, Topics
  <1>9. \A x : f # Field("byte", x)
    BY FieldNames DEF Svc
  <1>10. \A i \in DOMAIN m : 2 \in DOMAIN m => m[2] = w[2]
    BY <1>3
  <1> HIDE DEF w, f
  <1>11. ASSUME NEW i \in DOMAIN m
         PROVE
           /\ m[i] = Field(m[i][1], m[i][2])
           /\ m[i][1] = "svc" => \/ i = 1 \/ m[i][2] = "nop"
                                 \/ (m[i][2] = "stufftext" /\ m[1] = Svc("updatestat"))
           /\ m[i][1] = "byte" => m[i][2] \in Int
           /\ m[i][1] = "string" /\ m[1] = Svc("print") => m[i][2] \in Seq(Nat)
           /\ m[i][1] = "string" /\ m[1] \in {Svc("stufftext"), Svc("updatestat")}
              => IsText(m[i][2])
           /\ m[i][1] = "short" /\ m[1] = Svc("download") => m[i][2] \in {-1, 1}
           /\ m[i][1] = "word" /\ "entity" \in m[i][2] /\ m[1] = Svc("packetentities")
              => ~(2 \in DOMAIN m /\ m[2] = Field("word", {}))
           /\ m[i] = Field("byte", 100) => ~(tp = "any" /\ m[1] = Svc("download"))
           /\ m[1] = Svc("packetentities") => tp \in {"any", "entities"}
           /\ m[1] = Svc("download") => tp \in {"any", "download"}
    <2>1. m[1] = f
      BY <1>5
    <2>2. CASE i = 1
      BY <1>6, <1>7, <1>8, <1>9, <2>1, <2>2
    <2>3. CASE i # 1
      <3>1. OneSays(tp, name, w[2], m[i]) /\ (2 \in DOMAIN m => m[2] = w[2])
        BY <1>4, <1>10, <2>3
      <3>2. \A a : m[1] = Svc(a) <=> name = a
        BY <1>6, <2>1
      <3> QED
        BY <1>7, <1>8, <3>1, <3>2 DEF OneSays
    <2> QED
      BY <2>2, <2>3
  <1> QED
    BY <1>11 DEF Says

LEMMA PacketSays ==
  ASSUME NEW tp \in Topics, NEW version, NEW p, IsPacket(tp, version, p)
  PROVE  Says(tp, p.message)
  <1>1. PICK c, rest :
          /\ IsCommand(c, version) /\ Behind(c, rest)
          /\ tp # "any" => c[1][2] \in Heads(tp)
          /\ tp = "any" /\ c[1] = Svc("download") => ~In(Field("byte", 100), c)
          /\ Listed(p.message) /\ Len(p.message) \in 1 .. Len(Written(c \o rest))
          /\ \A i \in DOMAIN p.message : p.message[i] = Written(c \o rest)[i]
    BY DEF IsPacket
  <1>2. PICK name, gs : /\ c = <<Svc(name)>> \o gs /\ AllFit(name, gs)
                        /\ name = "packetentities"
                          => Update(gs) /\ Len(gs) >= 1 /\ gs[1][1] = "word"
    BY <1>1, CommandFits
  <1>3. Listed(gs) /\ c[1] = Svc(name) /\ c[1][2] = name
    BY <1>2, SequenceHead, FieldNames DEF AllFit
  <1>4. Listed(rest) /\ \A g : In(g, rest) => OneSays(tp, name, gs[1], g)
    <2>1. CASE rest = << >>
      BY <2>1, ListedEmpty DEF In
    <2>2. CASE rest = <<Svc("nop")>>
      <3>1. Listed(rest) /\ \A g : In(g, rest) => g = Svc("nop")
        BY <2>2, ListedShort
      <3>2. OneSays(tp, name, gs[1], Svc("nop"))
        BY FieldNames DEF OneSays, Svc
      <3> QED
        BY <3>1, <3>2
    <2>3. CASE c[1] = Svc("updatestat") /\ \E text : IsText(text) /\ rest = Stuff(text)
      <3>1. PICK text : IsText(text) /\ rest = <<Svc("stufftext"), Field("string", text)>>
        BY <2>3 DEF Stuff
      <3>2. name = "updatestat"
        BY <1>3, <2>3, FieldNames
      <3>3. Listed(rest) /\ \A g : In(g, rest) => g \in {Svc("stufftext"), Field("string", text)}
        BY <3>1, ListedShort
      <3>4. OneSays(tp, name, gs[1], Svc("stufftext"))
        BY <3>2, FieldNames DEF OneSays, Svc
      <3>5. OneSays(tp, name, gs[1], Field("string", text))
        BY <3>1, <3>2, FieldNames DEF OneSays
      <3> QED
        BY <3>3, <3>4, <3>5
    <2> QED
      BY <1>1, <2>1, <2>2, <2>3 DEF Behind
  <1>5. \A g : In(g, gs) => OneSays(tp, name, gs[1], g)
    <2>1. SUFFICES ASSUME NEW g, In(g, gs)
                   PROVE  OneSays(tp, name, gs[1], g)
      OBVIOUS
    <2>2. Fit(name, g)
      BY <1>2, <2>1 DEF AllFit
    <2>3. g[1] = "word" /\ "entity" \in g[2] /\ name = "packetentities"
          => gs[1] # Field("word", {})
      BY <1>2, <2>1 DEF Update
    <2>4. g = Field("byte", 100) => ~(tp = "any" /\ name = "download")
      <3>1. In(g, c)
        <4>1. Listed(<<Svc(name)>>) /\ Len(<<Svc(name)>>) = 1
          BY ListedShort
        <4>2. PICK i \in DOMAIN gs : g = gs[i]
          BY <2>1 DEF In
        <4> DEFINE s == <<Svc(name)>>
        <4> HIDE DEF s
        <4>3. /\ Listed(s \o gs) /\ Len(s \o gs) = Len(s) + Len(gs)
              /\ \A j \in 1 .. Len(gs) : (s \o gs)[Len(s) + j] = gs[j]
          <5>1. Listed(s) /\ Listed(gs)
            BY <1>3, <4>1 DEF s
          <5> QED
            BY ONLY <5>1, ListedJoin
        <4>4. i \in 1 .. Len(gs) /\ Len(gs) \in Nat /\ Len(s) = 1
          BY <1>3, <4>1, ListedLen DEF s
        <4>5. DOMAIN (s \o gs) = 1 .. 1 + Len(gs) /\ (s \o gs)[1 + i] = gs[i]
          BY <4>3, <4>4, ListedLen
        <4>6. 1 + i \in DOMAIN (s \o gs)
          BY <4>4, <4>5
        <4> QED
          BY <1>2, <4>2, <4>5, <4>6 DEF In, s
      <3> QED
        BY <1>1, <1>3, <3>1, FieldNames
    <2> QED
      BY <2>2, <2>3, <2>4 DEF Fit, OneSays
  <1>6. c \o rest = <<Svc(name)>> \o (gs \o rest)
    <2> DEFINE s == <<Svc(name)>>
    <2>1. Listed(s) /\ Listed(gs) /\ Listed(rest)
      BY <1>3, <1>4, ListedShort
    <2> HIDE DEF s
    <2>2. (s \o gs) \o rest = s \o (gs \o rest)
      BY ONLY <2>1, ListedAgain, SMTT(20)
    <2> QED
      BY <1>2, <2>2 DEF s
  <1>7. /\ Listed(gs \o rest)
        /\ name = "packetentities" => /\ Len(gs) >= 1 /\ Len(gs \o rest) >= 1
                                      /\ (gs \o rest)[1] = gs[1]
    <2>1. /\ Listed(gs \o rest) /\ Len(gs \o rest) = Len(gs) + Len(rest)
          /\ \A i \in 1 .. Len(gs) : (gs \o rest)[i] = gs[i]
      <3>1. Listed(gs) /\ Listed(rest)
        BY <1>3, <1>4
      <3> QED
        BY ONLY <3>1, ListedJoin
    <2>2. Len(gs) \in Nat /\ Len(rest) \in Nat
      BY <1>3, <1>4, ListedLen
    <2>3. name = "packetentities" => Len(gs) >= 1
      BY <1>2
    <2>4. Len(gs) >= 1 => 1 \in 1 .. Len(gs)
      BY <2>2
    <2> QED
      BY <2>1, <2>2, <2>3, <2>4
  <1>8. \A g : In(g, gs \o rest) => OneSays(tp, name, (gs \o rest)[1], g)
    <2>1. SUFFICES ASSUME NEW g, In(g, gs \o rest)
                   PROVE  OneSays(tp, name, (gs \o rest)[1], g)
      OBVIOUS
    <2>2. Listed(gs) /\ Listed(rest)
      BY <1>3, <1>4
    <2>3. In(g, gs) \/ In(g, rest)
      BY ONLY <2>1, <2>2, InJoin
    <2>4. OneSays(tp, name, gs[1], g)
      BY <1>4, <1>5, <2>3
    <2> QED
      BY <1>7, <2>4 DEF OneSays
  <1> DEFINE hs == gs \o rest
             m == p.message
  <1>9. /\ Listed(m) /\ Listed(hs) /\ Len(m) <= Len(Written(<<Svc(name)>> \o hs))
        /\ \A i \in DOMAIN m : m[i] = Written(<<Svc(name)>> \o hs)[i]
    <2>1. Written(c \o rest) = Written(<<Svc(name)>> \o hs)
      BY <1>6
    <2>2. Listed(hs) /\ Listed(<<Svc(name)>> \o hs)
      BY <1>7, WrittenFirst
    <2>3. Len(Written(<<Svc(name)>> \o hs)) \in Nat
      BY <2>2, WrittenListed, ListedLen
    <2> QED
      BY <1>1, <2>1, <2>2, <2>3
  <1>10. name = "packetentities" => Len(hs) >= 1 /\ hs[1] \notin Fillers
    BY <1>2, <1>7 DEF Fillers, Field
  <1>11. (tp # "any" => name \in Heads(tp)) /\ tp \in Topics
    BY <1>1, <1>3
  <1>12. \A g : In(g, hs) => OneSays(tp, name, hs[1], g)
    BY <1>8
  <1> HIDE DEF hs, m
  <1>13. Says(tp, m)
    BY ONLY <1>9, <1>10, <1>11, <1>12, MessageSays
  <1> QED
    BY <1>13 DEF m

LEMMA PairIs ==
  ASSUME NEW a, NEW b, NEW c, NEW d
  PROVE  /\ <<a>> \o <<b>> = <<a, b>> /\ <<a>> \o <<b, c>> = <<a, b, c>>
         /\ <<a>> \o <<b, c, d>> = <<a, b, c, d>>
         /\ <<a, b>> \o <<c>> = <<a, b, c>>
  <1>1. <<a>> \o <<b>> = <<a, b>>
    <2> DEFINE s == <<a>>
               t == <<b>>
               u == <<a, b>>
               V == {a, b}
    <2>1. s \in Seq(V) /\ t \in Seq(V) /\ Len(s) = 1 /\ Len(t) = 1
      OBVIOUS
    <2>2. s[1] = a /\ t[1] = b
      OBVIOUS
    <2>3. u = [i \in 1 .. 2 |-> u[i]]
          /\ u[1] = a /\ u[2] = b
      OBVIOUS
    <2> HIDE DEF s, t, u, V
    <2>4. /\ u = [i \in 1 .. Len(s) + Len(t) |-> u[i]]
          /\ \A i \in 1 .. Len(s) : u[i] = s[i]
          /\ \A i \in 1 .. Len(t) : u[Len(s) + i] = t[i]
      BY <2>1, <2>2, <2>3
    <2>5. u = s \o t
      BY <2>1, <2>4, JoinIs
    <2> QED
      BY <2>5 DEF s, t, u
  <1>2. <<a>> \o <<b, c>> = <<a, b, c>>
    <2> DEFINE s == <<a>>
               t == <<b, c>>
               u == <<a, b, c>>
               V == {a, b, c}
    <2>1. s \in Seq(V) /\ t \in Seq(V) /\ Len(s) = 1 /\ Len(t) = 2
      OBVIOUS
    <2>2. s[1] = a /\ t[1] = b /\ t[2] = c
      OBVIOUS
    <2>3. u = [i \in 1 .. 3 |-> u[i]]
          /\ u[1] = a /\ u[2] = b /\ u[3] = c
      OBVIOUS
    <2> HIDE DEF s, t, u, V
    <2>4. /\ u = [i \in 1 .. Len(s) + Len(t) |-> u[i]]
          /\ \A i \in 1 .. Len(s) : u[i] = s[i]
          /\ \A i \in 1 .. Len(t) : u[Len(s) + i] = t[i]
      BY <2>1, <2>2, <2>3
    <2>5. u = s \o t
      BY <2>1, <2>4, JoinIs
    <2> QED
      BY <2>5 DEF s, t, u
  <1>3. <<a>> \o <<b, c, d>> = <<a, b, c, d>>
    <2> DEFINE s == <<a>>
               t == <<b, c, d>>
               u == <<a, b, c, d>>
               V == {a, b, c, d}
    <2>1. s \in Seq(V) /\ t \in Seq(V) /\ Len(s) = 1 /\ Len(t) = 3
      OBVIOUS
    <2>2. s[1] = a /\ t[1] = b /\ t[2] = c /\ t[3] = d
      OBVIOUS
    <2>3. u = [i \in 1 .. 4 |-> u[i]]
          /\ u[1] = a /\ u[2] = b /\ u[3] = c /\ u[4] = d
      OBVIOUS
    <2> HIDE DEF s, t, u, V
    <2>4. /\ u = [i \in 1 .. Len(s) + Len(t) |-> u[i]]
          /\ \A i \in 1 .. Len(s) : u[i] = s[i]
          /\ \A i \in 1 .. Len(t) : u[Len(s) + i] = t[i]
      BY <2>1, <2>2, <2>3
    <2>5. u = s \o t
      BY <2>1, <2>4, JoinIs
    <2> QED
      BY <2>5 DEF s, t, u
  <1>4. <<a, b>> \o <<c>> = <<a, b, c>>
    <2> DEFINE s == <<a, b>>
               t == <<c>>
               u == <<a, b, c>>
               V == {a, b, c}
    <2>1. s \in Seq(V) /\ t \in Seq(V) /\ Len(s) = 2 /\ Len(t) = 1
      OBVIOUS
    <2>2. s[1] = a /\ s[2] = b /\ t[1] = c
      OBVIOUS
    <2>3. u = [i \in 1 .. 3 |-> u[i]]
          /\ u[1] = a /\ u[2] = b /\ u[3] = c
      OBVIOUS
    <2> HIDE DEF s, t, u, V
    <2>4. /\ u = [i \in 1 .. Len(s) + Len(t) |-> u[i]]
          /\ \A i \in 1 .. Len(s) : u[i] = s[i]
          /\ \A i \in 1 .. Len(t) : u[Len(s) + i] = t[i]
      BY <2>1, <2>2, <2>3
    <2>5. u = s \o t
      BY <2>1, <2>4, JoinIs
    <2> QED
      BY <2>5 DEF s, t, u
  <1> QED
    BY <1>1, <1>2, <1>3, <1>4

LEMMA CommandListed ==
  ASSUME NEW c, NEW version, IsCommand(c, version)
  PROVE  Listed(c) /\ Listed(Written(c)) /\ Len(Written(c)) \in Nat /\ Len(Written(c)) >= 1
  <1>1. PICK name, gs : c = <<Svc(name)>> \o gs /\ AllFit(name, gs)
    BY CommandFits
  <1>2. Listed(gs)
    BY <1>1 DEF AllFit
  <1>3. Listed(c)
    BY <1>1, <1>2, WrittenFirst
  <1>4. Listed(Written(c)) /\ 1 \in DOMAIN Written(c)
    BY <1>1, <1>2, WrittenHead
  <1> QED
    BY <1>3, <1>4, ListedLen

LEMMA BehindListed ==
  ASSUME NEW c, NEW rest, Behind(c, rest)
  PROVE  Listed(rest)
  <1>1. CASE rest = << >>
    BY <1>1, ListedEmpty
  <1>2. CASE rest = <<Svc("nop")>>
    BY <1>2, ListedShort
  <1>3. ASSUME NEW text, rest = Stuff(text)
        PROVE  Listed(rest)
    BY <1>3, ListedShort DEF Stuff
  <1> QED
    BY <1>1, <1>2, <1>3 DEF Behind

LEMMA WholePacket ==
  ASSUME NEW tp, tp # "any", NEW version, NEW c, NEW rest, IsCommand(c, version),
         Behind(c, rest), c[1][2] \in Heads(tp)
  PROVE  IsPacket(tp, version, Packet(c \o rest))
  <1> DEFINE p == Packet(c \o rest)
             w == Written(c \o rest)
  <1>1. p.message = w /\ p.cut = "none"
    BY DEF Packet
  <1>2. Listed(c) /\ Listed(rest) /\ Listed(Written(c)) /\ Listed(Written(rest))
    BY CommandListed, BehindListed, WrittenListed
  <1>3. w = Written(c) \o Written(rest)
    BY <1>2, WrittenConcat
  <1>4. Listed(w) /\ Len(w) = Len(Written(c)) + Len(Written(rest))
    BY ONLY <1>2, <1>3, ListedJoin
  <1>5. Len(Written(c)) \in Nat /\ Len(Written(c)) >= 1 /\ Len(Written(rest)) \in Nat
    BY <1>2, CommandListed, ListedLen
  <1>6. Len(w) \in 1 .. Len(w) /\ Len(w) >= Len(Written(c))
    BY <1>4, <1>5
  <1> HIDE DEF p, w
  <1>7. IsPacket(tp, version, p)
    <2>1. w = Written(c \o rest)
      BY DEF w
    <2> QED
      BY <1>1, <1>4, <1>6, <2>1 DEF IsPacket
  <1> QED
    BY <1>7 DEF p

\* A packet of one command.
LEMMA OnePacket ==
  ASSUME NEW tp, tp # "any", NEW version, NEW c, IsCommand(c, version),
         c[1][2] \in Heads(tp)
  PROVE  IsPacket(tp, version, Packet(c))
  <1>1. c \o << >> = c
    BY CommandListed, ListedEmpty
  <1>2. IsPacket(tp, version, Packet(c \o << >>))
    BY WholePacket DEF Behind
  <1> QED
    BY <1>1, <1>2

LEMMA StuffIs ==
  ASSUME NEW text, IsText(text), NEW version
  PROVE  IsCommand(Stuff(text), version) /\ Stuff(text)[1][2] = "stufftext"
  <1>1. Stuff(text) = <<Svc("stufftext")>> \o <<Field("string", text)>>
    BY PairIs DEF Stuff
  <1>2. Stuff(text)[1][2] = "stufftext"
    BY FieldNames DEF Stuff
  <1> QED
    BY <1>1, <1>2 DEF IsCommand

LEMMA DocumentedIs ==
  ASSUME NEW svc \in DOMAIN Documented, NEW version
  PROVE  /\ IsCommand(<<Svc(svc)>> \o Unnamed(Documented[svc]), version)
         /\ (<<Svc(svc)>> \o Unnamed(Documented[svc]))[1] = Svc(svc)
  <1>1. Listed(Unnamed(Documented[svc]))
    BY DocumentedType, UnnamedIn
  <1> QED
    BY <1>1, SequenceHead DEF IsCommand

\* What a request is, as far as the server counts with it.
IsRequest(q) == q.name \in {"soundlist", "modellist", "prespawn"} => q.n \in Int

LEMMA SignOnPackets ==
  ASSUME NEW version, NEW s, s.level \in Nat, NEW q, IsRequest(q)
  PROVE  \/ SignOnReply(s, q) = << >>
         \/ IsPacket("signon", version, Packet(SignOnReply(s, q)))
  <1> DEFINE OK(fs) == IsPacket("signon", version, Packet(fs))
  <1>1. ASSUME NEW extended \in BOOLEAN
        PROVE  OK(ServerData(s.level, extended))
    <2> DEFINE c == ServerData(s.level, extended)
    <2>1. c = <<Svc("serverdata")>> \o Data(s.level, extended)
          /\ Listed(Data(s.level, extended))
      BY ServerDataFits DEF AllFit
    <2>2. c[1][2] = "serverdata"
      BY <2>1, SequenceHead, FieldNames
    <2>3. IsCommand(c, version)
      BY <2>1 DEF IsCommand
    <2> HIDE DEF c
    <2>4. c[1][2] \in Heads("signon") /\ "signon" # "any"
      BY <2>2 DEF Heads
    <2>5. OK(c)
      BY ONLY <2>3, <2>4, OnePacket
    <2> QED
      BY <2>5 DEF c
  <1>2. ASSUME NEW list \in {"soundlist", "modellist"}, NEW size \in Nat, q.n \in Int
        PROVE  OK(ListChunk(list, size, q.n))
    <2> DEFINE c == ListChunk(list, size, q.n)
    <2>1. c = <<Svc(list)>> \o Chunk(list, size, q.n) /\ Listed(Chunk(list, size, q.n))
      BY <1>2, ListChunkFits DEF AllFit
    <2>2. c[1][2] = list
      BY <2>1, SequenceHead, FieldNames
    <2>3. IsCommand(c, version)
      BY <1>2, <2>1 DEF IsCommand
    <2> HIDE DEF c
    <2>4. c[1][2] \in Heads("signon") /\ "signon" # "any"
      BY <2>2 DEF Heads
    <2>5. OK(c)
      BY ONLY <2>3, <2>4, OnePacket
    <2> QED
      BY <2>5 DEF c
  <1>3. ASSUME NEW text, IsText(text)
        PROVE  OK(Stuff(text)) /\ OK(<<Svc("updatestat"), Field("byte", 0), Field("byte", 0)>>
                                     \o Stuff(text))
    <2>1. OK(Stuff(text))
      BY <1>3, StuffIs, OnePacket DEF Heads
    <2> DEFINE c == <<Svc("updatestat"), Field("byte", 0), Field("byte", 0)>>
    <2>2. IsCommand(c, version) /\ c[1] = Svc("updatestat")
      <3>1. "updatestat" \in DOMAIN Documented
        BY DocumentedType
      <3>2. Documented["updatestat"] = <<"byte", "byte">>
        BY DocumentedType
      <3>3. Unnamed(<<"byte", "byte">>) = <<Field("byte", 0), Field("byte", 0)>>
        BY DEF Unnamed
      <3>4. c = <<Svc("updatestat")>> \o Unnamed(Documented["updatestat"])
        <4>1. \A x, y : <<x>> \o <<y, y>> = <<x, y, y>>
          BY PairIs
        <4> QED
          BY <3>2, <3>3, <4>1
      <3> QED
        BY <3>1, <3>4, DocumentedIs
    <2>3. Behind(c, Stuff(text))
      BY <1>3, <2>2 DEF Behind
    <2>4. c[1][2] \in Heads("signon")
      BY <2>2, FieldNames DEF Heads
    <2> HIDE DEF c
    <2>5. OK(c \o Stuff(text))
      BY <2>2, <2>3, <2>4, WholePacket
    <2> QED
      BY <2>1, <2>5 DEF c
  <1>4. \A request : request.n \in Int => IsText([verb |-> "cmd", request |-> request])
    BY DEF IsText
  <1>5. IsText([verb |-> "skins"])
    BY DEF IsText
  <1>6. Sounds \in Nat /\ Models \in Nat /\ Blocks \in Nat
    BY ServerMessageAssumption
  <1>7. CASE q.name = "new"
    BY <1>1, <1>7 DEF SignOnReply
  <1>8. CASE q.name # "new" /\ q.servercount # s.level
    BY <1>1, <1>8 DEF SignOnReply
  <1>9. CASE q.name # "new" /\ q.servercount = s.level
    <2>1. CASE q.name = "soundlist"
      <3>1. SignOnReply(s, q) = ListChunk("soundlist", Sounds, q.n)
        BY <1>9, <2>1 DEF SignOnReply
      <3> QED
        BY <1>2, <1>6, <2>1, <3>1 DEF IsRequest
    <2>2. CASE q.name = "modellist"
      <3>1. SignOnReply(s, q) = ListChunk("modellist", Models, q.n)
        BY <1>9, <2>2 DEF SignOnReply
      <3> QED
        BY <1>2, <1>6, <2>2, <3>1 DEF IsRequest
    <2>3. CASE q.name = "prespawn"
      <3> DEFINE r == IF q.n + 1 < Blocks THEN Request("prespawn", s.level, q.n + 1)
                      ELSE Request("spawn", s.level, 0)
      <3>1. SignOnReply(s, q) = Stuff([verb |-> "cmd", request |-> r])
        BY <1>9, <2>3 DEF SignOnReply
      <3>2. r.n \in Int
        BY <2>3 DEF IsRequest, Request
      <3> HIDE DEF r
      <3>3. IsText([verb |-> "cmd", request |-> r])
        BY <1>4, <3>2
      <3> HIDE DEF OK
      <3>4. OK(Stuff([verb |-> "cmd", request |-> r]))
        BY <1>3, <3>3
      <3> QED
        BY <3>1, <3>4 DEF OK
    <2>4. CASE q.name = "spawn"
      <3>1. SignOnReply(s, q) =
              <<Svc("updatestat"), Field("byte", 0), Field("byte", 0)>>
              \o Stuff([verb |-> "skins"])
        BY <1>9, <2>4 DEF SignOnReply
      <3> HIDE DEF OK
      <3>2. OK(<<Svc("updatestat"), Field("byte", 0), Field("byte", 0)>>
               \o Stuff([verb |-> "skins"]))
        BY <1>3, <1>5
      <3> QED
        BY <3>1, <3>2 DEF OK
    <2>5. CASE q.name \notin {"soundlist", "modellist", "prespawn", "spawn"}
      BY <1>9, <2>5 DEF SignOnReply
    <2> QED
      BY <2>1, <2>2, <2>3, <2>4, <2>5
  <1> QED
    BY <1>7, <1>8, <1>9

LEMMA DownloadPackets ==
  ASSUME NEW version, NEW s, s.block \in Nat, NEW no \in {0, 50}
  PROVE  IsPacket("download", version, Packet(DownloadReply(s, no)))
  <1>1. CASE s.block <= Blocks
    <2> DEFINE percent == (100 * s.block) \div Blocks
               block == <<s.file, s.block>>
               gs == <<Field("short", 1), Field("byte", percent), Field("data", block)>>
               c == <<Svc("download")>> \o gs
    <2>1. percent \in Nat
      <3>1. 100 * s.block \in Nat /\ Blocks \in Nat \ {0}
        BY ServerMessageAssumption
      <3>2. \A a \in Nat, b \in Nat \ {0} : a \div b \in Nat
        OBVIOUS
      <3> QED
        BY <3>1, <3>2
    <2>2. DownloadReply(s, no) = c
      BY <1>1, PairIs DEF DownloadReply
    <2> HIDE DEF percent, block
    <2>3. IsCommand(c, version)
      BY <2>1 DEF IsCommand
    <2>4. c[1][2] = "download"
      BY ListedShort, SequenceHead, FieldNames
    <2> HIDE DEF c
    <2> QED
      BY <2>2, <2>3, <2>4, OnePacket DEF Heads
  <1>2. CASE ~(s.block <= Blocks)
    <2> DEFINE c == <<Svc("download")>> \o <<Field("short", -1), Field("byte", no)>>
    <2>1. DownloadReply(s, no) = c
      BY <1>2, PairIs DEF DownloadReply
    <2>2. IsCommand(c, version)
      BY DEF IsCommand
    <2>3. c[1][2] = "download"
      BY ListedShort, SequenceHead, FieldNames
    <2> HIDE DEF c
    <2> QED
      BY <2>1, <2>2, <2>3, OnePacket DEF Heads
  <1> QED
    BY <1>1, <1>2

LEMMA PrintPackets ==
  ASSUME NEW version, NEW n \in Nat, NEW t \in PrintTexts(n)
  PROVE  IsPacket("print", version, Packet(<<Svc("print"), Field("byte", 0), Text(t)>>))
  <1> DEFINE c == <<Svc("print")>> \o <<Field("byte", 0), Text(t)>>
  <1>1. t \in Seq(Nat)
    <2>1. << >> \in Seq(Nat) /\ <<n>> \in Seq(Nat) /\ <<0>> \in Seq(Nat)
          /\ <<n, 0>> \in Seq(Nat) /\ <<n, 0, n>> \in Seq(Nat)
      OBVIOUS
    <2> QED
      BY <2>1 DEF PrintTexts, NL
  <1>2. IsCommand(c, version)
    BY <1>1 DEF IsCommand
  <1>3. c[1][2] = "print"
    BY ListedShort, SequenceHead, FieldNames
  <1>4. <<Svc("print"), Field("byte", 0), Text(t)>> = c
    BY PairIs
  <1> HIDE DEF c
  <1> QED
    BY <1>2, <1>3, <1>4, OnePacket DEF Heads

LEMMA JoinLen ==
  ASSUME NEW s, NEW t, Listed(s), Listed(t)
  PROVE  Listed(s \o t) /\ Len(s \o t) = Len(s) + Len(t)
  BY ListedJoin

LEMMA EntityPacketsAre ==
  ASSUME NEW version, NEW c \in EntityPackets
  PROVE  IsPacket("entities", version, Packet(c)) /\ IsCommand(c, version)
  <1> DEFINE s == <<Svc("packetentities")>>
             end == EndOfEntities
             a == Entity({})
             b == Entity({"U_FRAME"})
             OK(x) == IsCommand(x, version)
                      /\ x[1][2] \in {"packetentities", "deltapacketentities"}
  <1>1. Listed(s) /\ Listed(end) /\ Listed(a) /\ Listed(b)
    BY ListedShort, EntityFits DEF EndOfEntities, AllFit
  <1>2. ASSUME NEW es, IsEntities(es)
        PROVE  OK(s \o (es \o end))
    <2>1. Listed(es \o end)
      BY <1>2, UpdateFits DEF AllFit
    <2>2. (s \o (es \o end))[1][2] = "packetentities"
      BY <2>1, SequenceHead, FieldNames
    <2>3. IsCommand(s \o (es \o end), version)
      BY <1>2 DEF IsCommand
    <2> QED
      BY <2>2, <2>3
  <1>3. IsEntities(<< >>) /\ IsEntities(a) /\ IsEntities(b) /\ IsEntities(a \o b)
    <2>1. {} \in SUBSET (WordFlags \cup MoreFlags)
          /\ {"U_FRAME"} \in SUBSET (WordFlags \cup MoreFlags)
      BY DEF WordFlags
    <2> QED
      BY <2>1 DEF IsEntities
  <1>4. OK(<<Svc("deltapacketentities"), Field("byte", 0)>> \o end)
    <2> DEFINE d == <<Svc("deltapacketentities")>>
               z == <<Field("byte", 0)>>
    <2>1. <<Svc("deltapacketentities"), Field("byte", 0)>> = d \o z
      BY PairIs
    <2>2. Listed(d) /\ Listed(z)
      BY ListedShort
    <2>3. IsCommand(d \o (z \o end), version)
      BY DEF IsCommand
    <2>4. (d \o (z \o end))[1][2] = "deltapacketentities"
      <3>1. Listed(z \o end)
        BY <1>1, <2>2, ListedJoin
      <3> QED
        BY <3>1, SequenceHead, FieldNames
    <2> HIDE DEF d, z, end
    <2>5. (d \o z) \o end = d \o (z \o end)
      BY ONLY <1>1, <2>2, ListedAgain, SMTT(20)
    <2> QED
      BY <2>1, <2>3, <2>4, <2>5
  <1> HIDE DEF s, end, a, b
  <1>5. /\ (s \o a) \o end = s \o (a \o end) /\ (s \o b) \o end = s \o (b \o end)
        /\ << >> \o end = end
    BY ONLY <1>1, ListedAgain, ListedEmpty, SMTT(20)
  <1>6. ((s \o a) \o b) \o end = s \o ((a \o b) \o end)
    <2>1. Listed(a \o b)
      BY ONLY <1>1, ListedJoin
    <2>2. (s \o a) \o b = s \o (a \o b)
      BY ONLY <1>1, ListedAgain, SMTT(20)
    <2> DEFINE u == a \o b
    <2> HIDE DEF u
    <2>3. Listed(u)
      BY <2>1 DEF u
    <2>4. (s \o u) \o end = s \o (u \o end)
      BY ONLY <1>1, <2>3, ListedAgain, SMTT(20)
    <2> QED
      BY <2>2, <2>4 DEF u
  <1>7. OK(s \o (<< >> \o end)) /\ OK(s \o (a \o end)) /\ OK(s \o (b \o end))
        /\ OK(s \o ((a \o b) \o end))
    <2> HIDE DEF OK
    <2> QED
      BY <1>2, <1>3
  <1>8. OK(c)
    <2>1. c \in {s \o end, (s \o a) \o end, ((s \o a) \o b) \o end, (s \o b) \o end,
                 <<Svc("deltapacketentities"), Field("byte", 0)>> \o end}
      BY DEF EntityPackets, s, a, b, end
    <2> HIDE DEF OK
    <2> QED
      BY <1>4, <1>5, <1>6, <1>7, <2>1
  <1> QED
    BY <1>8, OnePacket DEF Heads

\* One message for each way to write a command.
LEMMA CatalogueIs ==
  ASSUME NEW c \in Catalogue
  PROVE  /\ IsCommand(c, client.protoversion)
         /\ c[1] = Svc("download") => ~In(Field("byte", 100), c)
  <1> DEFINE v == client.protoversion
             OK(x) == IsCommand(x, v) /\ x[1] # Svc("download")
  <1> HIDE DEF v
  <1>1. ASSUME NEW svc \in DOMAIN Documented
        PROVE  OK(<<Svc(svc)>> \o Unnamed(Documented[svc]))
    <2>1. svc # "download"
      BY DocumentedType DEF Special
    <2> QED
      BY <2>1, DocumentedIs, FieldNames
  <1>2. ASSUME NEW flags, NEW bits
        PROVE  OK(<<Svc("playerinfo")>> \o PlayerInfo(flags, bits, v))
    <2>1. Listed(PlayerInfo(flags, bits, v))
      BY PlayerInfoFits DEF AllFit
    <2>2. (<<Svc("playerinfo")>> \o PlayerInfo(flags, bits, v))[1] # Svc("download")
      BY <2>1, SequenceHead, FieldNames
    <2> QED
      BY <2>2 DEF IsCommand
  <1>3. ASSUME NEW flags
        PROVE  OK(<<Svc("sound")>> \o SoundPacket(flags))
    <2>1. Listed(SoundPacket(flags))
      BY SoundPacketFits DEF AllFit
    <2>2. (<<Svc("sound")>> \o SoundPacket(flags))[1] # Svc("download")
      BY <2>1, SequenceHead, FieldNames
    <2> QED
      BY <2>2 DEF IsCommand
  <1>4. ASSUME NEW te \in TempEntities
        PROVE  OK(<<Svc("temp_entity")>> \o TempEntity(te))
    <2>1. Listed(TempEntity(te))
      BY TempEntityFits DEF AllFit
    <2>2. (<<Svc("temp_entity")>> \o TempEntity(te))[1] # Svc("download")
      BY <2>1, SequenceHead, FieldNames
    <2> QED
      BY <2>2 DEF IsCommand
  <1>5. OK(<<Svc("print"), Field("byte", 0), Text(<<1, NL>>)>>)
    <2> DEFINE t == <<1, NL>>
    <2>1. t \in Seq(Nat)
      BY DEF NL
    <2> HIDE DEF t
    <2>2. <<Svc("print"), Field("byte", 0), Text(t)>>
          = <<Svc("print")>> \o <<Field("byte", 0), Text(t)>>
      BY PairIs
    <2>3. IsCommand(<<Svc("print"), Field("byte", 0), Text(t)>>, v)
      BY <2>1, <2>2 DEF IsCommand
    <2>4. <<Svc("print"), Field("byte", 0), Text(t)>>[1] # Svc("download")
      BY FieldNames
    <2> QED
      BY <2>3, <2>4 DEF t
  <1>6. ASSUME NEW text, IsText(text)
        PROVE  OK(Stuff(text))
    <2>1. Stuff(text)[1] # Svc("download")
      BY FieldNames DEF Stuff
    <2> QED
      BY <1>6, <2>1, StuffIs
  <1>7. ASSUME NEW verb
        PROVE  OK(Stuff([verb |-> verb, request |-> Request("spawn", 1, 0), file |-> 1]))
    <2> DEFINE text == [verb |-> verb, request |-> Request("spawn", 1, 0), file |-> 1]
    <2>1. IsText(text)
      BY DEF IsText, Request
    <2> HIDE DEF text, OK
    <2>2. OK(Stuff(text))
      BY <1>6, <2>1
    <2> QED
      BY <2>2 DEF text
  <1>8. ASSUME NEW extended \in BOOLEAN
        PROVE  OK(ServerData(1, extended))
    <2>1. ServerData(1, extended) = <<Svc("serverdata")>> \o Data(1, extended)
          /\ Listed(Data(1, extended))
      BY ServerDataFits DEF AllFit
    <2>2. ServerData(1, extended)[1] # Svc("download")
      BY <2>1, SequenceHead, FieldNames
    <2>3. IsCommand(ServerData(1, extended), v)
      BY <2>1 DEF IsCommand
    <2> QED
      BY <2>2, <2>3
  <1>9. ASSUME NEW list \in {"soundlist", "modellist"}, NEW n \in {0, 2}
        PROVE  OK(ListChunk(list, 3, n))
    <2>1. n \in Int /\ 3 \in Nat
      OBVIOUS
    <2>2. ListChunk(list, 3, n) = <<Svc(list)>> \o Chunk(list, 3, n)
          /\ Listed(Chunk(list, 3, n))
      BY <2>1, ListChunkFits DEF AllFit
    <2>3. ListChunk(list, 3, n)[1] # Svc("download")
      BY <2>2, SequenceHead, FieldNames
    <2>4. IsCommand(ListChunk(list, 3, n), v)
      BY <2>1, <2>2 DEF IsCommand
    <2> QED
      BY <2>3, <2>4
  <1> DEFINE d == <<Svc("download"), Field("short", 1), Field("byte", 50), Field("data", 0)>>
  <1>10. IsCommand(d, v) /\ ~In(Field("byte", 100), d)
    <2>1. d = <<Svc("download")>>
              \o <<Field("short", 1), Field("byte", 50), Field("data", 0)>>
      BY PairIs
    <2>2. IsCommand(d, v)
      BY <2>1 DEF IsCommand
    <2>3. \A x : In(x, d) => x \in {Svc("download"), Field("short", 1), Field("byte", 50),
                                    Field("data", 0)}
      BY ListedShort
    <2>4. Field("byte", 100) \notin {Svc("download"), Field("short", 1), Field("byte", 50),
                                     Field("data", 0)}
      BY DEF Field, Svc
    <2> QED
      BY <2>2, <2>3, <2>4
  <1>11. ASSUME NEW es, IsEntities(es)
         PROVE  OK(<<Svc("packetentities")>> \o (es \o EndOfEntities))
    <2>1. Listed(es \o EndOfEntities)
      BY <1>11, UpdateFits DEF AllFit
    <2>2. (<<Svc("packetentities")>> \o (es \o EndOfEntities))[1] # Svc("download")
      BY <2>1, SequenceHead, FieldNames
    <2> QED
      BY <1>11, <2>2 DEF IsCommand
  <1>12. ASSUME NEW flags \in SUBSET (WordFlags \cup MoreFlags)
         PROVE  OK(<<Svc("packetentities")>> \o Entity(flags) \o EndOfEntities)
    <2> DEFINE s == <<Svc("packetentities")>>
               e == Entity(flags)
               end == EndOfEntities
    <2>1. Listed(s) /\ Listed(e) /\ Listed(end) /\ IsEntities(e)
      BY ListedShort, EntityFits DEF AllFit, EndOfEntities, IsEntities
    <2>2. OK(s \o (e \o end))
      <3> HIDE DEF OK
      <3> QED
        BY <1>11, <2>1
    <2> HIDE DEF s, e, end
    <2>3. (s \o e) \o end = s \o (e \o end)
      BY ONLY <2>1, ListedAgain, SMTT(20)
    <2> QED
      BY <2>2, <2>3 DEF s, e, end
  <1>16. ASSUME NEW flags \in SUBSET (WordFlags \cup MoreFlags)
         PROVE  OK(<<Svc("packetentities")>> \o Entity({}) \o Entity(flags) \o EndOfEntities)
    <2> DEFINE s == <<Svc("packetentities")>>
               a == Entity({})
               b == Entity(flags)
               end == EndOfEntities
               u == a \o b
    <2>1. Listed(s) /\ Listed(a) /\ Listed(b) /\ Listed(end) /\ IsEntities(u)
      BY ListedShort, EntityFits DEF AllFit, EndOfEntities, IsEntities
    <2>2. OK(s \o (u \o end))
      <3> HIDE DEF OK
      <3> QED
        BY <1>11, <2>1
    <2> HIDE DEF s, a, b, end
    <2>3. (s \o a) \o b = s \o u /\ Listed(u)
      BY ONLY <2>1, ListedAgain, ListedJoin, SMTT(20)
    <2> HIDE DEF u
    <2>4. (s \o u) \o end = s \o (u \o end)
      BY ONLY <2>1, <2>3, ListedAgain, SMTT(20)
    <2> QED
      BY <2>2, <2>3, <2>4 DEF s, a, b, end
  <1>17. ASSUME NEW no \in {0, 50}
         PROVE  LET m == <<Svc("download"), Field("short", -1), Field("byte", no)>>
                IN  IsCommand(m, v) /\ ~In(Field("byte", 100), m)
    <2> DEFINE m == <<Svc("download"), Field("short", -1), Field("byte", no)>>
    <2>1. m = <<Svc("download")>> \o <<Field("short", -1), Field("byte", no)>>
      BY PairIs
    <2>2. IsCommand(m, v)
      BY <2>1 DEF IsCommand
    <2>3. \A x : In(x, m) => x \in {Svc("download"), Field("short", -1), Field("byte", no)}
      BY ListedShort
    <2>4. Field("byte", 100) \notin {Svc("download"), Field("short", -1), Field("byte", no)}
      BY DEF Field, Svc
    <2> QED
      BY <2>2, <2>3, <2>4
  <1>13. OK(<<Svc("packetentities")>> \o EndOfEntities)
    <2>1. << >> \o EndOfEntities = EndOfEntities /\ IsEntities(<< >>)
      <3>1. Listed(EndOfEntities)
        BY ListedShort DEF EndOfEntities
      <3> QED
        BY <3>1, ListedEmpty DEF IsEntities
    <2> HIDE DEF OK
    <2>2. OK(<<Svc("packetentities")>> \o (<< >> \o EndOfEntities))
      BY <1>11, <2>1
    <2> QED
      BY <2>1, <2>2
  <1>14. OK(<<Svc("deltapacketentities"), Field("byte", 0)>> \o EndOfEntities)
    <2> DEFINE s == <<Svc("deltapacketentities")>>
               z == <<Field("byte", 0)>>
               end == EndOfEntities
    <2>1. <<Svc("deltapacketentities"), Field("byte", 0)>> = s \o z
      BY PairIs
    <2>2. Listed(s) /\ Listed(z) /\ Listed(end)
      BY ListedShort DEF EndOfEntities
    <2>3. IsCommand(s \o (z \o end), v)
      BY DEF IsCommand
    <2>4. (s \o (z \o end))[1] # Svc("download")
      <3>1. Listed(z \o end)
        BY <2>2, ListedJoin
      <3> QED
        BY <3>1, SequenceHead, FieldNames
    <2> HIDE DEF s, z, end
    <2>5. (s \o z) \o end = s \o (z \o end)
      BY ONLY <2>2, ListedAgain, SMTT(20)
    <2> QED
      BY <2>1, <2>3, <2>4, <2>5 DEF end
  <1> DEFINE D == {<<Svc("download"), Field("short", -1), Field("byte", percent)>> :
                   percent \in {0, 50}}
  <1>15. OK(c) \/ c = d \/ c \in D
    <2> HIDE DEF OK, d
    <2> DEFINE A1 == {<<Svc(svc)>> \o Unnamed(Documented[svc]) : svc \in DOMAIN Documented}
               A2 == {<<Svc("playerinfo")>> \o PlayerInfo(flags, bits, v) :
                      flags \in Few(PlayerFlags), bits \in Few(FlagsOf(UsercmdFields(28)))}
               A3 == {<<Svc("sound")>> \o SoundPacket(flags) :
                      flags \in SUBSET FlagsOf(SoundFields)}
               A4 == {<<Svc("temp_entity")>> \o TempEntity(te) : te \in TempEntities}
               A5 == {<<Svc("print"), Field("byte", 0), Text(<<1, NL>>)>>}
               A6 == {Stuff([verb |-> verb, request |-> Request("spawn", 1, 0), file |-> 1]) :
                      verb \in {"cmd", "skins", "download", "reconnect"}}
               A7 == {ServerData(1, extended) : extended \in BOOLEAN}
               A8 == {ListChunk(list, 3, n) : list \in {"soundlist", "modellist"},
                      n \in {0, 2}}
               A9 == {<<Svc("packetentities")>> \o Entity(flags) \o EndOfEntities :
                      flags \in Few(WordFlags \cup MoreFlags)}
               A10 == {<<Svc("packetentities")>> \o EndOfEntities}
               A11 == {<<Svc("deltapacketentities"), Field("byte", 0)>> \o EndOfEntities}
               A12 == {<<Svc("download"), Field("short", 1), Field("byte", 50),
                       Field("data", 0)>>}
               A13 == {<<Svc("packetentities")>> \o Entity({}) \o Entity(flags)
                       \o EndOfEntities : flags \in Few(WordFlags \cup MoreFlags)}
    <2>20. Catalogue = A1 \cup A2 \cup A3 \cup A4 \cup A5 \cup A6 \cup A7 \cup A8 \cup A12
                      \cup D \cup A9 \cup A13 \cup A10 \cup A11
      BY SMTT(60) DEF Catalogue, v
    <2>1. CASE c \in A1
      <3>1. PICK svc \in DOMAIN Documented : c = <<Svc(svc)>> \o Unnamed(Documented[svc])
        BY <2>1
      <3> QED
        BY <1>1, <3>1
    <2>2. CASE c \in A2
      <3>1. PICK flags, bits : c = <<Svc("playerinfo")>> \o PlayerInfo(flags, bits, v)
        BY <2>2
      <3> QED
        BY <1>2, <3>1
    <2>3. CASE c \in A3
      BY <1>3, <2>3
    <2>4. CASE c \in A4
      BY <1>4, <2>4
    <2>5. CASE c \in A5
      BY <1>5, <2>5
    <2>6. CASE c \in A6
      BY <1>7, <2>6
    <2>7. CASE c \in A7
      BY <1>8, <2>7
    <2>8. CASE c \in A8
      BY <1>9, <2>8
    <2>9. CASE c \in A9
      <3>1. \A S : Few(S) \subseteq SUBSET S
        BY DEF Few
      <3>2. PICK flags \in Few(WordFlags \cup MoreFlags) :
                 c = <<Svc("packetentities")>> \o Entity(flags) \o EndOfEntities
        BY <2>9
      <3> QED
        BY <1>12, <3>1, <3>2
    <2>10. CASE c \in A10
      BY <1>13, <2>10
    <2>11. CASE c \in A11
      BY <1>14, <2>11
    <2>12. CASE c \in A12
      BY <2>12 DEF d
    <2>13. CASE c \in A13
      <3>1. \A S : Few(S) \subseteq SUBSET S
        BY DEF Few
      <3>2. PICK flags \in Few(WordFlags \cup MoreFlags) :
                 c = <<Svc("packetentities")>> \o Entity({}) \o Entity(flags)
                     \o EndOfEntities
        BY <2>13
      <3> QED
        BY <1>16, <3>1, <3>2
    <2> HIDE DEF A1, A2, A3, A4, A5, A6, A7, A8, A9, A10, A11, A12, A13, D
    <2> QED
      BY <2>1, <2>2, <2>3, <2>4, <2>5, <2>6, <2>7, <2>8, <2>9, <2>10, <2>11, <2>12, <2>13,
         <2>20
  <1>18. c \in D => IsCommand(c, v) /\ ~In(Field("byte", 100), c)
    BY <1>17
  <1> HIDE DEF d, D
  <1> QED
    BY <1>10, <1>15, <1>18 DEF v

LEMMA AnyPacketsAre ==
  ASSUME NEW p \in AnyPackets
  PROVE  IsPacket("any", client.protoversion, p)
  <1> DEFINE v == client.protoversion
             nop == <<Svc("nop")>>
  <1>1. PICK c \in Catalogue :
          p \in {[message |-> SubSeq(Written(c \o nop), 1, n),
                  cut |-> IF n < Len(Written(c \o nop)) - 1 THEN c[1][2] ELSE "none"] :
                 n \in 1 .. Len(Written(c \o nop))}
    BY DEF AnyPackets
  <1>2. IsCommand(c, v) /\ (c[1] = Svc("download") => ~In(Field("byte", 100), c))
    BY CatalogueIs
  <1>3. Listed(c) /\ Listed(Written(c)) /\ Len(Written(c)) \in Nat
    BY <1>2, CommandListed
  <1>4. Written(nop) = Bytes(Svc("nop")) /\ Listed(nop) /\ Len(Bytes(Svc("nop"))) = 1
        /\ Listed(Bytes(Svc("nop")))
    <2>1. Svc("nop")[1] \in DOMAIN Width /\ Width[Svc("nop")[1]] = 1
      BY FieldNames DEF Width
    <2> QED
      BY <2>1, WrittenOne, ListedShort, BytesIs
  <1> DEFINE w == Written(c \o nop)
  <1>5. w = Written(c) \o Written(nop)
    BY <1>3, <1>4, WrittenConcat
  <1>6. Listed(w) /\ Len(w) = Len(Written(c)) + 1
    <2> DEFINE a == Written(c)
               b == Written(nop)
    <2>1. Listed(b) /\ Len(b) = 1 /\ Listed(a)
      BY <1>3, <1>4
    <2>2. w = a \o b
      BY <1>5
    <2> HIDE DEF a, b, w
    <2>3. Listed(a \o b) /\ Len(a \o b) = Len(a) + 1
      BY <2>1, JoinLen, Zenon
    <2> QED
      BY <2>2, <2>3 DEF a
  <1>7. Behind(c, nop)
    BY DEF Behind
  <1>8. PICK n \in 1 .. Len(w) : p = [message |-> SubSeq(w, 1, n),
                                      cut |-> IF n < Len(w) - 1 THEN c[1][2] ELSE "none"]
    BY <1>1
  <1>9. /\ Listed(p.message) /\ Len(p.message) = n
        /\ \A i \in DOMAIN p.message : p.message[i] = w[i]
        /\ p.cut = IF n < Len(w) - 1 THEN c[1][2] ELSE "none"
    <2> DEFINE V == {w[i] : i \in DOMAIN w}
               m == SubSeq(w, 1, n)
    <2>1. w \in Seq(V)
      BY <1>6 DEF Listed
    <2>2. p.message = m /\ p.cut = IF n < Len(w) - 1 THEN c[1][2] ELSE "none"
      BY <1>8
    <2> HIDE DEF w, V
    <2>3. m \in Seq(V) /\ Len(m) = n /\ \A i \in 1 .. n : m[i] = w[i]
      BY <2>1
    <2>4. DOMAIN m = 1 .. n
      BY <2>3
    <2> HIDE DEF m
    <2>5. Listed(m)
      BY <2>3, ListedIn
    <2> QED
      BY <2>2, <2>3, <2>4, <2>5
  <1> HIDE DEF nop, v
  <1>10. p.cut = "none" => Len(p.message) >= Len(Written(c))
    <2>1. CASE n < Len(w) - 1
      <3>1. c[1][2] # "none"
        <4>1. PICK name, gs : c = <<Svc(name)>> \o gs /\ AllFit(name, gs) /\ name # "none"
          BY <1>2, CommandFits
        <4>2. Listed(gs)
          BY <4>1 DEF AllFit
        <4> QED
          BY <4>1, <4>2, SequenceHead, FieldNames
      <3> QED
        BY <1>9, <2>1, <3>1
    <2>2. CASE ~(n < Len(w) - 1)
      <3>1. Len(w) - 1 = Len(Written(c)) /\ n \in Nat
        BY <1>3, <1>6
      <3> QED
        BY <1>3, <1>9, <2>2, <3>1
    <2> QED
      BY <2>1, <2>2
  <1>11. p.cut # "none" => p.cut = c[1][2] /\ Len(p.message) < Len(Written(c))
    <2>1. Len(w) - 1 = Len(Written(c))
      BY <1>3, <1>6
    <2> QED
      BY <1>9, <2>1
  <1>12. Len(p.message) \in 1 .. Len(w)
    BY <1>9
  <1>13. /\ Listed(p.message) /\ Len(p.message) \in 1 .. Len(Written(c \o nop))
         /\ \A i \in DOMAIN p.message : p.message[i] = Written(c \o nop)[i]
    BY <1>9, <1>12
  <1> HIDE DEF w
  <1> QED
    BY <1>2, <1>7, <1>10, <1>11, <1>13 DEF IsPacket, v

-----------------------------------------------------------------------------
(* What a step changes. *)

\* Client c becomes d by moving in the message and by changes of the fields in S.
Alters(c, d, S) == IsClient(d) /\ \A x \in Names \ (S \cup Place) : d[x] = c[x]

LEMMA AltersTwice ==
  ASSUME NEW c, NEW d, NEW e, NEW S, NEW T, NEW U, S \subseteq U, T \subseteq U,
         Alters(c, d, S), Alters(d, e, T)
  PROVE  Alters(c, e, U)
  BY DEF Alters

LEMMA ChangesAlters ==
  ASSUME NEW c, NEW d, NEW S, Changes(c, d, S)
  PROVE  Alters(c, d, S) /\ IsClient(d)
  BY DEF Alters, Changes

\* The texts that wait for the server: where a number is asked for, there is one.
Asks(c) ==
  Listed(c.reliable) /\ \A i \in DOMAIN c.reliable : IsRequest(c.reliable[i])

LEMMA AppendIs ==
  ASSUME NEW s, Listed(s), NEW x
  PROVE  /\ Listed(Append(s, x)) /\ Len(Append(s, x)) = Len(s) + 1
         /\ \A i \in DOMAIN s : Append(s, x)[i] = s[i]
         /\ Append(s, x)[Len(s) + 1] = x
         /\ DOMAIN Append(s, x) = 1 .. Len(s) + 1
  <1> DEFINE V == {s[i] : i \in DOMAIN s} \cup {x}
  <1>1. {s[i] : i \in DOMAIN s} \subseteq V /\ x \in V
    OBVIOUS
  <1>2. s \in Seq({s[i] : i \in DOMAIN s})
    BY DEF Listed
  <1> HIDE DEF V
  <1>3. s \in Seq(V)
    BY <1>1, <1>2
  <1>4. Append(s, x) \in Seq(V)
    BY <1>1, <1>3
  <1>5. Listed(Append(s, x))
    BY <1>4, ListedIn
  <1> QED
    BY <1>1, <1>3, <1>5

LEMMA TailIs ==
  ASSUME NEW s, Listed(s), s # << >>
  PROVE  /\ Listed(Tail(s)) /\ Len(Tail(s)) = Len(s) - 1
         /\ \A i \in DOMAIN Tail(s) : i + 1 \in DOMAIN s /\ Tail(s)[i] = s[i + 1]
         /\ 1 \in DOMAIN s /\ Head(s) = s[1]
  <1> DEFINE V == {s[i] : i \in DOMAIN s}
  <1>2. s \in Seq(V)
    BY DEF Listed
  <1> HIDE DEF V
  <1>4. Tail(s) \in Seq(V) /\ Len(Tail(s)) = Len(s) - 1
    BY <1>2
  <1>5. Listed(Tail(s))
    BY <1>4, ListedIn
  <1> QED
    BY <1>2, <1>4, <1>5

LEMMA AsksMore ==
  ASSUME NEW c, IsClient(c), Asks(c), NEW q, IsRequest(q)
  PROVE  /\ Alters(c, NetQW_AppendReliableBuffer(c, q), {"reliable"})
         /\ Asks(NetQW_AppendReliableBuffer(c, q))
         /\ IsClient(NetQW_AppendReliableBuffer(c, q))
  <1> DEFINE d == NetQW_AppendReliableBuffer(c, q)
  <1>1. Changes(c, d, {"reliable"})
    BY AssignedChanges DEF NetQW_AppendReliableBuffer
  <1>2. "reliable" \in Names
    BY DEF Names
  <1>3. d.reliable = Append(c.reliable, q)
    BY <1>2 DEF NetQW_AppendReliableBuffer, IsClient
  <1> HIDE DEF d
  <1>4. Listed(c.reliable) /\ \A i \in DOMAIN c.reliable : IsRequest(c.reliable[i])
    BY DEF Asks
  <1>7. Listed(d.reliable) /\ DOMAIN d.reliable = 1 .. Len(c.reliable) + 1
        /\ (\A i \in DOMAIN c.reliable : d.reliable[i] = c.reliable[i])
        /\ d.reliable[Len(c.reliable) + 1] = q
    BY <1>3, <1>4, AppendIs
  <1>8. DOMAIN c.reliable = 1 .. Len(c.reliable) /\ Len(c.reliable) \in Nat
    BY <1>4, ListedLen
  <1>5. \A i \in DOMAIN d.reliable : IsRequest(d.reliable[i])
    BY <1>4, <1>7, <1>8
  <1>6. Alters(c, d, {"reliable"}) /\ IsClient(d)
    BY <1>1, ChangesAlters
  <1> QED
    BY <1>5, <1>6, <1>7 DEF Asks, d

\* A request whose number nobody counts with.
LEMMA OtherRequests ==
  /\ \A n : IsRequest([name |-> "say"]) /\ IsRequest([name |-> "nextdl"])
            /\ IsRequest([name |-> "download", file |-> n])
            /\ IsRequest([name |-> "new"])
  /\ \A name, count, n : /\ n \in Int => IsRequest(Request(name, count, n))
                         /\ IsRequest(Request("begin", count, n))
  BY DEF IsRequest, Request

\* Asking depends on the texts alone.
LEMMA AsksSame ==
  ASSUME NEW c, NEW d, c.reliable = d.reliable, Asks(c)
  PROVE  Asks(d)
  BY DEF Asks

LEMMA AltersKeeps ==
  ASSUME NEW c, NEW d, NEW S, Alters(c, d, S), NEW x \in Names, x \notin S, x \notin Place
  PROVE  d[x] = c[x]
  BY DEF Alters

-----------------------------------------------------------------------------
(* The loop. *)

\* What the loop looks at behind a command.
LEMMA ThenIs ==
  ASSUME NEW c, IsClient(c), Then(c)
  PROVE  /\ UNCHANGED <<topic, server>>
         /\ Alters(c, client', {"fault"}) /\ IsClient(client')
         /\ client'.fault \in {c.fault, "stuck", "out of step"}
         /\ client'.fault # c.fault => c.fault = "none"
         /\ client'.fault = "none" => client' = c
         /\ client'.fault = "out of step" => c.fault = "out of step" \/ (~c.instep /\ ~c.msg_badread)
         /\ client'.fault = "stuck" => c.fault = "stuck" \/ c.stuck
         /\ client'.fault = "none" => ~c.stuck /\ (c.instep \/ c.msg_badread)
         /\ client'.instep = c.instep /\ client'.msg_badread = c.msg_badread
         /\ client'.msg_readcount = c.msg_readcount /\ client'.stuck = c.stuck
  <1>1. client' = CASE c.stuck -> Faulty(c, "stuck")
                    [] ~c.stuck /\ ~c.instep /\ ~c.msg_badread ->
                         Faulty(c, "out of step")
                    [] OTHER -> c
    BY DEF Then, Once
  <1>2. UNCHANGED <<topic, server>>
    BY DEF Then
  <1>3. "fault" \in Names \ Place /\ {"instep", "msg_badread", "msg_readcount", "stuck"} \subseteq Names
    BY DEF Names, Place
  <1>4. ASSUME NEW f \in {"stuck", "out of step"}
        PROVE  /\ Changes(c, Faulty(c, f), {"fault"})
               /\ Faulty(c, f).fault = IF c.fault = "none" THEN f ELSE c.fault
               /\ Faulty(c, f).instep = c.instep /\ Faulty(c, f).msg_badread = c.msg_badread
               /\ Faulty(c, f).msg_readcount = c.msg_readcount /\ Faulty(c, f).stuck = c.stuck
    <2>1. DOMAIN c = Names
      BY DEF IsClient
    <2>2. Changes(c, Faulty(c, f), {"fault"})
      BY AssignedChanges DEF Faulty
    <2> QED
      BY <1>3, <2>1, <2>2 DEF Faulty
  <1>5. Changes(c, c, {"fault"})
    BY ChangesNothing, ChangesMore
  <1>6. c.stuck \in BOOLEAN /\ c.instep \in BOOLEAN /\ c.msg_badread \in BOOLEAN
    BY DEF IsClient
  <1>7. CASE c.stuck
    <2>1. client' = Faulty(c, "stuck")
      BY <1>1, <1>7
    <2> QED
      BY <1>2, <1>4, <1>7, <2>1, ChangesAlters
  <1>8. CASE ~c.stuck /\ ~c.instep /\ ~c.msg_badread
    <2>1. client' = Faulty(c, "out of step")
      BY <1>1, <1>8
    <2> QED
      BY <1>2, <1>4, <1>8, <2>1, ChangesAlters
  <1>9. CASE ~c.stuck /\ (c.instep \/ c.msg_badread)
    <2>1. client' = c
      BY <1>1, <1>9
    <2> QED
      BY <1>2, <1>5, <1>9, <2>1, ChangesAlters
  <1> QED
    BY <1>6, <1>7, <1>8, <1>9

\* What the client reads, and what is on its way to it and from it.
BaseInv ==
  /\ topic \in Topics
  /\ IsClient(client) /\ Says(topic, client.message) /\ Asks(client)
  /\ client.buffer_position \in Nat
  /\ DOMAIN server = {"level", "entered", "down", "sent", "file", "block", "entities"}
  /\ server.level \in Nat /\ server.sent \in Nat /\ server.block \in Nat
  /\ Listed(server.down)
  /\ \A i \in DOMAIN server.down : IsPacket(topic, client.protoversion, server.down[i])
  /\ topic = "any" => /\ Len(server.down) <= 1
                      /\ server.down # << >> => ~client.parsing

LEMMA CaseIs ==
  ASSUME BaseInv, NEW name, name # "none", Case(name)
  PROVE  /\ IsClient(Taken) /\ Alters(client, Taken, {"command"}) /\ Taken.command = name
         /\ Listed(client.message) /\ Len(client.message) \in Nat
         /\ client.msg_readcount \in Nat /\ client.msg_readcount + 1 \in DOMAIN client.message
         /\ client.message[client.msg_readcount + 1] = Svc(name)
         /\ Taken.msg_readcount = client.msg_readcount + 1
         /\ Taken.msg_badread = FALSE /\ Taken.instep = client.instep
         /\ Taken.stuck = client.stuck /\ Taken.message = client.message
         /\ \/ name = "nop"
            \/ client.msg_readcount = 0 /\ client.message[1] = Svc(name)
            \/ name = "stufftext" /\ client.message[1] = Svc("updatestat")
  <1> DEFINE m == client.message
             p == client.msg_readcount + 1
             q == Read(client, "svc")
  <1>1. /\ IsClient(client) /\ Says(topic, m) /\ Here(client, "svc")
        /\ Value(client, "svc", "none") = name /\ ~client.msg_badread
    BY DEF BaseInv, Case
  <1>2. Listed(m) /\ Len(m) \in Nat /\ DOMAIN m = 1 .. Len(m)
    BY <1>1, ListedLen DEF Says
  <1>3. client.msg_readcount \in Nat /\ p \in DOMAIN m /\ m[p][1] = "svc"
    BY <1>1, <1>2 DEF Here, IsClient
  <1>4. Width["svc"] = 1
    BY DEF Width
  <1>5. Fits(client, Width["svc"])
    BY <1>2, <1>3, <1>4 DEF Fits
  <1>6. Value(client, "svc", "none") = m[p][2]
    BY <1>1, <1>5 DEF Value
  <1>7. m[p] = Svc(name)
    BY <1>1, <1>2, <1>3, <1>6 DEF Says, Svc
  <1>8. \/ p = 1 \/ name = "nop" \/ (name = "stufftext" /\ m[1] = Svc("updatestat"))
    BY <1>1, <1>2, <1>3, <1>6 DEF Says
  <1>9. q = Advance(client, "svc", 1)
    BY <1>4, <1>5, ReadIs DEF ReadInteger
  <1>10. /\ {"command", "msg_readcount", "msg_badread", "instep", "stuck", "message"} \subseteq Names
         /\ DOMAIN client = Names /\ client.instep \in BOOLEAN /\ client.msg_badread \in BOOLEAN
         /\ "message" \notin Place /\ "message" # "command"
    BY <1>1 DEF Names, IsClient, Place
  <1>11. /\ q.msg_readcount = p /\ q.msg_badread = FALSE /\ q.instep = client.instep
         /\ q.stuck = client.stuck
    BY <1>1, <1>9, <1>10 DEF Advance
  <1>12. Changes(client, q, {}) /\ IsClient(q)
    BY <1>1, ReadChanges, KindsNamed DEF Changes
  <1>13. Taken = [q EXCEPT !.command = name]
    BY <1>1 DEF Taken
  <1> HIDE DEF q
  <1>14. Changes(q, Taken, {"command"})
    BY <1>12, <1>13, AssignedChanges
  <1>15. Alters(client, q, {}) /\ Alters(q, Taken, {"command"}) /\ IsClient(Taken)
    BY <1>12, <1>14, ChangesAlters
  <1>16. Alters(client, Taken, {"command"})
    BY <1>15, AltersTwice
  <1>17. DOMAIN q = Names
    BY <1>12 DEF IsClient
  <1>18. /\ Taken.msg_readcount = p /\ Taken.msg_badread = FALSE
         /\ Taken.instep = client.instep /\ Taken.stuck = client.stuck /\ Taken.command = name
    BY <1>10, <1>11, <1>13, <1>17
  <1>19. Taken.message = m
    BY <1>10, <1>16 DEF Alters
  <1> QED
    BY <1>2, <1>3, <1>7, <1>8, <1>15, <1>16, <1>18, <1>19

-----------------------------------------------------------------------------
(* What each pass of the loop does to the client. *)

\* What a printed line is kept in.
LineFields == {"buffer", "buffer_position", "console_output", "printed", "long"}
\* What is known of a download.
FileFields == {"download_file", "name", "content", "running", "overlap"}

\* The faults of a download.
FileFaults == {"none", "closed twice", "wrote to a closed file", "closed no file"}

\* A step of the loop in which client becomes client' by changes of the fields in S and
\* of `command' and `fault'.
Steps(S) ==
  /\ UNCHANGED <<topic, server>>
  /\ Alters(client, client', S \cup {"command", "fault"})
  /\ Asks(client')
  /\ \/ client'.fault \in {"none", "stuck", "out of step"}
     \/ "download_file" \in S /\ client'.fault \in FileFaults

\* What is behind a command is read, then the loop goes on.
LEMMA ThenSteps ==
  ASSUME BaseInv, client.fault = "none", NEW S, NEW c, IsClient(c),
         Alters(client, c, S \cup {"command", "fault"}), Asks(c),
         c.fault = "none" \/ ("download_file" \in S /\ c.fault \in FileFaults), Then(c)
  PROVE  Steps(S)
  <1>1. /\ UNCHANGED <<topic, server>> /\ Alters(c, client', {"fault"})
        /\ client'.fault \in {c.fault, "stuck", "out of step"}
    BY ThenIs
  <1>2. Alters(client, client', S \cup {"command", "fault"})
    <2> DEFINE U == S \cup {"command", "fault"}
    <2>1. {"fault"} \subseteq U /\ U \subseteq U
      OBVIOUS
    <2> HIDE DEF U
    <2>2. Alters(client, c, U)
      BY DEF U
    <2>3. Alters(client, client', U)
      BY <1>1, <2>1, <2>2 DEF Alters
    <2> QED
      BY <2>3 DEF U
  <1>3. client'.reliable = c.reliable
    BY <1>1 DEF Alters, Names, Place
  <1> QED
    BY <1>1, <1>2, <1>3, AsksSame DEF Steps

\* Reading changes neither the texts that wait for the server nor the fault.
LEMMA TakenAsks ==
  ASSUME BaseInv, client.fault = "none", NEW S, NEW c,
         Alters(client, c, S), S \subseteq Names \ {"reliable", "fault"}
  PROVE  Asks(c) /\ c.fault = "none"
  <1>1. c.reliable = client.reliable /\ c.fault = client.fault
    BY DEF Alters, Names, Place
  <1> QED
    BY <1>1, AsksSame DEF BaseInv

LEMMA FixedSteps ==
  ASSUME BaseInv, Parse_fixed
  PROVE  Steps({})
  <1>1. PICK svc \in DOMAIN Parsed : Case(svc) /\ Then(ReadAll(Taken, Parsed[svc]))
    BY DEF Parse_fixed
  <1>2. svc # "none"
    BY <1>1 DEF Parsed, Payload, Silent
  <1>3. IsClient(Taken) /\ Alters(client, Taken, {"command"}) /\ client.fault = "none"
    <2>1. IsClient(Taken) /\ Alters(client, Taken, {"command"})
      BY <1>1, <1>2, CaseIs
    <2>2. client.fault = "none"
      BY <1>1 DEF Case, Loop
    <2> QED
      BY <2>1, <2>2
  <1> DEFINE c == ReadAll(Taken, Parsed[svc])
  <1>4. Changes(Taken, c, {})
    BY <1>3, ReadAllChanges, ParsedType
  <1> HIDE DEF c
  <1>5. Alters(Taken, c, {}) /\ IsClient(c)
    BY <1>4, ChangesAlters
  <1>6. Alters(client, c, {"command"})
    BY <1>3, <1>5, AltersTwice
  <1>7. Asks(c) /\ c.fault = "none"
    BY <1>3, <1>6, TakenAsks DEF Names
  <1>8. Alters(client, c, {} \cup {"command", "fault"})
    BY <1>6 DEF Alters
  <1>9. Then(c)
    BY <1>1 DEF c
  <1> QED
    BY <1>3, <1>5, <1>7, <1>8, <1>9, ThenSteps

\* Assignments to several fields.
LEMMA FieldsAlter ==
  ASSUME NEW c, IsClient(c), NEW v, NEW w, NEW u, NEW z, NEW y
  PROVE  /\ Alters(c, [c EXCEPT !.servercount = v, !.loaded = w], {"servercount", "loaded"})
         /\ Alters(c, [c EXCEPT !.validsequence = v], {"validsequence"})
         /\ Alters(c, [c EXCEPT !.deltapoint = v], {"deltapoint"})
         /\ Alters(c, [c EXCEPT !.abort = v], {"abort"})
         /\ Alters(c, [c EXCEPT !.loaded = v], {"loaded"})
         /\ Alters(c, [c EXCEPT !.fault = v], {"fault"})
         /\ Alters(c, [c EXCEPT !.lp = v], {"lp"})
         /\ Alters(c, [c EXCEPT !.content = v], {"content"})
         /\ Alters(c, [c EXCEPT !.download_file = v, !.running = w],
                   {"download_file", "running"})
         /\ Alters(c, [c EXCEPT !.download_file = v, !.running = w, !.finished = u],
                   {"download_file", "running", "finished"})
         /\ Alters(c, [c EXCEPT !.download_file = v, !.name = w, !.content = u,
                                !.overlap = z, !.running = y], FileFields)
         /\ Alters(c, [c EXCEPT !.buffer = v, !.buffer_position = w],
                   {"buffer", "buffer_position"})
         /\ Alters(c, [c EXCEPT !.console_output = v], {"console_output"})
         /\ Alters(c, [c EXCEPT !.buffer = v, !.buffer_position = w, !.printed = u,
                                !.long = z],
                   {"buffer", "buffer_position", "printed", "long"})
  <1>1. /\ {"servercount", "loaded", "validsequence", "deltapoint", "abort", "fault", "lp",
            "content", "download_file", "running", "finished", "name", "overlap",
            "buffer", "buffer_position", "console_output", "printed", "long"}
           \subseteq Names \ Place
        /\ Place \subseteq Names
    BY DEF Names, Place
  <1>2. {"msg_readcount", "msg_badread", "instep", "stuck"} = Place
    BY DEF Place
  <1> HIDE DEF Names, Place
  <1> QED
    BY <1>1, <1>2 DEF Alters, IsClient, FileFields

LEMMA ServerdataAlters ==
  ASSUME NEW c, IsClient(c), Len(c.message) \in Nat, Asks(c)
  PROVE  /\ Alters(c, Parse_svc_serverdata(c),
                   {"protoversion", "servercount", "loaded", "reliable"})
         /\ Asks(Parse_svc_serverdata(c)) /\ IsClient(Parse_svc_serverdata(c))
  <1> DEFINE q == ReadVersion(c)
             l == Read(q, "long")
             s == [l EXCEPT !.servercount = Value(q, "long", -1), !.loaded = << >>]
             rest == <<"string", "byte", "string">> \o [i \in 1 .. 10 |-> "float"]
             r == ReadAll(s, rest)
             U == {"protoversion", "servercount", "loaded", "reliable"}
  <1>1. Changes(c, q, {"protoversion"})
    BY ReadVersionChanges
  <1>2. rest \in Seq(KindNames)
    <2>1. <<"string", "byte", "string">> \in Seq(KindNames)
      BY KindsNamed DEF KindNames
    <2>2. [i \in 1 .. 10 |-> "float"] \in Seq(KindNames)
      BY KindsNamed
    <2> QED
      BY <2>1, <2>2
  <1>3. Parse_svc_serverdata(c) = NetQW_AppendReliableBuffer(r, Request("soundlist", s.servercount, 0))
    BY DEF Parse_svc_serverdata
  <1> HIDE DEF rest
  <1>4. Alters(c, q, {"protoversion"}) /\ IsClient(q)
    BY <1>1, ChangesAlters
  <1> HIDE DEF q
  <1>5. Alters(q, l, {}) /\ IsClient(l)
    BY <1>4, ReadChanges, KindsNamed, ChangesAlters
  <1> HIDE DEF l
  <1>6. Alters(l, s, {"servercount", "loaded"}) /\ IsClient(s)
    <2>1. Alters(l, s, {"servercount", "loaded"})
      BY <1>5, FieldsAlter
    <2> HIDE DEF s
    <2> QED
      BY <2>1 DEF Alters
  <1> HIDE DEF s
  <1>7. Alters(s, r, {}) /\ IsClient(r)
    BY <1>2, <1>6, ReadAllChanges, ChangesAlters
  <1> HIDE DEF r
  <1>8. Alters(c, r, {"protoversion", "servercount", "loaded"})
    BY <1>4, <1>5, <1>6, <1>7 DEF Alters
  <1>9. Asks(r)
    BY <1>8, AsksSame DEF Alters, Names, Place
  <1> DEFINE d == NetQW_AppendReliableBuffer(r, Request("soundlist", s.servercount, 0))
  <1>10. Alters(r, d, {"reliable"}) /\ Asks(d) /\ IsClient(d)
    BY <1>7, <1>9, AsksMore, OtherRequests
  <1> HIDE DEF d
  <1>11. Alters(c, d, U)
    BY <1>8, <1>10 DEF Alters
  <1> QED
    BY <1>3, <1>10, <1>11 DEF d

LEMMA ListAlters ==
  ASSUME NEW c, IsClient(c), Len(c.message) \in Nat, Asks(c), NEW tp, Says(tp, c.message),
         NEW list, NEW next
  PROVE  /\ Alters(c, ParseList(c, list, next), {"loaded", "reliable"})
         /\ Asks(ParseList(c, list, next)) /\ IsClient(ParseList(c, list, next))
  <1> DEFINE b == Read(c, "byte")
             names == ReadNames(b)
             n == Value(names, "byte", -1)
             q == Read(names, "byte")
             request == Request(IF n # 0 THEN list ELSE next, q.servercount, n)
  <1>1. ParseList(c, list, next) = NetQW_AppendReliableBuffer(q, request)
    BY DEF ParseList
  <1>2. Alters(c, b, {}) /\ IsClient(b)
    BY ReadChanges, KindsNamed, ChangesAlters
  <1> HIDE DEF b
  <1>3. Len(b.message) \in Nat
    BY <1>2 DEF Alters, Names, Place
  <1>4. Alters(b, names, {"loaded"}) /\ IsClient(names)
    BY <1>2, <1>3, ReadNamesChanges, ChangesAlters
  <1> HIDE DEF names
  <1>5. Alters(names, q, {}) /\ IsClient(q)
    BY <1>4, ReadChanges, KindsNamed, ChangesAlters
  <1> HIDE DEF q
  <1>6. names.message = c.message
    BY <1>2, <1>4 DEF Alters, Names, Place
  <1>7. n \in Int
    <2> DEFINE p == names.msg_readcount + 1
    <2>1. DOMAIN c.message = 1 .. Len(c.message)
      BY ListedLen DEF Says
    <2>2. CASE Here(names, "byte")
      <3>1. p \in DOMAIN c.message /\ c.message[p][1] = "byte"
        BY <1>4, <1>6, <2>1, <2>2 DEF Here, IsClient
      <3>2. c.message[p][2] \in Int
        BY <3>1 DEF Says
      <3> QED
        BY <1>6, <3>2 DEF Value
    <2>3. CASE ~Here(names, "byte")
      BY <2>3 DEF Value
    <2> QED
      BY <2>2, <2>3
  <1> HIDE DEF n
  <1>8. IsRequest(request)
    BY <1>7, OtherRequests
  <1>9. Alters(c, q, {"loaded"})
    BY <1>2, <1>4, <1>5 DEF Alters
  <1>10. Asks(q)
    BY <1>9, AsksSame DEF Alters, Names, Place
  <1> DEFINE d == NetQW_AppendReliableBuffer(q, request)
  <1> HIDE DEF request
  <1>11. Alters(q, d, {"reliable"}) /\ Asks(d) /\ IsClient(d)
    BY <1>5, <1>8, <1>10, AsksMore
  <1> HIDE DEF d
  <1>12. Alters(c, d, {"loaded", "reliable"})
    BY <1>9, <1>11 DEF Alters
  <1> QED
    BY <1>1, <1>11, <1>12 DEF d

LEMMA ListsSteps ==
  ASSUME BaseInv, Parse_lists
  PROVE  Steps({"protoversion", "servercount", "loaded", "reliable"})
  <1> DEFINE U == {"protoversion", "servercount", "loaded", "reliable"}
  <1>1. PICK name, c :
             /\ name \in {"serverdata", "soundlist", "modellist"}
             /\ Case(name) /\ Then(c)
             /\ \/ c = Parse_svc_serverdata(Taken)
                \/ \E list, next : c = ParseList(Taken, list, next)
    BY DEF Parse_lists, ParseSoundList, ParseModelList
  <1>2. client.fault = "none"
    BY <1>1 DEF Case, Loop
  <1>3. /\ IsClient(Taken) /\ Alters(client, Taken, {"command"})
        /\ Len(client.message) \in Nat /\ Taken.message = client.message
    BY <1>1, CaseIs
  <1>4. Asks(Taken) /\ Taken.fault = "none"
    BY <1>2, <1>3, TakenAsks DEF Names
  <1>5. Says(topic, Taken.message)
    BY <1>3 DEF BaseInv
  <1>6. Alters(Taken, c, U) /\ Asks(c) /\ IsClient(c)
    <2>1. CASE c = Parse_svc_serverdata(Taken)
      BY <1>3, <1>4, <2>1, ServerdataAlters
    <2>2. ASSUME NEW list, NEW next, c = ParseList(Taken, list, next)
          PROVE  Alters(Taken, c, U) /\ Asks(c) /\ IsClient(c)
      <3>1. Alters(Taken, c, {"loaded", "reliable"}) /\ Asks(c) /\ IsClient(c)
        BY <1>3, <1>4, <1>5, <2>2, ListAlters
      <3> QED
        BY <3>1 DEF Alters
    <2> QED
      BY <1>1, <2>1, <2>2
  <1>7. c.fault = "none"
    BY <1>4, <1>6 DEF Alters, Names, Place
  <1>8. Alters(client, c, U \cup {"command", "fault"})
    BY <1>3, <1>6 DEF Alters
  <1> HIDE DEF U
  <1>9. Steps(U)
    BY <1>1, <1>2, <1>6, <1>7, <1>8, ThenSteps
  <1> QED
    BY <1>9 DEF U
LEMMA PacketEntitiesAlter ==
  ASSUME NEW c, IsClient(c), Len(c.message) \in Nat, NEW e \in ParsePacketEntities(c)
  PROVE  /\ Alters(c, e, {"abort", "validsequence", "deltapoint"}) /\ IsClient(e)
         /\ \/ e.deltapoint = c.deltapoint
            \/ /\ e.deltapoint = c.incoming_sequence
               /\ Here(c, "word") /\ c.message[c.msg_readcount + 1][2] = {}
  <1> DEFINE word == Value(c, "word", AllBits)
             q == Read(c, "word")
             valid == [q EXCEPT !.validsequence = q.incoming_sequence]
             v == [valid EXCEPT !.abort = TRUE]
             w == NetQW_SetDeltaPoint(valid, valid.validsequence)
             G(f) == [f EXCEPT !.validsequence = 0]
             U == {"abort", "validsequence", "deltapoint"}
  <1>1. \/ e = v
        \/ word = {} /\ e = w
        \/ \E f \in FlushEntityPacket(valid) : e = G(f)
    BY DEF ParsePacketEntities, Flush
  <1>2. Alters(c, q, {}) /\ IsClient(q)
    BY ReadChanges, KindsNamed, ChangesAlters
  <1> HIDE DEF q
  <1>3. Alters(q, valid, {"validsequence"}) /\ IsClient(valid)
    <2>1. Alters(q, valid, {"validsequence"})
      BY <1>2, FieldsAlter
    <2> HIDE DEF valid
    <2> QED
      BY <2>1 DEF Alters
  <1>4. valid.validsequence = c.incoming_sequence
    <2>1. valid.validsequence = q.incoming_sequence
      BY <1>2 DEF IsClient, Names
    <2>2. q.incoming_sequence = c.incoming_sequence
      BY <1>2 DEF Alters, Names, Place
    <2> QED
      BY <2>1, <2>2
  <1> HIDE DEF valid
  <1>5. valid.message = c.message /\ valid.deltapoint = c.deltapoint
    BY <1>2, <1>3 DEF Alters, Names, Place
  <1>6. Alters(valid, v, {"abort"}) /\ v.deltapoint = c.deltapoint
    <2>1. Alters(valid, v, {"abort"})
      BY <1>3, FieldsAlter
    <2> HIDE DEF v
    <2> QED
      BY <1>5, <2>1 DEF Alters, Names, Place
  <1>7. Alters(valid, w, {"deltapoint"}) /\ w.deltapoint = c.incoming_sequence
    <2>1. Alters(valid, w, {"deltapoint"})
      BY <1>3, FieldsAlter DEF NetQW_SetDeltaPoint
    <2>2. w.deltapoint = valid.validsequence
      BY <1>3 DEF NetQW_SetDeltaPoint, IsClient, Names
    <2> QED
      BY <1>4, <2>1, <2>2
  <1>8. ASSUME NEW f \in FlushEntityPacket(valid)
        PROVE  Alters(c, G(f), U) /\ IsClient(G(f)) /\ G(f).deltapoint = c.deltapoint
    <2>1. Alters(valid, f, {}) /\ IsClient(f)
      BY <1>3, <1>5, FlushEntityPacketChanges, ChangesAlters
    <2>2. Alters(f, G(f), {"validsequence"})
      BY <2>1, FieldsAlter
    <2> HIDE DEF G
    <2>3. G(f).deltapoint = c.deltapoint
      BY <1>5, <2>1, <2>2 DEF Alters, Names, Place
    <2> QED
      BY <1>2, <1>3, <2>1, <2>2, <2>3 DEF Alters
  <1> HIDE DEF v, w, G
  <1>11. word = {} => Here(c, "word") /\ c.message[c.msg_readcount + 1][2] = {}
    BY DEF Value, AllBits
  <1>13. Alters(c, v, U) /\ Alters(c, w, U)
    BY <1>2, <1>3, <1>6, <1>7 DEF Alters
  <1> HIDE DEF word, U
  <1>14. Alters(c, e, U) /\ IsClient(e)
    BY <1>1, <1>8, <1>13 DEF Alters
  <1>15. \/ e.deltapoint = c.deltapoint
         \/ /\ e.deltapoint = c.incoming_sequence
            /\ Here(c, "word") /\ c.message[c.msg_readcount + 1][2] = {}
    BY <1>1, <1>6, <1>7, <1>8, <1>11
  <1> QED
    BY <1>14, <1>15 DEF U

\* The commands of Parse_world.
WorldNames == {"playerinfo", "sound", "packetentities", "temp_entity"}

LEMMA WorldSteps ==
  ASSUME BaseInv, Parse_world
  PROVE  /\ Steps({"abort", "validsequence", "deltapoint"})
         /\ \/ client'.deltapoint = client.deltapoint
            \/ /\ client'.deltapoint = client.incoming_sequence
               /\ client.parsing /\ 2 \in DOMAIN client.message
               /\ client.message[1] = Svc("packetentities")
               /\ client.message[2] = Field("word", {})
  <1> DEFINE U == {"abort", "validsequence", "deltapoint"}
             Moved(d) == \/ d = client.deltapoint
                         \/ /\ d = client.incoming_sequence
                            /\ client.parsing /\ 2 \in DOMAIN client.message
                            /\ client.message[1] = Svc("packetentities")
                            /\ client.message[2] = Field("word", {})
  <1>1. PICK name, c :
             /\ name \in WorldNames
             /\ Case(name) /\ Then(c)
             /\ \/ c = ParsePlayerinfo(Taken, client.protoversion)
                \/ c = ParseSoundPacket(Taken)
                \/ c \in ParsePacketEntities(Taken) /\ name = "packetentities"
                \/ c = ParseTempEntity(Taken)
                \/ c = [ParseTempEntity(Taken) EXCEPT !.abort = TRUE]
    BY DEF Parse_world, WorldNames
  <1>2. client.fault = "none" /\ client.parsing
    BY <1>1 DEF Case, Loop
  <1>3. /\ IsClient(Taken) /\ Alters(client, Taken, {"command"})
        /\ Len(client.message) \in Nat /\ Taken.message = client.message
        /\ client.msg_readcount = 0 /\ client.message[1] = Svc(name)
        /\ Taken.msg_readcount = 1 /\ Listed(client.message)
    <2>1. name \notin {"none", "nop", "stufftext"}
      BY <1>1 DEF WorldNames
    <2>2. Case(name)
      BY <1>1
    <2>3. /\ IsClient(Taken) /\ Alters(client, Taken, {"command"})
          /\ Len(client.message) \in Nat /\ Taken.message = client.message
          /\ Taken.msg_readcount = client.msg_readcount + 1 /\ Listed(client.message)
      BY <2>1, <2>2, CaseIs
    <2>4. client.msg_readcount = 0 /\ client.message[1] = Svc(name)
      BY <2>1, <2>2, CaseIs
    <2> QED
      BY <2>3, <2>4
  <1>4. Taken.fault = "none" /\ Taken.deltapoint = client.deltapoint
        /\ Taken.incoming_sequence = client.incoming_sequence
    BY <1>2, <1>3 DEF Alters, Names, Place
  <1>5. Alters(Taken, c, U) /\ IsClient(c) /\ Moved(c.deltapoint)
    <2>1. ASSUME Changes(Taken, c, {})
          PROVE  Alters(Taken, c, U) /\ IsClient(c) /\ c.deltapoint = client.deltapoint
      BY <1>4, <2>1 DEF Changes, Alters, Names, Place
    <2>2. CASE \/ c = ParsePlayerinfo(Taken, client.protoversion)
               \/ c = ParseSoundPacket(Taken) \/ c = ParseTempEntity(Taken)
      BY <1>3, <2>1, <2>2, PlayerinfoChanges, SoundPacketChanges, TempEntityChanges
    <2>3. CASE c = [ParseTempEntity(Taken) EXCEPT !.abort = TRUE]
      <3> DEFINE t == ParseTempEntity(Taken)
      <3>1. Changes(Taken, t, {}) /\ IsClient(t)
        BY <1>3, TempEntityChanges DEF Changes
      <3>2. c = [t EXCEPT !.abort = TRUE]
        BY <2>3
      <3> HIDE DEF t
      <3>3. Alters(t, c, {"abort"})
        BY <3>1, <3>2, FieldsAlter
      <3> QED
        BY <1>4, <3>1, <3>3 DEF Changes, Alters, Names, Place
    <2>4. CASE c \in ParsePacketEntities(Taken) /\ name = "packetentities"
      <3>1. /\ Alters(Taken, c, U) /\ IsClient(c)
            /\ \/ c.deltapoint = Taken.deltapoint
               \/ /\ c.deltapoint = Taken.incoming_sequence
                  /\ Here(Taken, "word")
                  /\ Taken.message[Taken.msg_readcount + 1][2] = {}
        BY <1>3, <2>4, PacketEntitiesAlter
      <3>2. ASSUME Here(Taken, "word"), Taken.message[Taken.msg_readcount + 1][2] = {}
            PROVE  2 \in DOMAIN client.message /\ client.message[2] = Field("word", {})
        <4>1. DOMAIN client.message = 1 .. Len(client.message)
          BY <1>3, ListedLen
        <4>2. Taken.msg_readcount + 1 = 2
          BY <1>3
        <4>3. 2 \in DOMAIN client.message /\ client.message[2][1] = "word"
              /\ client.message[2][2] = {}
          BY <1>3, <3>2, <4>1, <4>2 DEF Here
        <4>4. Says(topic, client.message)
          BY DEF BaseInv
        <4> QED
          BY <4>3, <4>4 DEF Says
      <3> QED
        BY <1>2, <1>3, <1>4, <2>4, <3>1, <3>2
    <2> QED
      BY <1>1, <2>2, <2>3, <2>4
  <1>6. c.fault = "none" /\ c.reliable = client.reliable
    BY <1>3, <1>4, <1>5 DEF Alters, Names, Place
  <1>7. Asks(c)
    BY <1>6, AsksSame DEF BaseInv
  <1>8. Alters(client, c, U \cup {"command", "fault"})
    BY <1>3, <1>5 DEF Alters
  <1>9. client'.deltapoint = c.deltapoint
    <2>1. Alters(c, client', {"fault"})
      BY <1>1, <1>5, ThenIs
    <2> QED
      BY <2>1 DEF Alters, Names, Place
  <1> HIDE DEF U
  <1>10. Steps(U)
    BY <1>1, <1>2, <1>5, <1>6, <1>7, <1>8, ThenSteps
  <1> QED
    BY <1>5, <1>9, <1>10 DEF U

-----------------------------------------------------------------------------
(* Downloads, a parser's part at a time. *)

LEMMA FaultyAlters ==
  ASSUME NEW c, IsClient(c), NEW f
  PROVE  /\ Alters(c, Faulty(c, f), {"fault"}) /\ IsClient(Faulty(c, f))
         /\ Faulty(c, f).fault = IF c.fault = "none" THEN f ELSE c.fault
  <1> DEFINE d == Faulty(c, f)
  <1>1. d.fault = IF c.fault = "none" THEN f ELSE c.fault
    BY DEF IsClient, Names, Faulty
  <1>2. Alters(c, d, {"fault"})
    BY FieldsAlter DEF Faulty
  <1> HIDE DEF d
  <1>3. IsClient(d)
    BY <1>2 DEF Alters
  <1> QED
    BY <1>1, <1>2, <1>3 DEF d

LEMMA CloseAlters ==
  ASSUME NEW c, IsClient(c)
  PROVE  /\ Alters(c, Close(c), {"download_file", "running", "fault"}) /\ IsClient(Close(c))
         /\ Close(c).fault = IF c.download_file = "closed" /\ c.fault = "none"
                             THEN "closed twice" ELSE c.fault
         /\ c.download_file = "closed" => Close(c).download_file = "closed"
         /\ c.download_file = "closed" => Close(c).running = c.running
         /\ c.download_file # "closed" => Close(c).download_file = "none"
         /\ c.download_file # "closed" => ~Close(c).running
  <1> DEFINE d == Faulty(c, "closed twice")
             e == [c EXCEPT !.download_file = "none", !.running = FALSE]
             U == {"download_file", "running", "fault"}
  <1>1. Close(c) = IF c.download_file = "closed" THEN d ELSE e
    BY DEF Close
  <1>2. /\ Alters(c, d, {"fault"}) /\ IsClient(d)
        /\ d.fault = IF c.fault = "none" THEN "closed twice" ELSE c.fault
    BY FaultyAlters
  <1> HIDE DEF d
  <1>3. Alters(c, d, U) /\ d.download_file = c.download_file /\ d.running = c.running
    BY <1>2 DEF Alters, Names, Place
  <1>4. e.download_file = "none" /\ ~e.running /\ e.fault = c.fault
    BY DEF IsClient, Names
  <1>5. Alters(c, e, {"download_file", "running"})
    BY FieldsAlter
  <1> HIDE DEF e
  <1>6. Alters(c, e, U) /\ IsClient(e)
    BY <1>5 DEF Alters
  <1> QED
    BY <1>1, <1>2, <1>3, <1>4, <1>6

\* What the stuffed text "download" does.
LEMMA StartDownloadIs ==
  ASSUME NEW c, IsClient(c), Asks(c), NEW n, NEW d \in StartDownload(c, n)
  PROVE  /\ Alters(c, d, FileFields \cup {"fault", "reliable"}) /\ IsClient(d) /\ Asks(d)
         /\ d.fault = IF c.download_file = "closed" /\ c.fault = "none"
                      THEN "closed twice" ELSE c.fault
         /\ d.reliable = Append(c.reliable, [name |-> "download", file |-> n])
         /\ d.download_file \in {"open", "none"} /\ d.name = n /\ d.content = << >>
         /\ d.running = TRUE /\ d.overlap = (c.overlap \/ c.running)
  <1> DEFINE k == IF c.download_file # "none" THEN Close(c) ELSE c
             a == NetQW_AppendReliableBuffer(k, [name |-> "download", file |-> n])
             U == FileFields \cup {"fault", "reliable"}
  <1>1. PICK file \in {"open", "none"} :
          d = [a EXCEPT !.download_file = file, !.name = n, !.content = << >>,
                        !.overlap = @ \/ c.running, !.running = TRUE]
    BY DEF StartDownload
  <1>2. /\ Alters(c, k, {"download_file", "running", "fault"}) /\ IsClient(k)
        /\ k.fault = IF c.download_file = "closed" /\ c.fault = "none"
                     THEN "closed twice" ELSE c.fault
    <2>1. CASE c.download_file = "none"
      BY <2>1 DEF Alters
    <2>2. CASE c.download_file # "none"
      BY <2>2, CloseAlters
    <2> QED
      BY <2>1, <2>2
  <1> HIDE DEF k
  <1>3. k.reliable = c.reliable /\ k.overlap = c.overlap
    BY <1>2 DEF Alters, Names, Place
  <1>4. Asks(k)
    BY <1>3, AsksSame
  <1>5. Alters(k, a, {"reliable"}) /\ Asks(a) /\ IsClient(a)
    BY <1>2, <1>4, AsksMore, OtherRequests
  <1>6. a.reliable = Append(c.reliable, [name |-> "download", file |-> n])
    BY <1>2, <1>3 DEF IsClient, Names, NetQW_AppendReliableBuffer
  <1> HIDE DEF a
  <1>7. a.fault = k.fault /\ a.overlap = c.overlap
    BY <1>3, <1>5 DEF Alters, Names, Place
  <1>8. /\ d.download_file = file /\ d.name = n /\ d.content = << >> /\ d.running = TRUE
        /\ d.overlap = (c.overlap \/ c.running) /\ d.fault = a.fault /\ d.reliable = a.reliable
    BY <1>1, <1>5, <1>7 DEF IsClient, Names
  <1>9. Alters(a, d, FileFields)
    BY <1>1, <1>5, FieldsAlter
  <1>10. Alters(c, d, U)
    BY <1>2, <1>5, <1>9 DEF Alters, FileFields
  <1>11. Asks(d)
    BY <1>5, <1>8, AsksSame
  <1>12. IsClient(d)
    BY <1>10 DEF Alters
  <1> QED
    BY <1>2, <1>6, <1>7, <1>8, <1>10, <1>11, <1>12

\* The block is kept, and the reader moves on or one byte back.
LEMMA TakeBlockIs ==
  ASSUME NEW c, IsClient(c), c.msg_readcount >= 1, NEW size \in {-1, 1}
  PROVE  /\ Alters(c, TakeBlock(c, size), {"content", "fault"}) /\ IsClient(TakeBlock(c, size))
         /\ TakeBlock(c, size).fault
            = IF c.download_file = "closed" /\ c.fault = "none"
              THEN "wrote to a closed file" ELSE c.fault
         /\ c.download_file = "open"
            => TakeBlock(c, size).content
               = c.content \o SubSeq(c.message, c.msg_readcount + 1, c.msg_readcount + size)
         /\ c.download_file # "open" => TakeBlock(c, size).content = c.content
         /\ TakeBlock(c, size).msg_readcount = c.msg_readcount + size
         /\ TakeBlock(c, size).msg_badread = c.msg_badread
         /\ TakeBlock(c, size).instep
            = (c.instep /\ (size > 0 /\ Fits(c, 1) => Here(c, "data")))
         /\ TakeBlock(c, size).stuck = c.stuck
  <1> DEFINE ok == (size > 0 /\ Fits(c, 1) => Here(c, "data"))
             s == [c EXCEPT !.msg_readcount = @ + size, !.instep = @ /\ ok]
             f == Faulty(s, "wrote to a closed file")
             new == c.content
                    \o SubSeq(c.message, c.msg_readcount + 1, c.msg_readcount + size)
             w == [s EXCEPT !.content = new]
             U == {"content", "fault"}
  <1>0. ok \in BOOLEAN
    OBVIOUS
  <1> HIDE DEF ok
  <1>1. /\ s.msg_readcount = c.msg_readcount + size /\ s.msg_badread = c.msg_badread
        /\ s.instep = (c.instep /\ ok) /\ s.stuck = c.stuck /\ s.content = c.content
        /\ s.fault = c.fault
    BY DEF IsClient, Names
  <1>2. Alters(c, s, {}) /\ IsClient(s)
    <2>1. s.msg_readcount \in Nat /\ s.instep \in BOOLEAN /\ DOMAIN s = Names
      BY <1>1 DEF IsClient
    <2>2. \A x \in Names \ Place : s[x] = c[x]
      BY DEF Place, IsClient
    <2>3. IsClient(s)
      BY <1>1, <2>1 DEF IsClient
    <2> QED
      BY <2>2, <2>3 DEF Alters
  <1>3. TakeBlock(c, size) = CASE c.download_file = "closed" -> f
                               [] c.download_file = "open" -> w
                               [] OTHER -> s
    <2>1. c.content = s.content
      BY <1>1
    <2> QED
      BY <2>1 DEF TakeBlock, ok
  <1> HIDE DEF s, new
  <1>4. /\ Alters(s, f, {"fault"}) /\ IsClient(f)
        /\ f.fault = IF c.fault = "none" THEN "wrote to a closed file" ELSE c.fault
    BY <1>1, <1>2, FaultyAlters
  <1>5. /\ f.msg_readcount = s.msg_readcount /\ f.msg_badread = s.msg_badread
        /\ f.instep = s.instep /\ f.stuck = s.stuck /\ f.content = s.content
    BY <1>2 DEF Faulty, IsClient, Names
  <1>6. /\ w.msg_readcount = s.msg_readcount /\ w.msg_badread = s.msg_badread
        /\ w.instep = s.instep /\ w.stuck = s.stuck /\ w.content = new /\ w.fault = s.fault
    BY <1>2 DEF IsClient, Names
  <1>7. Alters(s, w, {"content"})
    BY <1>2, FieldsAlter
  <1> HIDE DEF f, w
  <1>8. Alters(c, f, U) /\ Alters(c, w, U) /\ Alters(c, s, U)
    BY <1>2, <1>4, <1>7 DEF Alters
  <1>9. IsClient(w)
    BY <1>7 DEF Alters
  <1>10. CASE c.download_file = "closed"
    <2>1. TakeBlock(c, size) = f
      BY <1>3, <1>10
    <2> QED
      BY <1>1, <1>4, <1>5, <1>8, <1>10, <2>1 DEF ok
  <1>11. CASE c.download_file = "open"
    <2>1. TakeBlock(c, size) = w
      BY <1>3, <1>11
    <2> QED
      BY <1>1, <1>6, <1>8, <1>9, <1>11, <2>1 DEF ok, new
  <1>12. CASE c.download_file \notin {"open", "closed"}
    <2>1. TakeBlock(c, size) = s
      BY <1>3, <1>12
    <2> QED
      BY <1>1, <1>2, <1>8, <1>12, <2>1 DEF ok
  <1> QED
    BY <1>10, <1>11, <1>12
LEMMA FinishIs ==
  ASSUME NEW c, IsClient(c), Asks(c)
  PROVE  LET d == FinishDownload(c)
         IN  /\ Alters(c, d, {"download_file", "running", "finished", "fault", "reliable"})
             /\ IsClient(d) /\ Asks(d)
             /\ d.reliable = Append(c.reliable, [name |-> "say"])
             /\ c.download_file = "open"
                => /\ d.download_file = "closed" /\ ~d.running /\ d.fault = c.fault
                   /\ d.finished = c.finished \cup {[name |-> c.name, content |-> c.content]}
             /\ c.download_file \in {"none", "closed"}
                => /\ d.download_file = c.download_file /\ d.finished = c.finished
                   /\ d.fault = IF c.fault # "none" THEN c.fault
                                ELSE IF c.download_file = "none" THEN "closed no file"
                                ELSE "closed twice"
             /\ c.download_file \in {"none", "open", "closed"}
                => c.finished \subseteq d.finished
  <1> DEFINE a == NetQW_AppendReliableBuffer(c, [name |-> "say"])
             new == c.finished \cup {[name |-> c.name, content |-> c.content]}
             f(fault) == Faulty(a, fault)
             w == [a EXCEPT !.download_file = "closed", !.running = FALSE, !.finished = new]
             d == FinishDownload(c)
             U == {"download_file", "running", "finished", "fault", "reliable"}
  <1>1. /\ Alters(c, a, {"reliable"}) /\ Asks(a) /\ IsClient(a)
        /\ a.reliable = Append(c.reliable, [name |-> "say"])
    <2>1. a.reliable = Append(c.reliable, [name |-> "say"])
      BY DEF NetQW_AppendReliableBuffer, IsClient, Names
    <2> QED
      BY <2>1, AsksMore, OtherRequests
  <1>2. d = CASE c.download_file = "none" -> f("closed no file")
              [] c.download_file = "closed" -> f("closed twice")
              [] OTHER -> w
    <2>1. a.name = c.name /\ a.content = c.content /\ a.finished = c.finished
      BY <1>1 DEF Alters, Names, Place
    <2> HIDE DEF a
    <2>2. w = [a EXCEPT !.download_file = "closed", !.running = FALSE,
                 !.finished = @ \cup {[name |-> c.name, content |-> c.content]}]
      BY <2>1
    <2> QED
      BY <2>2 DEF FinishDownload, a
  <1> HIDE DEF a, new, d
  <1>3. a.fault = c.fault /\ a.finished = c.finished /\ a.download_file = c.download_file
    BY <1>1 DEF Alters, Names, Place
  <1>4. ASSUME NEW x
        PROVE  /\ Alters(c, f(x), U) /\ IsClient(f(x)) /\ f(x).reliable = a.reliable
               /\ f(x).download_file = c.download_file /\ f(x).finished = c.finished
               /\ f(x).fault = IF c.fault = "none" THEN x ELSE c.fault
    <2>1. /\ Alters(a, f(x), {"fault"}) /\ IsClient(f(x))
          /\ f(x).fault = IF c.fault = "none" THEN x ELSE c.fault
      BY <1>1, <1>3, FaultyAlters
    <2> HIDE DEF f
    <2> QED
      BY <1>1, <1>3, <2>1 DEF Alters, Names, Place
  <1>5. /\ Alters(c, w, U) /\ IsClient(w) /\ w.reliable = a.reliable
        /\ w.download_file = "closed" /\ ~w.running /\ w.finished = new /\ w.fault = c.fault
    <2>1. Alters(a, w, {"download_file", "running", "finished"})
      BY <1>1, FieldsAlter
    <2>2. /\ w.download_file = "closed" /\ ~w.running /\ w.finished = new
          /\ w.reliable = a.reliable /\ w.fault = a.fault
      BY <1>1 DEF IsClient, Names
    <2> HIDE DEF w
    <2> QED
      BY <1>1, <1>3, <2>1, <2>2 DEF Alters
  <1> HIDE DEF f, w, U
  <1>6. c.finished \subseteq new
    BY DEF new
  <1>7. CASE c.download_file = "none"
    <2>1. d = f("closed no file")
      BY <1>2, <1>7
    <2>2. Asks(d)
      BY <1>1, <1>4, <2>1, AsksSame
    <2> QED
      BY <1>1, <1>4, <1>7, <2>1, <2>2 DEF d, U
  <1>8. CASE c.download_file = "closed"
    <2>1. d = f("closed twice")
      BY <1>2, <1>8
    <2>2. Asks(d)
      BY <1>1, <1>4, <2>1, AsksSame
    <2> QED
      BY <1>1, <1>4, <1>8, <2>1, <2>2 DEF d, U
  <1>9. CASE c.download_file \notin {"none", "closed"}
    <2>1. d = w
      BY <1>2, <1>9
    <2>2. Asks(d)
      BY <1>1, <1>5, <2>1, AsksSame
    <2> QED
      BY <1>1, <1>5, <1>6, <1>9, <2>1, <2>2 DEF d, U, new
  <1> QED
    BY <1>7, <1>8, <1>9

LEMMA AskForMoreIs ==
  ASSUME NEW c, IsClient(c), Asks(c), NEW percent
  PROVE  LET d == AskForMore(c, percent)
         IN  /\ Alters(c, d, {"lp", "reliable"}) /\ IsClient(d) /\ Asks(d)
             /\ \/ d.reliable = Append(c.reliable, [name |-> "nextdl"])
                \/ d.reliable = Append(Append(c.reliable, [name |-> "say"]),
                                       [name |-> "nextdl"])
  <1> DEFINE l == [c EXCEPT !.lp = percent]
             s == NetQW_AppendReliableBuffer(l, [name |-> "say"])
             a == IF percent % 10 = 0 /\ c.lp # percent THEN s ELSE c
             d == NetQW_AppendReliableBuffer(a, [name |-> "nextdl"])
  <1>1. AskForMore(c, percent) = d
    BY DEF AskForMore
  <1>2. Alters(c, l, {"lp"})
    BY FieldsAlter
  <1> HIDE DEF l
  <1>3. l.reliable = c.reliable /\ IsClient(l)
    BY <1>2 DEF Alters, Names, Place
  <1>4. Asks(l)
    BY <1>3, AsksSame
  <1>5. Alters(l, s, {"reliable"}) /\ Asks(s) /\ IsClient(s)
    BY <1>3, <1>4, AsksMore, OtherRequests
  <1>6. s.reliable = Append(c.reliable, [name |-> "say"])
    BY <1>3 DEF NetQW_AppendReliableBuffer, IsClient, Names
  <1> HIDE DEF s
  <1>7. /\ Alters(c, a, {"lp", "reliable"}) /\ Asks(a) /\ IsClient(a)
        /\ a.reliable \in {c.reliable, Append(c.reliable, [name |-> "say"])}
    <2>1. CASE a = s
      BY <1>2, <1>5, <1>6, <2>1 DEF Alters
    <2>2. CASE a = c
      BY <2>2 DEF Alters
    <2> QED
      BY <2>1, <2>2
  <1> HIDE DEF a
  <1>8. Alters(a, d, {"reliable"}) /\ Asks(d) /\ IsClient(d)
    BY <1>7, AsksMore, OtherRequests
  <1>9. d.reliable = Append(a.reliable, [name |-> "nextdl"])
    BY <1>7 DEF NetQW_AppendReliableBuffer, IsClient, Names
  <1> HIDE DEF d
  <1>10. Alters(c, d, {"lp", "reliable"})
    BY <1>7, <1>8 DEF Alters
  <1> QED
    BY <1>1, <1>7, <1>8, <1>9, <1>10 DEF d
\* What is read of a block, and what has been done when the block itself was taken.
SizeOf(c) == Value(c, "short", -1)
PercentOf(c) == Value(Read(c, "short"), "byte", -1)
Headed(c) == Read(Read(c, "short"), "byte")
Ended(c) == IF SizeOf(c) = -1 /\ c.download_file # "none" THEN Close(Headed(c)) ELSE Headed(c)
BlockTaken(c) == TakeBlock(Ended(c), SizeOf(c))

LEMMA ParseDownloadIs ==
  ASSUME NEW c, IsClient(c)
  PROVE  ParseDownload(c) = IF PercentOf(c) = 100 THEN FinishDownload(BlockTaken(c))
                            ELSE AskForMore(BlockTaken(c), PercentOf(c))
  <1>1. Changes(c, Read(c, "short"), {})
    BY ReadChanges, KindsNamed
  <1>2. Read(c, "short").download_file = c.download_file
    BY <1>1 DEF Changes, Names, Place
  <1> QED
    BY <1>2 DEF ParseDownload, BlockTaken, Ended, Headed, SizeOf, PercentOf

LEMMA BlockTakenIs ==
  ASSUME NEW c, IsClient(c), Asks(c), c.fault = "none", c.msg_readcount >= 1,
         SizeOf(c) \in {-1, 1}
  PROVE  LET t == BlockTaken(c)
             h == Headed(c)
         IN  /\ Alters(c, t, {"download_file", "running", "content", "fault"})
             /\ IsClient(t) /\ Asks(t) /\ t.fault \in FileFaults
             /\ t.msg_readcount = h.msg_readcount + SizeOf(c)
             /\ t.msg_badread = h.msg_badread /\ t.stuck = h.stuck
             /\ t.instep = (h.instep /\ (SizeOf(c) > 0 /\ Fits(h, 1) => Here(h, "data")))
             /\ c.download_file = "closed" => t.fault # "none" /\ t.download_file = "closed"
             /\ c.download_file # "closed" => t.fault = "none"
             /\ SizeOf(c) = 1 => /\ t.download_file = c.download_file
                                 /\ t.running = c.running
             /\ SizeOf(c) = 1 /\ c.download_file = "open"
                => t.content = c.content \o SubSeq(c.message, h.msg_readcount + 1,
                                                  h.msg_readcount + SizeOf(c))
             /\ c.download_file = "none"
                => /\ t.content = c.content /\ t.download_file = "none"
                   /\ t.running = c.running
             /\ SizeOf(c) = -1 /\ c.download_file # "closed"
                => t.download_file = "none" /\ t.content = c.content
             /\ SizeOf(c) = -1 /\ c.download_file \notin {"none", "closed"} => ~t.running
  <1> DEFINE h == Headed(c)
             e == Ended(c)
             t == BlockTaken(c)
             size == SizeOf(c)
  <1>1. Changes(c, h, {})
    <2>1. Changes(c, Read(c, "short"), {}) /\ IsClient(Read(c, "short"))
      BY ReadChanges, KindsNamed DEF Changes
    <2>2. Changes(Read(c, "short"), h, {})
      BY <2>1, ReadChanges, KindsNamed DEF Headed
    <2> QED
      BY <2>1, <2>2, ReadsTwice
  <1>2. e = IF size = -1 /\ c.download_file # "none" THEN Close(h) ELSE h
    BY DEF Ended
  <1>3. t = TakeBlock(e, size)
    BY DEF BlockTaken
  <1> HIDE DEF h, e, t, size
  <1>4. IsClient(h) /\ h.msg_readcount >= 1
    BY <1>1 DEF Changes, IsClient
  <1>5. /\ h.download_file = c.download_file /\ h.fault = "none" /\ h.content = c.content
        /\ h.running = c.running /\ h.message = c.message
    BY <1>1 DEF Changes, Names, Place
  <1>6. /\ Alters(h, e, {"download_file", "running", "fault"}) /\ IsClient(e)
        /\ e.msg_readcount = h.msg_readcount /\ e.msg_badread = h.msg_badread
        /\ e.instep = h.instep /\ e.stuck = h.stuck
    <2>1. CASE e = h
      BY <1>4, <2>1 DEF Alters
    <2>2. CASE e = Close(h)
      <3>1. Alters(h, e, {"download_file", "running", "fault"}) /\ IsClient(e)
        BY <1>4, <2>2, CloseAlters
      <3>2. /\ e.msg_readcount = h.msg_readcount /\ e.msg_badread = h.msg_badread
            /\ e.instep = h.instep /\ e.stuck = h.stuck
        BY <1>4, <2>2 DEF Close, Faulty, IsClient, Names
      <3> QED
        BY <3>1, <3>2
    <2> QED
      BY <1>2, <2>1, <2>2
  <1>7. e.content = c.content /\ e.message = c.message
    BY <1>5, <1>6 DEF Alters, Names, Place
  <1>8. /\ c.download_file = "closed"
           => e.download_file = "closed" /\ e.fault \in {"none", "closed twice"}
        /\ c.download_file # "closed" => e.fault = "none"
        /\ size = 1 => e.download_file = c.download_file /\ e.running = c.running
        /\ c.download_file = "none" => e.download_file = "none" /\ e.running = c.running
        /\ size = -1 /\ c.download_file # "closed" => e.download_file = "none"
        /\ size = -1 /\ c.download_file \notin {"none", "closed"} => ~e.running
    <2>1. /\ Close(h).fault = IF h.download_file = "closed" /\ h.fault = "none"
                              THEN "closed twice" ELSE h.fault
          /\ h.download_file = "closed" => Close(h).download_file = "closed"
          /\ h.download_file # "closed" => Close(h).download_file = "none"
          /\ h.download_file # "closed" => ~Close(h).running
      BY <1>4, CloseAlters
    <2>2. CASE size = -1 /\ c.download_file # "none"
      <3>1. e = Close(h)
        BY <1>2, <2>2
      <3>2. size # 1
        BY <2>2
      <3>3. CASE c.download_file = "closed"
        BY <1>5, <2>1, <2>2, <3>1, <3>2, <3>3
      <3>4. CASE c.download_file # "closed"
        BY <1>5, <2>1, <2>2, <3>1, <3>2, <3>4
      <3> QED
        BY <3>3, <3>4
    <2>3. CASE ~(size = -1 /\ c.download_file # "none")
      <3>1. e = h
        BY <1>2, <2>3
      <3> QED
        BY <1>5, <2>3, <3>1
    <2> QED
      BY <2>2, <2>3
  <1>9. size \in {-1, 1} /\ e.msg_readcount >= 1
    BY <1>4, <1>6 DEF size
  <1>10. /\ Alters(e, t, {"content", "fault"}) /\ IsClient(t)
         /\ t.fault = IF e.download_file = "closed" /\ e.fault = "none"
                      THEN "wrote to a closed file" ELSE e.fault
         /\ e.download_file = "open"
            => t.content = e.content \o SubSeq(e.message, e.msg_readcount + 1,
                                               e.msg_readcount + size)
         /\ e.download_file # "open" => t.content = e.content
         /\ t.msg_readcount = e.msg_readcount + size
         /\ t.msg_badread = e.msg_badread /\ t.stuck = e.stuck
         /\ t.instep = (e.instep /\ (size > 0 /\ Fits(e, 1) => Here(e, "data")))
    BY <1>3, <1>6, <1>9, TakeBlockIs
  <1>11. t.download_file = e.download_file /\ t.running = e.running
    BY <1>10 DEF Alters, Names, Place
  <1>12. Alters(c, t, {"download_file", "running", "content", "fault"})
    BY <1>1, <1>6, <1>10 DEF Changes, Alters
  <1>13. Asks(t)
    BY <1>12, AsksSame DEF Alters, Names, Place
  <1>14. (Fits(e, 1) <=> Fits(h, 1)) /\ (Here(e, "data") <=> Here(h, "data"))
    BY <1>5, <1>6, <1>7 DEF Fits, Here
  <1>15. t.instep = (h.instep /\ (size > 0 /\ Fits(h, 1) => Here(h, "data")))
    BY <1>6, <1>10, <1>14
  <1>16. t.fault \in FileFaults
    BY <1>8, <1>10 DEF FileFaults
  <1>17. size = 1 /\ c.download_file = "open"
         => t.content = c.content \o SubSeq(c.message, h.msg_readcount + 1,
                                           h.msg_readcount + size)
    BY <1>6, <1>7, <1>8, <1>10
  <1>18. /\ c.download_file = "none" => t.content = c.content
         /\ size = -1 /\ c.download_file # "closed" => t.content = c.content
    BY <1>7, <1>8, <1>10
  <1>19. /\ c.download_file = "closed" => t.fault # "none" /\ t.download_file = "closed"
         /\ c.download_file # "closed" => t.fault = "none"
    <2>1. CASE c.download_file = "closed"
      <3>1. e.download_file = "closed" /\ e.fault \in {"none", "closed twice"}
        BY <1>8, <2>1
      <3>2. t.download_file = "closed"
        BY <1>11, <3>1
      <3>3. t.fault = IF e.download_file = "closed" /\ e.fault = "none"
                      THEN "wrote to a closed file" ELSE e.fault
        BY <1>10
      <3> QED
        BY <2>1, <3>1, <3>2, <3>3
    <2>2. CASE c.download_file # "closed"
      <3>1. e.fault = "none"
        BY <1>8, <2>2
      <3>2. e.download_file # "closed"
        BY <1>8, <1>9, <2>2
      <3>3. t.fault = IF e.download_file = "closed" /\ e.fault = "none"
                      THEN "wrote to a closed file" ELSE e.fault
        BY <1>10
      <3> QED
        BY <2>2, <3>1, <3>2, <3>3
    <2> QED
      BY <2>1, <2>2
  <1>20. /\ t.msg_readcount = h.msg_readcount + size
         /\ t.msg_badread = h.msg_badread /\ t.stuck = h.stuck
    BY <1>6, <1>10
  <1> HIDE DEF Headed, BlockTaken, SizeOf
  <1> QED
    BY <1>8, <1>9, <1>10, <1>11, <1>12, <1>13, <1>15, <1>16, <1>17, <1>18, <1>19, <1>20
    DEF h, t, size

\* What ParseDownload reads of a message that begins with its command.
LEMMA SizeIs ==
  ASSUME NEW c, IsClient(c), NEW tp, Says(tp, c.message), c.message[1] = Svc("download")
  PROVE  SizeOf(c) \in {-1, 1}
  <1>1. DOMAIN c.message = 1 .. Len(c.message)
    BY ListedLen DEF Says
  <1>2. CASE Here(c, "short")
    <2>1. /\ c.msg_readcount + 1 \in DOMAIN c.message
          /\ c.message[c.msg_readcount + 1][1] = "short"
      BY <1>1, <1>2 DEF Here, IsClient
    <2>2. c.message[c.msg_readcount + 1][2] \in {-1, 1}
      BY <2>1 DEF Says
    <2> QED
      BY <2>2 DEF SizeOf, Value
  <1>3. CASE ~Here(c, "short")
    BY <1>3 DEF SizeOf, Value
  <1> QED
    BY <1>2, <1>3

LEMMA DownloadSteps ==
  ASSUME BaseInv, Parse_download
  PROVE  Steps(FileFields \cup {"lp", "finished", "reliable"})
  <1> DEFINE U == FileFields \cup {"lp", "finished", "reliable"}
             t == BlockTaken(Taken)
             d == ParseDownload(Taken)
  <1>1. Case("download") /\ Then(d)
    BY DEF Parse_download
  <1>2. client.fault = "none" /\ client.parsing
    BY <1>1 DEF Case, Loop
  <1>3. /\ IsClient(Taken) /\ Alters(client, Taken, {"command"})
        /\ Taken.message = client.message /\ Taken.msg_readcount >= 1
    <2>1. /\ IsClient(Taken) /\ Alters(client, Taken, {"command"})
          /\ Taken.message = client.message
      BY <1>1, CaseIs
    <2>2. Taken.msg_readcount = client.msg_readcount + 1 /\ client.msg_readcount \in Nat
      BY <1>1, CaseIs
    <2> QED
      BY <2>1, <2>2
  <1>4. client.message[1] = Svc("download")
    BY <1>1, CaseIs
  <1>5. Asks(Taken) /\ Taken.fault = "none"
    BY <1>2, <1>3, TakenAsks DEF Names
  <1>6. SizeOf(Taken) \in {-1, 1}
    BY <1>3, <1>4, SizeIs DEF BaseInv
  <1>7. /\ Alters(Taken, t, {"download_file", "running", "content", "fault"})
        /\ IsClient(t) /\ Asks(t) /\ t.fault \in FileFaults
    BY <1>3, <1>5, <1>6, BlockTakenIs
  <1>8. d = IF PercentOf(Taken) = 100 THEN FinishDownload(t) ELSE AskForMore(t, PercentOf(Taken))
    BY <1>3, ParseDownloadIs
  <1> HIDE DEF t, d
  <1>9. /\ Alters(t, d, {"download_file", "running", "finished", "fault", "reliable", "lp"})
        /\ IsClient(d) /\ Asks(d) /\ d.fault \in FileFaults
    <2>1. CASE d = FinishDownload(t)
      <3>1. /\ Alters(t, d, {"download_file", "running", "finished", "fault", "reliable"})
            /\ IsClient(d) /\ Asks(d)
        BY <1>7, <2>1, FinishIs
      <3>2. d.fault \in {t.fault, "closed no file", "closed twice"}
        <4> DEFINE a == NetQW_AppendReliableBuffer(t, [name |-> "say"])
                   w == [a EXCEPT !.download_file = "closed", !.running = FALSE,
                           !.finished = @ \cup {[name |-> t.name, content |-> t.content]}]
        <4>1. IsClient(a) /\ Alters(t, a, {"reliable"})
          BY <1>7, AsksMore, OtherRequests
        <4>2. d = CASE t.download_file = "none" -> Faulty(a, "closed no file")
                    [] t.download_file = "closed" -> Faulty(a, "closed twice")
                    [] OTHER -> w
          BY <2>1 DEF FinishDownload
        <4> HIDE DEF a
        <4>3. a.fault = t.fault
          BY <4>1 DEF Alters, Names, Place
        <4>4. \A f : Faulty(a, f).fault \in {t.fault, f}
          BY <4>1, <4>3, FaultyAlters
        <4>5. w.fault = t.fault
          BY <4>1, <4>3 DEF IsClient, Names
        <4>6. d \in {Faulty(a, "closed no file"), Faulty(a, "closed twice"), w}
          BY <4>2
        <4> HIDE DEF w
        <4> QED
          BY <4>4, <4>5, <4>6
      <3> QED
        BY <1>7, <3>1, <3>2 DEF Alters, FileFaults
    <2>2. CASE d = AskForMore(t, PercentOf(Taken))
      <3>1. Alters(t, d, {"lp", "reliable"}) /\ IsClient(d) /\ Asks(d)
        BY <1>7, <2>2, AskForMoreIs
      <3>2. d.fault = t.fault
        BY <3>1 DEF Alters, Names, Place
      <3> QED
        BY <1>7, <3>1, <3>2 DEF Alters, FileFaults
    <2> QED
      BY <1>8, <2>1, <2>2
  <1>10. Alters(client, d, U \cup {"command", "fault"})
    BY <1>3, <1>7, <1>9 DEF Alters, FileFields
  <1> HIDE DEF U
  <1>11. Then(d) /\ "download_file" \in U
    BY <1>1 DEF U, FileFields
  <1>12. Steps(U)
    BY <1>2, <1>9, <1>10, <1>11, ThenSteps
  <1> QED
    BY <1>12 DEF U

\* What a text that is carried out is, as far as it matters here.
TextOf(c) == Value(c, "string", [verb |-> "none"])

LEMMA TextIs ==
  ASSUME NEW c, IsClient(c), NEW tp, Says(tp, c.message),
         c.message[1] \in {Svc("stufftext"), Svc("updatestat")}
  PROVE  IsText(TextOf(c))
  <1>1. DOMAIN c.message = 1 .. Len(c.message)
    BY ListedLen DEF Says
  <1>2. CASE Here(c, "string")
    <2>1. /\ c.msg_readcount + 1 \in DOMAIN c.message
          /\ c.message[c.msg_readcount + 1][1] = "string"
      BY <1>1, <1>2 DEF Here, IsClient
    <2>2. IsText(c.message[c.msg_readcount + 1][2])
      BY <2>1 DEF Says
    <2>3. TextOf(c) = c.message[c.msg_readcount + 1][2]
      BY <1>2 DEF TextOf, Value
    <2> QED
      BY <2>2, <2>3
  <1>3. CASE ~Here(c, "string")
    <2>1. TextOf(c) = [verb |-> "none"]
      BY <1>3 DEF TextOf, Value
    <2> QED
      BY <2>1 DEF IsText
  <1> QED
    BY <1>2, <1>3

\* What a stuffed text does, before the loop goes on.
Obeyed(q, text, c) ==
  \/ /\ text.verb = "cmd"
     /\ c = [NetQW_AppendReliableBuffer(q, text.request) EXCEPT
               !.loaded = Append(@, <<text.request.name, text.request.n>>)]
  \/ /\ text.verb = "skins"
     /\ c = NetQW_AppendReliableBuffer(q, Request("begin", q.servercount, 0))
  \/ text.verb = "download" /\ c \in StartDownload(q, text.file)
  \/ text.verb \notin {"cmd", "skins", "download"} /\ c = q

LEMMA StufftextIs ==
  ASSUME Parse_stufftext
  PROVE  /\ Case("stufftext")
         /\ \E c : Obeyed(Read(Taken, "string"), TextOf(Taken), c) /\ Then(c)
  BY DEF Parse_stufftext, Obeyed, TextOf

LEMMA StufftextSteps ==
  ASSUME BaseInv, Parse_stufftext
  PROVE  Steps(FileFields \cup {"loaded", "reliable"})
  <1> DEFINE U == FileFields \cup {"loaded", "reliable"}
             q == Read(Taken, "string")
             text == TextOf(Taken)
  <1>1. PICK c : Case("stufftext") /\ Obeyed(q, text, c) /\ Then(c)
    BY StufftextIs
  <1>2. client.fault = "none" /\ client.parsing
    BY <1>1 DEF Case, Loop
  <1>3. /\ IsClient(Taken) /\ Alters(client, Taken, {"command"})
        /\ Taken.message = client.message
        /\ client.message[1] \in {Svc("stufftext"), Svc("updatestat")}
    BY <1>1, CaseIs
  <1>4. IsText(text)
    BY <1>3, TextIs DEF BaseInv
  <1>5. Alters(Taken, q, {}) /\ IsClient(q)
    BY <1>3, ReadChanges, KindsNamed, ChangesAlters
  <1> HIDE DEF q, text
  <1>6. Alters(client, q, {"command"})
    BY <1>3, <1>5 DEF Alters
  <1>7. Asks(q) /\ q.fault = "none"
    BY <1>2, <1>6, TakenAsks DEF Names
  <1>8. Alters(q, c, U \cup {"fault"}) /\ IsClient(c) /\ Asks(c) /\ c.fault \in {"none", "closed twice"}
    <2>1. CASE text.verb = "cmd" /\ c = [NetQW_AppendReliableBuffer(q, text.request) EXCEPT
                                   !.loaded = Append(@, <<text.request.name, text.request.n>>)]
      <3> DEFINE a == NetQW_AppendReliableBuffer(q, text.request)
                 l == Append(a.loaded, <<text.request.name, text.request.n>>)
      <3>1. IsRequest(text.request)
        BY <1>4, <2>1 DEF IsText, IsRequest
      <3>2. Alters(q, a, {"reliable"}) /\ Asks(a) /\ IsClient(a)
        BY <1>5, <1>7, <3>1, AsksMore
      <3>3. c = [a EXCEPT !.loaded = l]
        BY <2>1
      <3> HIDE DEF a, l
      <3>4. Alters(a, c, {"loaded"})
        BY <3>2, <3>3, FieldsAlter
      <3>5. c.reliable = a.reliable /\ c.fault = q.fault /\ IsClient(c)
        BY <3>2, <3>4 DEF Alters, Names, Place
      <3>6. Asks(c)
        BY <3>2, <3>5, AsksSame
      <3> QED
        BY <1>7, <3>2, <3>4, <3>5, <3>6 DEF Alters
    <2>2. CASE c = NetQW_AppendReliableBuffer(q, Request("begin", q.servercount, 0))
      <3>1. Alters(q, c, {"reliable"}) /\ Asks(c) /\ IsClient(c)
        BY <1>5, <1>7, <2>2, AsksMore, OtherRequests
      <3>2. c.fault = "none"
        BY <1>7, <3>1 DEF Alters, Names, Place
      <3> QED
        BY <3>1, <3>2 DEF Alters
    <2>3. CASE c \in StartDownload(q, text.file)
      <3>1. /\ Alters(q, c, FileFields \cup {"fault", "reliable"}) /\ IsClient(c) /\ Asks(c)
            /\ c.fault = IF q.download_file = "closed" /\ q.fault = "none"
                         THEN "closed twice" ELSE q.fault
        BY <1>5, <1>7, <2>3, StartDownloadIs
      <3> QED
        BY <1>7, <3>1 DEF Alters
    <2>4. CASE c = q
      BY <1>5, <1>7, <2>4 DEF Alters
    <2> QED
      BY <1>1, <2>1, <2>2, <2>3, <2>4 DEF Obeyed
  <1>9. Alters(client, c, U \cup {"command", "fault"})
    BY <1>6, <1>8 DEF Alters
  <1> HIDE DEF U
  <1>10. Then(c) /\ "download_file" \in U /\ c.fault \in FileFaults
    BY <1>1, <1>8 DEF U, FileFields, FileFaults
  <1>11. Steps(U)
    BY <1>2, <1>8, <1>9, <1>10, ThenSteps
  <1> QED
    BY <1>11 DEF U
-----------------------------------------------------------------------------
(* Printed text. *)

LEMMA StringAddIs ==
  ASSUME NEW c, IsClient(c), NEW s
  PROVE  /\ Alters(c, QWC_StringAdd(c, s), {"console_output"}) /\ IsClient(QWC_StringAdd(c, s))
         /\ QWC_StringAdd(c, s).console_output
            = IF c.save_console_output
              THEN Append(c.console_output, [string |-> s, done |-> FALSE])
              ELSE c.console_output
  <1> DEFINE d == [c EXCEPT !.console_output
                      = Append(c.console_output, [string |-> s, done |-> FALSE])]
  <1>1. QWC_StringAdd(c, s) = IF c.save_console_output THEN d ELSE c
    BY DEF QWC_StringAdd
  <1>2. d.console_output = Append(c.console_output, [string |-> s, done |-> FALSE])
    BY DEF IsClient, Names
  <1>3. Alters(c, d, {"console_output"})
    BY FieldsAlter
  <1> HIDE DEF d
  <1>4. IsClient(d) /\ Alters(c, c, {"console_output"})
    BY <1>3 DEF Alters
  <1> QED
    BY <1>1, <1>2, <1>3, <1>4

LEMMA EndLineIs ==
  ASSUME NEW c, IsClient(c)
  PROVE  LET d == EndLine(c)
         IN  /\ Alters(c, d, {"buffer", "buffer_position", "console_output"}) /\ IsClient(d)
             /\ d.buffer = << >> /\ d.buffer_position = 0
             /\ d.console_output
                = IF c.save_console_output
                  THEN Append(c.console_output, [string |-> c.buffer, done |-> FALSE])
                  ELSE c.console_output
  <1> DEFINE a == QWC_StringAdd(c, c.buffer)
             d == EndLine(c)
  <1>1. /\ Alters(c, a, {"console_output"}) /\ IsClient(a)
        /\ a.console_output
            = IF c.save_console_output
              THEN Append(c.console_output, [string |-> c.buffer, done |-> FALSE])
              ELSE c.console_output
    BY StringAddIs
  <1>2. d = [a EXCEPT !.buffer = << >>, !.buffer_position = 0]
    BY DEF EndLine
  <1> HIDE DEF a, d
  <1>3. d.buffer = << >> /\ d.buffer_position = 0 /\ d.console_output = a.console_output
    BY <1>1, <1>2 DEF IsClient, Names
  <1>4. Alters(a, d, {"buffer", "buffer_position"})
    BY <1>1, <1>2, FieldsAlter
  <1>5. Alters(c, d, {"buffer", "buffer_position", "console_output"}) /\ IsClient(d)
    BY <1>1, <1>4 DEF Alters
  <1> QED
    BY <1>1, <1>3, <1>5 DEF d

\* A text that fits behind what is in the buffer, and one that does not.
Room(c) == BufferSize - c.buffer_position
Fitting(c, s) == IF Len(s) < Room(c) THEN Len(s) ELSE IF Room(c) > 0 THEN Room(c) - 1 ELSE 0
Printed(c, s) ==
  [c EXCEPT !.buffer = c.buffer \o SubSeq(s, 1, Fitting(c, s)),
            !.buffer_position = c.buffer_position + Len(s),
            !.printed = c.printed \o s,
            !.long = c.long \/ Fitting(c, s) < Len(s)]

LEMMA ParsePrintIs ==
  ASSUME NEW c, IsClient(c), NEW s, NEW d \in ParsePrint(c, s),
         c.buffer_position \in Nat, Len(s) \in Nat
  PROVE  \/ Room(c) < 0 /\ d = Faulty(c, "overflow")
         \/ Room(c) >= 0 /\ d = Printed(c, s)
         \/ Room(c) >= 0 /\ d = EndLine(Printed(c, s))
  <1>1. Room(c) \in Int
    BY ServerMessageAssumption DEF Room
  <1>2. ParsePrint(c, s) = CASE Room(c) < 0 -> {Faulty(c, "overflow")}
                             [] Room(c) >= 0 /\ s = << >> ->
                                  {Printed(c, s), EndLine(Printed(c, s))}
                             [] OTHER -> {IF s[Len(s)] = NL THEN EndLine(Printed(c, s))
                                          ELSE Printed(c, s)}
    BY DEF ParsePrint, Room, Fitting, Printed
  <1>3. CASE Room(c) < 0
    <2>1. ~(Room(c) >= 0)
      BY <1>1, <1>3
    <2>2. d \in {Faulty(c, "overflow")}
      BY <1>2, <1>3, <2>1
    <2> QED
      BY <1>3, <2>2
  <1>4. CASE Room(c) >= 0
    <2>1. ~(Room(c) < 0)
      BY <1>1, <1>4
    <2>2. d \in {Printed(c, s), EndLine(Printed(c, s))}
      BY <1>2, <1>4, <2>1
    <2> QED
      BY <1>4, <2>2
  <1> QED
    BY <1>1, <1>3, <1>4

LEMMA PrintedIs ==
  ASSUME NEW c, IsClient(c), NEW s
  PROVE  LET d == Printed(c, s)
         IN  /\ Alters(c, d, {"buffer", "buffer_position", "printed", "long"}) /\ IsClient(d)
             /\ d.buffer = c.buffer \o SubSeq(s, 1, Fitting(c, s))
             /\ d.buffer_position = c.buffer_position + Len(s)
             /\ d.printed = c.printed \o s
             /\ d.long = (c.long \/ Fitting(c, s) < Len(s))
  <1> DEFINE d == Printed(c, s)
  <1>1. /\ d.buffer = c.buffer \o SubSeq(s, 1, Fitting(c, s))
        /\ d.buffer_position = c.buffer_position + Len(s)
        /\ d.printed = c.printed \o s
        /\ d.long = (c.long \/ Fitting(c, s) < Len(s))
    BY DEF Printed, IsClient, Names
  <1>2. Alters(c, d, {"buffer", "buffer_position", "printed", "long"})
    BY FieldsAlter DEF Printed
  <1> HIDE DEF d
  <1>3. IsClient(d)
    BY <1>2 DEF Alters
  <1> QED
    BY <1>1, <1>2, <1>3 DEF d

LEMMA PrintSteps ==
  ASSUME BaseInv, Parse_print
  PROVE  /\ client.fault = "none" /\ UNCHANGED <<topic, server>>
         /\ Alters(client, client', LineFields \cup {"command", "fault"}) /\ Asks(client')
         /\ client'.buffer_position \in Nat
         /\ \E c, d : \E s \in Seq(Nat) :
              /\ Alters(client, c, {"command"}) /\ IsClient(c)
              /\ \/ Room(c) < 0 /\ d = Faulty(c, "overflow")
                 \/ Room(c) >= 0 /\ d = Printed(c, s)
                 \/ Room(c) >= 0 /\ d = EndLine(Printed(c, s))
              /\ Alters(d, client', {"fault"})
              /\ client'.fault \in {d.fault, "stuck", "out of step"}
  <1> DEFINE id == Read(Taken, "byte")
             s == Value(id, "string", << >>)
             c == Read(id, "string")
  <1>1. Case("print") /\ \E d \in ParsePrint(c, s) : Then(d)
    BY DEF Parse_print
  <1>2. client.fault = "none"
    BY <1>1 DEF Case, Loop
  <1>3. /\ IsClient(Taken) /\ Alters(client, Taken, {"command"})
        /\ Taken.message = client.message /\ client.message[1] = Svc("print")
    BY <1>1, CaseIs
  <1>4. Alters(Taken, id, {}) /\ IsClient(id)
    BY <1>3, ReadChanges, KindsNamed, ChangesAlters
  <1>5. id.message = client.message
    BY <1>3, <1>4 DEF Alters, Names, Place
  <1> HIDE DEF id
  <1>6. Alters(id, c, {}) /\ IsClient(c)
    BY <1>4, ReadChanges, KindsNamed, ChangesAlters
  <1> HIDE DEF c
  <1>7. Alters(client, c, {"command"})
    BY <1>3, <1>4, <1>6 DEF Alters
  <1>8. c.buffer_position \in Nat
    BY <1>7 DEF Alters, Names, Place, BaseInv
  <1>9. s \in Seq(Nat)
    <2>1. Says(topic, client.message) /\ DOMAIN client.message = 1 .. Len(client.message)
      BY ListedLen DEF BaseInv, Says
    <2>2. CASE Here(id, "string")
      <3>1. /\ id.msg_readcount + 1 \in DOMAIN client.message
            /\ client.message[id.msg_readcount + 1][1] = "string"
        BY <1>4, <1>5, <2>1, <2>2 DEF Here, IsClient
      <3>2. client.message[id.msg_readcount + 1][2] \in Seq(Nat)
        BY <1>3, <2>1, <3>1 DEF Says
      <3> QED
        BY <1>5, <2>2, <3>2 DEF Value
    <2>3. CASE ~Here(id, "string")
      BY <2>3 DEF Value
    <2> QED
      BY <2>2, <2>3
  <1> HIDE DEF s
  <1>10. PICK d \in ParsePrint(c, s) : Then(d)
    BY <1>1
  <1>11. Len(s) \in Nat
    BY <1>9
  <1>12. \/ Room(c) < 0 /\ d = Faulty(c, "overflow")
         \/ Room(c) >= 0 /\ d = Printed(c, s)
         \/ Room(c) >= 0 /\ d = EndLine(Printed(c, s))
    BY <1>6, <1>8, <1>10, <1>11, ParsePrintIs
  <1>13. Alters(c, d, LineFields \cup {"fault"}) /\ IsClient(d) /\ d.buffer_position \in Nat
    <2> DEFINE p == Printed(c, s)
    <2>1. /\ Alters(c, p, {"buffer", "buffer_position", "printed", "long"}) /\ IsClient(p)
          /\ p.buffer_position = c.buffer_position + Len(s)
      BY <1>6, PrintedIs
    <2> HIDE DEF p
    <2>2. /\ Alters(p, EndLine(p), {"buffer", "buffer_position", "console_output"})
          /\ EndLine(p).buffer_position = 0
      BY <2>1, EndLineIs
    <2>3. Alters(c, Faulty(c, "overflow"), {"fault"})
      BY <1>6, FaultyAlters
    <2>4. d \in {Faulty(c, "overflow"), p, EndLine(p)}
      BY <1>12 DEF p
    <2>5. Faulty(c, "overflow").buffer_position = c.buffer_position
      BY <2>3 DEF Alters, Names, Place
    <2>6. Alters(c, d, LineFields \cup {"fault"}) /\ IsClient(d)
      BY <2>1, <2>2, <2>3, <2>4 DEF Alters, LineFields
    <2> QED
      BY <1>8, <1>11, <2>1, <2>2, <2>4, <2>5, <2>6
  <1>14. /\ UNCHANGED <<topic, server>> /\ Alters(d, client', {"fault"})
         /\ client'.fault \in {d.fault, "stuck", "out of step"}
    BY <1>10, <1>13, ThenIs
  <1>15. Alters(client, client', LineFields \cup {"command", "fault"})
    BY <1>7, <1>13, <1>14 DEF Alters
  <1>16. client'.reliable = client.reliable
    BY <1>15 DEF Alters, Names, Place, LineFields
  <1>17. Asks(client')
    BY <1>16, AsksSame DEF BaseInv
  <1>18. client'.buffer_position \in Nat
    BY <1>13, <1>14 DEF Alters, Names, Place
  <1> QED
    BY <1>2, <1>6, <1>7, <1>9, <1>12, <1>14, <1>15, <1>17, <1>18

LEMMA PlainSteps ==
  ASSUME BaseInv, BadRead \/ EndOfMessage \/ NotViable \/ Misread
  PROVE  Steps({"abort", "parsing"})
  <1>1. IsClient(client) /\ Asks(client)
    BY DEF BaseInv
  <1>2. client.fault = "none"
    BY DEF BadRead, EndOfMessage, NotViable, Misread, Loop
  <1>3. CASE UNCHANGED <<topic, server>>
             /\ (\/ client' = [client EXCEPT !.abort = TRUE]
                 \/ client' = [client EXCEPT !.parsing = FALSE])
    <2>1. Alters(client, client', {"abort", "parsing"} \cup {"command", "fault"})
      BY <1>1, <1>3 DEF Alters, IsClient, Names, Place
    <2>2. client'.reliable = client.reliable /\ client'.fault = "none"
      BY <1>2, <2>1, <1>1, <1>3 DEF Alters, Names, Place, IsClient
    <2> QED
      BY <1>1, <1>3, <2>1, <2>2, AsksSame DEF Steps
  <1>4. CASE Misread
    <2> DEFINE c == [client EXCEPT !.instep = FALSE]
    <2>1. Then(c)
      BY <1>4 DEF Misread
    <2>2. IsClient(c) /\ Alters(client, c, {"abort", "parsing"} \cup {"command", "fault"})
      BY <1>1 DEF Alters, IsClient, Names, Place
    <2>3. c.reliable = client.reliable /\ c.fault = "none"
      BY <1>1, <1>2 DEF IsClient, Names
    <2> HIDE DEF c
    <2>4. Asks(c)
      BY <1>1, <2>3, AsksSame
    <2> QED
      BY <1>2, <2>1, <2>2, <2>3, <2>4, ThenSteps
  <1> QED
    BY <1>3, <1>4 DEF BadRead, EndOfMessage, NotViable

\* The application's steps.
LEMMA OutputStep ==
  ASSUME BaseInv, QWC_GetConsoleOutput
  PROVE  /\ UNCHANGED <<topic, server>> /\ client.fault = "none"
         /\ Alters(client, client', {"console_output", "got", "fault"})
         /\ client'.fault \in {"none", "freed line"}
         /\ client'.fault = "freed line" => client.quit
         /\ LET new == {i \in DOMAIN client.console_output : ~client.console_output[i].done}
            IN  /\ new # {}
                /\ \E s : /\ s = (CHOOSE i \in new : \A j \in new : i <= j)
                          /\ client'.console_output
                             = [client.console_output EXCEPT ![s].done = TRUE]
                          /\ client'.got = client.got \o client.console_output[s].string
  <1> DEFINE lines == client.console_output
             new == {i \in DOMAIN lines : ~lines[i].done}
             s == CHOOSE i \in new : \A j \in new : i <= j
             f == IF client.quit THEN Faulty(client, "freed line") ELSE client
             d == [f EXCEPT !.console_output = [lines EXCEPT ![s].done = TRUE],
                            !.got = client.got \o lines[s].string]
  <1>1. IsClient(client) /\ client.fault = "none" /\ new # {}
    BY DEF BaseInv, QWC_GetConsoleOutput
  <1> HIDE DEF new, s
  <1>2. /\ Alters(client, f, {"fault"}) /\ IsClient(f)
        /\ f.fault = IF client.quit THEN "freed line" ELSE "none"
    <2>1. /\ Alters(client, Faulty(client, "freed line"), {"fault"})
          /\ IsClient(Faulty(client, "freed line"))
          /\ Faulty(client, "freed line").fault = "freed line"
      BY <1>1, FaultyAlters
    <2> QED
      BY <1>1, <2>1 DEF Alters
  <1>3. f.console_output = lines /\ f.got = client.got
    BY <1>2 DEF Alters, Names, Place
  <1>4. client' = d /\ UNCHANGED <<topic, server>>
    <2>1. client' = [f EXCEPT !.console_output[s].done = TRUE, !.got = @ \o lines[s].string]
          /\ UNCHANGED <<topic, server>>
      BY DEF QWC_GetConsoleOutput, new, s
    <2> HIDE DEF f
    <2> QED
      BY <1>3, <2>1
  <1> HIDE DEF f
  <1>5. /\ client'.console_output = [lines EXCEPT ![s].done = TRUE]
        /\ client'.got = client.got \o lines[s].string
        /\ client'.fault = f.fault /\ client'.got = d.got
    BY <1>2, <1>4 DEF IsClient, Names
  <1>6. Alters(f, client', {"console_output", "got"})
    BY <1>2, <1>4 DEF Alters, IsClient, Names, Place
  <1>7. Alters(client, client', {"console_output", "got", "fault"})
    BY <1>2, <1>6 DEF Alters
  <1>8. /\ client'.fault \in {"none", "freed line"}
        /\ client'.fault = "freed line" => client.quit
    BY <1>2, <1>5
  <1> QED
    BY <1>1, <1>4, <1>5, <1>7, <1>8 DEF new, s

LEMMA QuitStep ==
  ASSUME BaseInv, QWC_Quit
  PROVE  UNCHANGED <<topic, server>> /\ Alters(client, client', {"quit"}) /\ client'.quit
  <1>1. IsClient(client) /\ client' = [client EXCEPT !.quit = TRUE]
    BY DEF BaseInv, QWC_Quit
  <1> QED
    BY <1>1 DEF QWC_Quit, Alters, IsClient, Names, Place

\* A message is fetched.
LEMMA GetStep ==
  ASSUME BaseInv, Get_Message
  PROVE  LET packet == server.down[1]
         IN  /\ server.down # << >> /\ 1 \in DOMAIN server.down
             /\ topic' = topic /\ server' = [server EXCEPT !.down = Tail(@)]
             /\ ~client.parsing /\ ~client.abort /\ client.fault = "none"
             /\ IsClient(client')
             /\ \A x \in Names \ ({"message", "parsing", "cut", "command",
                                  "incoming_sequence"} \cup Place) : client'[x] = client[x]
             /\ client'.message = packet.message /\ client'.msg_readcount = 0
             /\ client'.msg_badread = FALSE /\ client'.parsing = TRUE
             /\ client'.cut = packet.cut /\ client'.command = "none"
             /\ client'.incoming_sequence = client.incoming_sequence + 1
             /\ client'.instep = client.instep /\ client'.stuck = client.stuck
  <1> DEFINE packet == server.down[1]
             m == packet.message
             k == packet.cut
  <1>1. /\ server.down # << >> /\ topic' = topic
        /\ server' = [server EXCEPT !.down = Tail(@)]
        /\ ~client.parsing /\ ~client.abort /\ client.fault = "none"
    BY DEF Get_Message
  <1>2. 1 \in DOMAIN server.down /\ Head(server.down) = packet
    BY <1>1, TailIs DEF BaseInv
  <1> DEFINE b == MSG_BeginReading(client, m)
  <1>3. client' = [b EXCEPT !.parsing = TRUE, !.cut = k, !.command = "none",
                            !.incoming_sequence = @ + 1]
    BY <1>2 DEF Get_Message
  <1>4. IsClient(client)
    BY DEF BaseInv
  <1> HIDE DEF m, k
  <1>5. /\ DOMAIN b = Names /\ b.message = m /\ b.msg_readcount = 0 /\ b.msg_badread = FALSE
        /\ b.instep = client.instep /\ b.stuck = client.stuck
        /\ b.incoming_sequence = client.incoming_sequence
    BY <1>4 DEF MSG_BeginReading, IsClient, Names
  <1>6. \A x \in Names \ ({"message"} \cup Place) : b[x] = client[x]
    BY <1>4 DEF MSG_BeginReading, IsClient, Place
  <1> HIDE DEF b
  <1>7. /\ DOMAIN client' = Names /\ client'.message = m /\ client'.msg_readcount = 0
        /\ client'.msg_badread = FALSE /\ client'.parsing = TRUE
        /\ client'.cut = k /\ client'.command = "none"
        /\ client'.incoming_sequence = client.incoming_sequence + 1
        /\ client'.instep = client.instep /\ client'.stuck = client.stuck
    BY <1>3, <1>5 DEF Names
  <1>8. \A x \in Names \ ({"message", "parsing", "cut", "command", "incoming_sequence"}
                          \cup Place) : client'[x] = client[x]
    BY <1>3, <1>5, <1>6
  <1>9. IsClient(client')
    <2>1. DOMAIN client' = Names /\ client'.msg_readcount = 0
      BY <1>7
    <2>2. client'.msg_badread = FALSE /\ client'.instep = client.instep
          /\ client'.stuck = client.stuck
      BY <1>7
    <2>3. client.instep \in BOOLEAN /\ client.stuck \in BOOLEAN
      BY <1>4 DEF IsClient
    <2>4. client'.msg_badread \in BOOLEAN
      BY ONLY <2>2, Zenon
    <2>5. client'.instep \in BOOLEAN /\ client'.stuck \in BOOLEAN
      BY ONLY <2>2, <2>3, Zenon
    <2> QED
      BY <2>1, <2>4, <2>5 DEF IsClient
  <1> QED
    BY <1>1, <1>2, <1>7, <1>8, <1>9 DEF m, k

-----------------------------------------------------------------------------
(* What every packet of the server is, and what the client holds of it. *)

\* Only what is said of players depends on the version.
LEMMA PacketVersion ==
  ASSUME NEW tp \in Topics, tp # "any", NEW v, NEW w, NEW p, IsPacket(tp, v, p)
  PROVE  IsPacket(tp, w, p)
  <1>1. PICK c, rest :
          /\ IsCommand(c, v) /\ Behind(c, rest) /\ c[1][2] \in Heads(tp)
          /\ Listed(p.message) /\ Len(p.message) \in 1 .. Len(Written(c \o rest))
          /\ \A i \in DOMAIN p.message : p.message[i] = Written(c \o rest)[i]
          /\ p.message = Written(c \o rest)
          /\ p.cut = "none" => Len(p.message) >= Len(Written(c))
          /\ p.cut # "none" => p.cut = c[1][2] /\ Len(p.message) < Len(Written(c))
    BY DEF IsPacket
  <1>2. "playerinfo" \notin Heads(tp)
    BY DEF Heads, Topics
  <1>3. ASSUME NEW flags, NEW bits, c = <<Svc("playerinfo")>> \o PlayerInfo(flags, bits, v)
        PROVE  FALSE
    <2> DEFINE gs == PlayerInfo(flags, bits, v)
    <2>1. Listed(gs)
      BY PlayerInfoFits DEF AllFit
    <2> HIDE DEF gs
    <2>2. (<<Svc("playerinfo")>> \o gs)[1] = Svc("playerinfo")
      BY <2>1, SequenceHead
    <2>3. c[1] = Svc("playerinfo")
      BY <1>3, <2>2 DEF gs
    <2>4. c[1][2] = "playerinfo"
      BY <2>3, FieldNames
    <2> QED
      BY <1>1, <1>2, <2>4
  <1>4. IsCommand(c, w)
    <2>1. ~(\E flags, bits : c = <<Svc("playerinfo")>> \o PlayerInfo(flags, bits, v))
      BY <1>3
    <2> HIDE DEF PlayerInfo
    <2>2. \/ \E flags, bits : c = <<Svc("playerinfo")>> \o PlayerInfo(flags, bits, v)
          \/ IsCommand(c, w)
      BY <1>1, Zenon DEF IsCommand
    <2> QED
      BY <2>1, <2>2
  <1> QED
    BY <1>1, <1>4 DEF IsPacket

\* The packets that are on their way, after one was added.
PacketsFit(down, version) ==
  Listed(down) /\ \A i \in DOMAIN down : IsPacket(topic, version, down[i])

LEMMA PacketAdded ==
  ASSUME NEW down, NEW version, PacketsFit(down, version), NEW p, IsPacket(topic, version, p)
  PROVE  PacketsFit(Append(down, p), version)
  <1>1. /\ Listed(down) /\ Len(down) \in Nat /\ DOMAIN down = 1 .. Len(down)
        /\ \A i \in DOMAIN down : IsPacket(topic, version, down[i])
    BY ListedLen DEF PacketsFit
  <1>2. /\ Listed(Append(down, p)) /\ DOMAIN Append(down, p) = 1 .. Len(down) + 1
        /\ \A i \in DOMAIN down : Append(down, p)[i] = down[i]
        /\ Append(down, p)[Len(down) + 1] = p
    BY <1>1, AppendIs
  <1> QED
    BY <1>1, <1>2 DEF PacketsFit

\* What a step of the client leaves as it is.
LEMMA BaseKept ==
  ASSUME BaseInv, UNCHANGED <<topic, server>>, IsClient(client'), Asks(client'),
         client'.buffer_position \in Nat, client'.message = client.message,
         client'.protoversion = client.protoversion \/ client.parsing,
         client.parsing \/ ~client'.parsing
  PROVE  BaseInv'
  <1>1. ASSUME NEW i \in DOMAIN server.down
        PROVE  IsPacket(topic, client'.protoversion, server.down[i])
    <2>1. CASE client'.protoversion = client.protoversion
      BY <2>1 DEF BaseInv
    <2>2. CASE topic # "any"
      BY <2>2, PacketVersion DEF BaseInv
    <2>3. CASE topic = "any" /\ client.parsing
      <3>1. server.down = << >>
        BY <2>3 DEF BaseInv
      <3> QED
        BY <3>1
    <2> QED
      BY <2>1, <2>2, <2>3
  <1>2. topic' = topic /\ server' = server
    OBVIOUS
  <1>3. \A i \in DOMAIN server'.down : IsPacket(topic', client'.protoversion, server'.down[i])
    BY <1>1, <1>2
  <1> QED
    BY <1>2, <1>3 DEF BaseInv

LEMMA BaseInit == Init => BaseInv
  <1> SUFFICES ASSUME Init
               PROVE  BaseInv
    OBVIOUS
  <1>1. /\ DOMAIN client = Names /\ client.msg_readcount = 0 /\ client.msg_badread = FALSE
        /\ client.instep = TRUE /\ client.stuck = FALSE /\ client.message = << >>
        /\ client.parsing = FALSE /\ client.buffer_position = 0
        /\ client.reliable \in {<<[name |-> "new"]>>, << >>}
    BY DEF Init, Names
  <1>2. IsClient(client)
    <2>1. DOMAIN client = Names /\ client.msg_readcount \in Nat
      BY <1>1
    <2>2. client.msg_badread \in BOOLEAN /\ client.instep \in BOOLEAN /\ client.stuck \in BOOLEAN
      BY ONLY <1>1, Zenon
    <2> QED
      BY <2>1, <2>2 DEF IsClient
  <1>3. Says(topic, client.message)
    BY <1>1, SaysNothing
  <1>4. Asks(client)
    <2>1. CASE client.reliable = << >>
      BY <2>1, ListedEmpty DEF Asks
    <2>2. CASE client.reliable = <<[name |-> "new"]>>
      <3> DEFINE new == [name |-> "new"]
      <3>1. IsRequest(new)
        BY OtherRequests
      <3>2. client.reliable = <<new>>
        BY <2>2
      <3> HIDE DEF new
      <3>3. DOMAIN client.reliable = 1 .. 1 /\ client.reliable[1] = new
        BY <3>2
      <3>4. Listed(<<new>>)
        BY ListedShort
      <3>5. \A i \in DOMAIN client.reliable : IsRequest(client.reliable[i])
        BY <3>1, <3>3
      <3> QED
        BY <3>2, <3>4, <3>5 DEF Asks
    <2> QED
      BY <1>1, <2>1, <2>2
  <1>5. /\ topic \in Topics
        /\ DOMAIN server = {"level", "entered", "down", "sent", "file", "block", "entities"}
        /\ server.level \in Nat /\ server.sent \in Nat /\ server.block \in Nat
        /\ server.down = << >>
    BY DEF Init
  <1> QED
    BY <1>1, <1>2, <1>3, <1>4, <1>5, ListedEmpty DEF BaseInv
\* The parser's steps.
LEMMA BaseParse ==
  ASSUME BaseInv, ParseServerMessage
  PROVE  BaseInv'
  <1> DEFINE Kept == {"message", "buffer_position"}
  <1>1. ASSUME NEW S, Steps(S), S \cap {"message", "buffer_position"} = {},
               "protoversion" \notin S \/ client.parsing, "parsing" \notin S \/ client.parsing
        PROVE  BaseInv'
    <2>1. /\ UNCHANGED <<topic, server>> /\ Alters(client, client', S \cup {"command", "fault"})
          /\ Asks(client') /\ IsClient(client')
      BY <1>1 DEF Steps, Alters
    <2>2. client'.message = client.message /\ client'.buffer_position = client.buffer_position
      BY <1>1, <2>1 DEF Alters, Names, Place
    <2>3. client'.protoversion = client.protoversion \/ client.parsing
      BY <1>1, <2>1 DEF Alters, Names, Place
    <2>4. client'.parsing = client.parsing \/ client.parsing
      BY <1>1, <2>1 DEF Alters, Names, Place
    <2>5. client'.buffer_position \in Nat
      BY <2>2 DEF BaseInv
    <2> QED
      BY <2>1, <2>2, <2>3, <2>4, <2>5, BaseKept
  <1>2. CASE BadRead \/ EndOfMessage \/ NotViable \/ Misread
    <2>1. client.parsing
      BY <1>2 DEF BadRead, EndOfMessage, NotViable, Misread, Loop
    <2> QED
      BY <1>1, <1>2, <2>1, PlainSteps
  <1>3. CASE Parse_fixed
    BY <1>1, <1>3, FixedSteps
  <1>4. CASE Parse_print
    <2>1. /\ UNCHANGED <<topic, server>> /\ Asks(client') /\ client'.buffer_position \in Nat
          /\ Alters(client, client', LineFields \cup {"command", "fault"})
      BY <1>4, PrintSteps
    <2>2. /\ client'.message = client.message /\ client'.protoversion = client.protoversion
          /\ client'.parsing = client.parsing /\ IsClient(client')
      BY <2>1 DEF Alters, Names, Place, LineFields
    <2> QED
      BY <2>1, <2>2, BaseKept
  <1>5. CASE Parse_stufftext
    BY <1>1, <1>5, StufftextSteps DEF FileFields
  <1>6. CASE Parse_lists
    <2>1. client.parsing
      BY <1>6 DEF Parse_lists, Case, Loop
    <2> QED
      BY <1>1, <1>6, <2>1, ListsSteps
  <1>7. CASE Parse_world
    <2>1. Steps({"abort", "validsequence", "deltapoint"})
      BY <1>7, WorldSteps
    <2> QED
      BY <1>1, <2>1
  <1>8. CASE Parse_download
    BY <1>1, <1>8, DownloadSteps DEF FileFields
  <1> QED
    BY <1>2, <1>3, <1>4, <1>5, <1>6, <1>7, <1>8 DEF ParseServerMessage

LEMMA BaseClient ==
  ASSUME BaseInv, QWC_GetConsoleOutput \/ QWC_Quit
  PROVE  BaseInv'
  <1>1. /\ UNCHANGED <<topic, server>>
        /\ Alters(client, client', {"console_output", "got", "fault", "quit"})
    <2>1. CASE QWC_GetConsoleOutput
      BY <2>1, OutputStep DEF Alters
    <2>2. CASE QWC_Quit
      BY <2>2, QuitStep DEF Alters
    <2> QED
      BY <2>1, <2>2
  <1>2. /\ client'.message = client.message /\ client'.protoversion = client.protoversion
        /\ client'.parsing = client.parsing /\ IsClient(client')
        /\ client'.reliable = client.reliable
        /\ client'.buffer_position = client.buffer_position
    BY <1>1 DEF Alters, Names, Place
  <1>3. Asks(client') /\ client'.buffer_position \in Nat
    BY <1>2, AsksSame DEF BaseInv
  <1> QED
    BY <1>1, <1>2, <1>3, BaseKept

LEMMA BaseGet ==
  ASSUME BaseInv, Get_Message
  PROVE  BaseInv'
  <1> DEFINE packet == server.down[1]
  <1>1. /\ server.down # << >> /\ 1 \in DOMAIN server.down
        /\ topic' = topic /\ server' = [server EXCEPT !.down = Tail(@)]
        /\ IsClient(client') /\ client'.message = packet.message
        /\ \A x \in Names \ ({"message", "parsing", "cut", "command",
                                "incoming_sequence"} \cup Place) : client'[x] = client[x]
    BY GetStep
  <1>2. IsPacket(topic, client.protoversion, packet)
    BY <1>1 DEF BaseInv
  <1>3. Says(topic, client'.message)
    BY <1>1, <1>2, PacketSays DEF BaseInv
  <1>4. /\ client'.reliable = client.reliable /\ client'.protoversion = client.protoversion
        /\ client'.buffer_position = client.buffer_position
    BY <1>1 DEF Names, Place
  <1>5. Asks(client')
    BY <1>4, AsksSame DEF BaseInv
  <1>6. /\ DOMAIN server' = DOMAIN server /\ server'.level = server.level
        /\ server'.sent = server.sent /\ server'.block = server.block
        /\ server'.down = Tail(server.down)
    BY <1>1 DEF BaseInv
  <1>7. /\ Listed(server'.down) /\ Len(server'.down) = Len(server.down) - 1
        /\ \A i \in DOMAIN server'.down :
             i + 1 \in DOMAIN server.down /\ server'.down[i] = server.down[i + 1]
    BY <1>1, <1>6, TailIs DEF BaseInv
  <1>8. \A i \in DOMAIN server'.down : IsPacket(topic', client'.protoversion, server'.down[i])
    BY <1>1, <1>4, <1>7 DEF BaseInv
  <1>9. topic' = "any" => server'.down = << >>
    <2>1. SUFFICES ASSUME topic = "any"
                   PROVE  server'.down = << >>
      BY <1>1
    <2>2. Len(server.down) <= 1 /\ Len(server.down) \in Nat
      BY <2>1, ListedLen DEF BaseInv
    <2>3. Len(server'.down) \in Nat
      BY <1>7, ListedLen
    <2>5. Len(server'.down) = Len(server.down) - 1
      BY <1>7
    <2>6. \A x, y : x \in Nat /\ y \in Nat /\ x <= 1 /\ y = x - 1 => y = 0
      OBVIOUS
    <2>4. Len(server'.down) = 0
      BY ONLY <2>2, <2>3, <2>5, <2>6
    <2> QED
      BY <1>7, <2>4 DEF Listed
  <1>10. topic' \in Topics /\ client'.buffer_position \in Nat
    BY <1>1, <1>4 DEF BaseInv
  <1>11. topic' = "any" => /\ Len(server'.down) <= 1
                           /\ server'.down # << >> => ~client'.parsing
    <2>1. Len(<< >>) = 0
      OBVIOUS
    <2> QED
      BY <1>9, <2>1
  <1>12. /\ DOMAIN server' = {"level", "entered", "down", "sent", "file", "block", "entities"}
         /\ server'.level \in Nat /\ server'.sent \in Nat /\ server'.block \in Nat
    BY <1>6 DEF BaseInv
  <1>13. Says(topic', client'.message)
    BY <1>1, <1>3
  <1> QED
    BY <1>1, <1>5, <1>7, <1>8, <1>10, <1>11, <1>12, <1>13 DEF BaseInv
\* What the server sends by itself.
LEMMA UnaskedAre ==
  ASSUME BaseInv, NEW p \in Unasked
  PROVE  IsPacket(topic, client.protoversion, p)
  <1>1. CASE topic = "any"
    <2>1. p \in AnyPackets
      BY <1>1 DEF Unasked, Topics
    <2> QED
      BY <1>1, <2>1, AnyPacketsAre
  <1>2. CASE topic = "print"
    <2>1. PICK t \in PrintTexts(server.sent + 1) :
            p = Packet(<<Svc("print"), Field("byte", 0), Text(t)>>)
      BY <1>2 DEF Unasked
    <2>2. server.sent + 1 \in Nat
      BY DEF BaseInv
    <2> QED
      BY <1>2, <2>1, <2>2, PrintPackets
  <1>3. CASE topic = "download"
    <2> DEFINE text == [verb |-> "download", file |-> server.sent + 1]
    <2>1. p = Packet(Stuff(text))
      BY <1>3 DEF Unasked
    <2>2. IsText(text)
      BY DEF IsText
    <2> HIDE DEF text
    <2>3. IsCommand(Stuff(text), client.protoversion) /\ Stuff(text)[1][2] = "stufftext"
      BY <2>2, StuffIs
    <2>4. "stufftext" \in Heads("download")
      BY DEF Heads
    <2> QED
      BY <1>3, <2>1, <2>3, <2>4, OnePacket
  <1>4. CASE topic = "entities"
    <2>1. PICK c \in EntityPackets : p = Packet(c)
      BY <1>4 DEF Unasked
    <2> QED
      BY <1>4, <2>1, EntityPacketsAre
  <1>5. CASE topic = "signon"
    BY <1>5 DEF Unasked
  <1> QED
    BY <1>1, <1>2, <1>3, <1>4, <1>5 DEF BaseInv, Topics

\* What a step of the server leaves as it is.
LEMMA BaseServer ==
  ASSUME BaseInv, topic' = topic,
         Alters(client, client', {"reliable"}), Asks(client'), client'.msg_readcount = client.msg_readcount,
         DOMAIN server' = DOMAIN server,
         server'.level \in Nat, server'.sent \in Nat, server'.block \in Nat,
         PacketsFit(server'.down, client.protoversion),
         topic = "any" => server'.down = server.down
                          \/ (Len(server'.down) <= 1 /\ ~client.parsing)
  PROVE  BaseInv'
  <1>1. /\ client'.message = client.message /\ client'.protoversion = client.protoversion
        /\ client'.parsing = client.parsing /\ IsClient(client')
        /\ client'.buffer_position = client.buffer_position
    BY DEF Alters, Names, Place
  <1>2. /\ Listed(server'.down)
        /\ \A i \in DOMAIN server'.down : IsPacket(topic', client'.protoversion, server'.down[i])
    BY <1>1 DEF PacketsFit
  <1>3. topic' = "any" => /\ Len(server'.down) <= 1
                          /\ server'.down # << >> => ~client'.parsing
    <2>1. CASE server'.down = server.down
      BY <1>1, <2>1 DEF BaseInv
    <2>2. CASE server'.down # server.down
      BY <1>1, <2>2
    <2> QED
      BY <2>1, <2>2
  <1>4. /\ topic' \in Topics /\ Says(topic', client'.message)
        /\ client'.buffer_position \in Nat
        /\ DOMAIN server' = {"level", "entered", "down", "sent", "file", "block", "entities"}
    BY <1>1 DEF BaseInv
  <1> QED
    BY <1>1, <1>2, <1>3, <1>4 DEF BaseInv

LEMMA ClientSame ==
  ASSUME BaseInv, UNCHANGED client
  PROVE  /\ Alters(client, client', {"reliable"}) /\ Asks(client')
         /\ client'.msg_readcount = client.msg_readcount
  BY DEF BaseInv, Alters

LEMMA BaseSend ==
  ASSUME BaseInv, Send
  PROVE  BaseInv'
  <1>1. PICK p \in Unasked :
          /\ server' = [server EXCEPT !.down = Append(server.down, p), !.sent = server.sent + 1,
                                      !.entities = Append(server.entities, EntitiesIn(p.message))]
          /\ UNCHANGED <<topic, client>>
          /\ topic = "download" \/ (server.down = << >> /\ ~client.parsing)
    BY DEF Send
  <1>2. IsPacket(topic, client.protoversion, p)
    BY <1>1, UnaskedAre
  <1>3. PacketsFit(server.down, client.protoversion)
    BY DEF BaseInv, PacketsFit
  <1>4. /\ DOMAIN server' = DOMAIN server /\ server'.level = server.level
        /\ server'.sent = server.sent + 1 /\ server'.block = server.block
        /\ server'.down = Append(server.down, p)
    BY <1>1 DEF BaseInv
  <1>5. PacketsFit(server'.down, client.protoversion)
    BY <1>2, <1>3, <1>4, PacketAdded
  <1>6. server'.level \in Nat /\ server'.sent \in Nat /\ server'.block \in Nat
    BY <1>4 DEF BaseInv
  <1>7. topic = "any" => Len(server'.down) <= 1 /\ ~client.parsing
    <2>1. ASSUME server.down = << >>
          PROVE  Len(server'.down) = 1
      BY <1>4, <2>1
    <2> QED
      BY <1>1, <2>1
  <1>8. /\ Alters(client, client', {"reliable"}) /\ Asks(client')
        /\ client'.msg_readcount = client.msg_readcount
    BY <1>1, ClientSame
  <1> QED
    BY <1>1, <1>4, <1>5, <1>6, <1>7, <1>8, BaseServer

\* A message is added to those on their way, unless it is empty.
LEMMA AnsweredIs ==
  ASSUME NEW s, DOMAIN s = DOMAIN server, BaseInv, NEW fields
  PROVE  LET t == Answered(s, fields)
         IN  /\ DOMAIN t = DOMAIN server
             /\ \A x \in DOMAIN server \ {"down"} : t[x] = s[x]
             /\ t.down = IF fields = << >> THEN s.down ELSE Append(s.down, Packet(fields))
  BY DEF Answered, BaseInv

LEMMA BaseChangeLevel ==
  ASSUME BaseInv, ChangeLevel
  PROVE  BaseInv'
  <1> DEFINE text == [verb |-> "reconnect"]
             a == Answered(server, Stuff(text))
  <1>1. /\ topic = "signon" /\ UNCHANGED <<topic, client>>
        /\ server' = [a EXCEPT !.level = @ + 1]
    BY DEF ChangeLevel
  <1>2. IsText(text)
    BY DEF IsText
  <1> HIDE DEF text
  <1>3. IsCommand(Stuff(text), client.protoversion) /\ Stuff(text)[1][2] = "stufftext"
    BY <1>2, StuffIs
  <1>4. "stufftext" \in Heads("signon")
    BY DEF Heads
  <1>5. IsPacket(topic, client.protoversion, Packet(Stuff(text)))
    BY <1>1, <1>3, <1>4, OnePacket
  <1>6. /\ DOMAIN a = DOMAIN server
        /\ \A x \in DOMAIN server \ {"down"} : a[x] = server[x]
        /\ a.down = IF Stuff(text) = << >> THEN server.down
                    ELSE Append(server.down, Packet(Stuff(text)))
    BY AnsweredIs
  <1> HIDE DEF a
  <1>7. PacketsFit(server.down, client.protoversion)
    BY DEF BaseInv, PacketsFit
  <1>8. PacketsFit(a.down, client.protoversion)
    BY <1>5, <1>6, <1>7, PacketAdded
  <1>9. /\ DOMAIN server' = DOMAIN server /\ server'.down = a.down
        /\ server'.level = server.level + 1 /\ server'.sent = server.sent
        /\ server'.block = server.block
    BY <1>1, <1>6 DEF BaseInv
  <1>10. server'.level \in Nat /\ server'.sent \in Nat /\ server'.block \in Nat
    BY <1>9 DEF BaseInv
  <1>11. /\ Alters(client, client', {"reliable"}) /\ Asks(client')
         /\ client'.msg_readcount = client.msg_readcount
    BY <1>1, ClientSame
  <1>12. PacketsFit(server'.down, client.protoversion)
    BY <1>8, <1>9
  <1>13. topic # "any"
    BY <1>1
  <1> QED
    BY <1>1, <1>9, <1>10, <1>11, <1>12, <1>13, BaseServer

\* The client's next string leaves its queue.
LEMMA AskedIs ==
  ASSUME BaseInv, client.reliable # << >>,
         client' = [client EXCEPT !.reliable = Tail(@)]
  PROVE  /\ IsRequest(Head(client.reliable)) /\ Head(client.reliable) = client.reliable[1]
         /\ client'.reliable = Tail(client.reliable)
         /\ Alters(client, client', {"reliable"}) /\ Asks(client')
         /\ client'.msg_readcount = client.msg_readcount
  <1>1. IsClient(client) /\ Asks(client)
    BY DEF BaseInv
  <1>2. client'.reliable = Tail(client.reliable) /\ client'.msg_readcount = client.msg_readcount
    BY <1>1 DEF IsClient, Names
  <1>3. Changes(client, client', {"reliable"})
    BY <1>1, AssignedChanges
  <1>4. Alters(client, client', {"reliable"})
    BY <1>3, ChangesAlters
  <1>5. Listed(client.reliable) /\ \A i \in DOMAIN client.reliable : IsRequest(client.reliable[i])
    BY <1>1 DEF Asks
  <1>6. /\ Listed(client'.reliable)
        /\ \A i \in DOMAIN client'.reliable :
             i + 1 \in DOMAIN client.reliable /\ client'.reliable[i] = client.reliable[i + 1]
        /\ 1 \in DOMAIN client.reliable /\ Head(client.reliable) = client.reliable[1]
    BY <1>2, <1>5, TailIs
  <1>7. Asks(client')
    BY <1>5, <1>6 DEF Asks
  <1> QED
    BY <1>2, <1>4, <1>5, <1>6, <1>7

LEMMA BaseAnswer ==
  ASSUME BaseInv, Answer
  PROVE  BaseInv'
  <1> DEFINE q == Head(client.reliable)
             found == [server EXCEPT !.file = q.file, !.block = 1]
             missing == [server EXCEPT !.file = q.file, !.block = Blocks + 1]
             more == [server EXCEPT !.block = @ + 1]
  <1>1. /\ client.reliable # << >> /\ topic \in {"signon", "download"} /\ topic' = topic
        /\ client' = [client EXCEPT !.reliable = Tail(@)]
    BY DEF Answer
  <1>2. \/ /\ topic = "signon"
           /\ server' = [Answered(server, SignOnReply(server, q)) EXCEPT
                           !.entered = @ \/ (q.name = "begin"
                                             /\ q.servercount = server.level)]
        \/ /\ topic = "download" /\ q.name = "download"
           /\ \E s \in {found, missing}, no \in {0, 50} :
                server' = Answered(s, DownloadReply(s, no))
        \/ /\ topic = "download" /\ q.name = "nextdl" /\ server.block \in 1 .. Blocks - 1
           /\ server' = Answered(more, DownloadReply(more, 0))
        \/ /\ topic = "download" /\ q.name # "download"
           /\ ~(q.name = "nextdl" /\ server.block \in 1 .. Blocks - 1)
           /\ UNCHANGED server
    BY DEF Answer
  <1>3. /\ IsRequest(q) /\ Alters(client, client', {"reliable"}) /\ Asks(client')
        /\ client'.msg_readcount = client.msg_readcount
    BY <1>1, AskedIs
  <1>4. PacketsFit(server.down, client.protoversion)
    BY DEF BaseInv, PacketsFit
  <1>5. /\ server.level \in Nat /\ server.sent \in Nat /\ server.block \in Nat
        /\ DOMAIN server = {"level", "entered", "down", "sent", "file", "block", "entities"}
    BY DEF BaseInv
  <1>6. SUFFICES /\ DOMAIN server' = DOMAIN server
                 /\ server'.level \in Nat /\ server'.sent \in Nat /\ server'.block \in Nat
                 /\ PacketsFit(server'.down, client.protoversion)
    BY <1>1, <1>3, BaseServer
  <1>7. ASSUME topic = "signon"
        PROVE  /\ DOMAIN server' = DOMAIN server
               /\ server'.level \in Nat /\ server'.sent \in Nat /\ server'.block \in Nat
               /\ PacketsFit(server'.down, client.protoversion)
    <2> DEFINE fields == SignOnReply(server, q)
               a == Answered(server, fields)
               in == a.entered \/ (q.name = "begin" /\ q.servercount = server.level)
    <2>1. server' = [a EXCEPT !.entered = in]
      BY <1>2, <1>7
    <2>2. fields = << >> \/ IsPacket("signon", client.protoversion, Packet(fields))
      BY <1>3, <1>5, SignOnPackets
    <2> HIDE DEF fields
    <2>3. /\ DOMAIN a = DOMAIN server
          /\ \A x \in DOMAIN server \ {"down"} : a[x] = server[x]
          /\ a.down = IF fields = << >> THEN server.down ELSE Append(server.down, Packet(fields))
      BY AnsweredIs
    <2> HIDE DEF a, in
    <2>4. PacketsFit(a.down, client.protoversion)
      <3>1. CASE fields = << >>
        BY <1>4, <2>3, <3>1
      <3>2. CASE fields # << >>
        <4>1. IsPacket(topic, client.protoversion, Packet(fields))
          BY <1>7, <2>2, <3>2
        <4> QED
          BY <1>4, <2>3, <3>2, <4>1, PacketAdded
      <3> QED
        BY <3>1, <3>2
    <2>5. /\ DOMAIN server' = DOMAIN server /\ server'.down = a.down
          /\ server'.level = server.level /\ server'.sent = server.sent
          /\ server'.block = server.block
      BY <1>5, <2>1, <2>3
    <2> QED
      BY <1>5, <2>4, <2>5
  <1>8. ASSUME topic = "download", NEW s, NEW no \in {0, 50},
               DOMAIN s = DOMAIN server, s.down = server.down, s.level = server.level,
               s.sent = server.sent, s.block \in Nat, server' = Answered(s, DownloadReply(s, no))
        PROVE  /\ DOMAIN server' = DOMAIN server
               /\ server'.level \in Nat /\ server'.sent \in Nat /\ server'.block \in Nat
               /\ PacketsFit(server'.down, client.protoversion)
    <2> DEFINE fields == DownloadReply(s, no)
    <2>1. IsPacket(topic, client.protoversion, Packet(fields))
      BY <1>8, DownloadPackets
    <2> HIDE DEF fields
    <2>2. /\ DOMAIN server' = DOMAIN server
          /\ \A x \in DOMAIN server \ {"down"} : server'[x] = s[x]
          /\ server'.down = IF fields = << >> THEN s.down ELSE Append(s.down, Packet(fields))
      BY <1>8, AnsweredIs DEF fields
    <2>3. PacketsFit(Append(server.down, Packet(fields)), client.protoversion)
      BY <1>4, <2>1, PacketAdded
    <2>4. PacketsFit(server'.down, client.protoversion)
      BY <1>4, <1>8, <2>2, <2>3
    <2>5. server'.level = s.level /\ server'.sent = s.sent /\ server'.block = s.block
      BY <1>5, <2>2
    <2> QED
      BY <1>5, <1>8, <2>2, <2>4, <2>5
  <1>9. CASE topic = "download"
    <2>1. CASE q.name = "download"
      <3>1. PICK s \in {found, missing}, no \in {0, 50} :
                   server' = Answered(s, DownloadReply(s, no))
        BY <1>2, <1>9, <2>1
      <3>2. /\ DOMAIN s = DOMAIN server /\ s.down = server.down /\ s.level = server.level
            /\ s.sent = server.sent /\ s.block \in Nat
        <4>1. Blocks + 1 \in Nat
          BY ServerMessageAssumption
        <4>2. /\ DOMAIN found = DOMAIN server /\ found.down = server.down
              /\ found.level = server.level /\ found.sent = server.sent /\ found.block = 1
          BY <1>5
        <4>3. /\ DOMAIN missing = DOMAIN server /\ missing.down = server.down
              /\ missing.level = server.level /\ missing.sent = server.sent
              /\ missing.block = Blocks + 1
          BY <1>5
        <4> HIDE DEF found, missing
        <4> QED
          BY <3>1, <4>1, <4>2, <4>3
      <3> QED
        BY <1>8, <1>9, <3>1, <3>2
    <2>2. CASE q.name = "nextdl" /\ server.block \in 1 .. Blocks - 1
      <3>1. server' = Answered(more, DownloadReply(more, 0))
        BY <1>2, <1>9, <2>2
      <3>2. /\ DOMAIN more = DOMAIN server /\ more.down = server.down
            /\ more.level = server.level
            /\ more.sent = server.sent /\ more.block \in Nat /\ 0 \in {0, 50}
        BY <1>5
      <3> HIDE DEF more
      <3> QED
        BY <1>8, <1>9, <3>1, <3>2
    <2>3. CASE q.name # "download" /\ ~(q.name = "nextdl" /\ server.block \in 1 .. Blocks - 1)
      <3>1. server' = server
        BY <1>2, <1>9, <2>3
      <3> QED
        BY <1>4, <1>5, <3>1
    <2> QED
      BY <2>1, <2>2, <2>3
  <1> QED
    BY <1>1, <1>7, <1>9

\* What the theorems below rest on: every byte the client reads is one that a server may send
\* in its place, every packet on its way is a beginning of commands of its topic, and every
\* request is one its server knows (ParseServerMessage and the parsers it calls).
THEOREM BaseAlways == Spec => []BaseInv
  <1>1. BaseInv /\ [Next]_vars => BaseInv'
    <2> SUFFICES ASSUME BaseInv, [Next]_vars
                 PROVE  BaseInv'
      OBVIOUS
    <2>1. CASE UNCHANGED vars
      BY <2>1, ClientSame DEF vars, BaseInv
    <2>2. CASE Next
      BY <2>2, BaseParse, BaseClient, BaseGet, BaseSend, BaseChangeLevel, BaseAnswer DEF Next
    <2> QED
      BY <2>1, <2>2
  <1> QED
    BY <1>1, BaseInit, PTL DEF Spec

-----------------------------------------------------------------------------
(* The lines for the application. *)

\* FlattenSeq of sequences that are all empty.
LEMMA FlattenEmpties ==
  ASSUME NEW V, NEW seqs \in Seq(Seq(V)), \A i \in DOMAIN seqs : seqs[i] = << >>
  PROVE  FlattenSeq(seqs) = << >>
  <1>1. CASE Len(seqs) = 0
    <2>1. seqs = << >>
      BY <1>1, EmptySeq
    <2> QED
      BY <2>1, FlattenNone
  <1>2. CASE Len(seqs) # 0
    <2>1. PICK f : /\ f[1] = seqs[1]
                   /\ \A n \in 2 .. Len(seqs) : f[n] = f[n - 1] \o seqs[n]
                   /\ FlattenSeq(seqs) = f[Len(seqs)]
      BY <1>2, FlattenRecursion
    <2> DEFINE S == {n \in Nat : n \in 1 .. Len(seqs) => f[n] = << >>}
    <2>2. 0 \in S
      OBVIOUS
    <2>3. ASSUME NEW n \in Nat, n \in S
          PROVE  n + 1 \in S
      <3>1. SUFFICES ASSUME n + 1 \in 1 .. Len(seqs)
                     PROVE  f[n + 1] = << >>
        OBVIOUS
      <3>2. seqs[n + 1] = << >>
        BY <3>1
      <3>3. CASE n = 0
        BY <2>1, <3>2, <3>3
      <3>4. CASE n # 0
        <4>0. n + 1 \in 2 .. Len(seqs) /\ (n + 1) - 1 = n /\ n \in 1 .. Len(seqs)
          BY <3>1, <3>4
        <4>1. f[n + 1] = f[n] \o seqs[n + 1]
          BY <2>1, <4>0
        <4>2. f[n] = << >>
          BY <2>3, <4>0
        <4>3. << >> \o << >> = << >>
          OBVIOUS
        <4> QED
          BY <3>2, <4>1, <4>2, <4>3
      <3> QED
        BY <3>3, <3>4
    <2> HIDE DEF S
    <2>4. \A n \in Nat : n \in S
      BY ONLY <2>2, <2>3, Induction, Zenon
    <2> QED
      BY <1>2, <2>1, <2>4 DEF S
  <1> QED
    BY <1>1, <1>2

\* FlattenSeq when one sequence is cleared that has only empty ones before it.
LEMMA FlattenFirst ==
  ASSUME NEW V, NEW p \in Seq(Seq(V)), NEW s \in DOMAIN p,
         \A i \in 1 .. s - 1 : p[i] = << >>
  PROVE  FlattenSeq(p) = p[s] \o FlattenSeq([p EXCEPT ![s] = << >>])
  <1> DEFINE a == SubSeq(p, 1, s - 1)
             b == SubSeq(p, s + 1, Len(p))
             x == p[s]
             z == << >>
             q == [p EXCEPT ![s] = z]
  <1>1. s \in 1 .. Len(p) /\ Len(p) \in Nat /\ x \in Seq(V) /\ z \in Seq(V)
    OBVIOUS
  <1>2. a \in Seq(Seq(V)) /\ Len(a) = s - 1 /\ \A i \in 1 .. s - 1 : a[i] = p[i]
    BY <1>1
  <1>3. b \in Seq(Seq(V)) /\ Len(b) = Len(p) - s /\ \A i \in 1 .. Len(p) - s : b[i] = p[s + i]
    <2>1. Len(p) - s \in Nat /\ \A i \in 1 .. Len(p) - s : s + i \in 1 .. Len(p)
      BY <1>1
    <2>2. \A i \in 1 .. Len(p) - s : p[s + i] \in Seq(V)
      BY <2>1
    <2> QED
      BY <2>1, <2>2
  <1>4. q \in Seq(Seq(V)) /\ Len(q) = Len(p) /\ q[s] = z
        /\ \A i \in 1 .. Len(p) : i # s => q[i] = p[i]
    BY <1>1
  <1> HIDE DEF a, b, q, z, x
  <1>5. FlattenSeq(a) = << >>
    <2>1. DOMAIN a = 1 .. Len(a)
      BY <1>2
    <2>2. DOMAIN a = 1 .. s - 1
      BY <1>2, <2>1
    <2>3. \A i \in DOMAIN a : a[i] = << >>
      BY <1>2, <2>2
    <2> QED
      BY <1>2, <2>3, FlattenEmpties
  <1>6. ASSUME NEW t \in Seq(Seq(V)), Len(t) = Len(p),
               \A i \in 1 .. Len(p) : i # s => t[i] = p[i]
        PROVE  FlattenSeq(t) = t[s] \o FlattenSeq(b)
    <2> DEFINE o == <<t[s]>>
               ao == a \o o
    <2>1. t[s] \in Seq(V)
      BY <1>1, <1>6
    <2>2. o \in Seq(Seq(V)) /\ Len(o) = 1 /\ o[1] = t[s]
      BY <2>1
    <2> HIDE DEF o
    <2>3. /\ ao \in Seq(Seq(V)) /\ Len(ao) = s
          /\ \A i \in 1 .. s - 1 : ao[i] = a[i]
          /\ ao[s] = t[s]
      <3> DEFINE W == Seq(V)
      <3>0. a \in Seq(W) /\ o \in Seq(W)
        BY <1>2, <2>2
      <3> HIDE DEF W
      <3>1. ao \in Seq(W) /\ Len(ao) = Len(a) + Len(o)
        BY <3>0
      <3>2. \A i \in 1 .. Len(a) : ao[i] = a[i]
        BY <3>0
      <3>5. Len(o) = 1 /\ Len(a) \in Nat
        BY <2>2, <3>0
      <3>7. \A i \in 1 .. Len(o) : ao[Len(a) + i] = o[i]
        BY <3>0
      <3>3. ao[Len(a) + 1] = o[1]
        <4>1. 1 \in 1 .. Len(o)
          BY <3>5
        <4> QED
          BY <3>7, <4>1, Zenon
      <3>6. ao \in Seq(Seq(V))
        BY <3>1 DEF W
      <3>4. Len(a) + 1 = s /\ Len(a) + Len(o) = s
        BY <1>1, <1>2, <2>2
      <3> QED
        BY <1>2, <2>2, <3>1, <3>2, <3>3, <3>4, <3>6
    <2> HIDE DEF ao
    <2>4. /\ t = [i \in 1 .. Len(ao) + Len(b) |-> t[i]]
          /\ \A i \in 1 .. Len(ao) : t[i] = ao[i]
          /\ \A i \in 1 .. Len(b) : t[Len(ao) + i] = b[i]
      <3>1. Len(ao) + Len(b) = Len(p)
        <4>1. Len(ao) = s /\ Len(b) = Len(p) - s
          BY <1>3, <2>3
        <4>2. s \in Nat /\ Len(p) \in Nat
          BY <1>1
        <4>3. s + (Len(p) - s) = Len(p)
          BY ONLY <4>2
        <4>4. Len(ao) + Len(b) = s + (Len(p) - s)
          BY ONLY <4>1, Zenon
        <4> QED
          BY ONLY <4>3, <4>4, Zenon
      <3>2. t = [i \in 1 .. Len(t) |-> t[i]]
        BY <1>6
      <3>3. \A i \in 1 .. s : t[i] = ao[i]
        <4>1. \A i \in 1 .. s : i \in 1 .. Len(p) /\ (i = s \/ i \in 1 .. s - 1)
          BY <1>1
        <4>2. \A i \in 1 .. s - 1 : i \in 1 .. Len(p) /\ i # s
          BY <1>1
        <4>3. \A i \in 1 .. s - 1 : t[i] = p[i]
          BY <1>6, <4>2
        <4>4. \A i \in 1 .. s - 1 : ao[i] = p[i]
          BY <1>2, <2>3
        <4>5. ao[s] = t[s]
          BY <2>3
        <4> QED
          BY <4>1, <4>3, <4>4, <4>5
      <3>4. \A i \in 1 .. Len(p) - s : s + i \in 1 .. Len(p) /\ s + i # s
        BY <1>1
      <3>5. \A i \in 1 .. Len(p) - s : t[s + i] = b[i]
        BY <1>3, <1>6, <3>4
      <3> QED
        BY <1>3, <1>6, <2>3, <3>1, <3>2, <3>3, <3>5
    <2>5. t = ao \o b
      BY ONLY <1>3, <2>3, <2>4, JoinIs
    <2>6. FlattenSeq(t) = FlattenSeq(ao) \o FlattenSeq(b)
      BY <1>3, <2>3, <2>5, FlattenConcat
    <2>7. FlattenSeq(ao) = FlattenSeq(a) \o FlattenSeq(o)
      BY <1>2, <2>2, FlattenConcat DEF ao
    <2>8. FlattenSeq(o) = t[s]
      BY <2>1, FlattenOne DEF o
    <2>9. << >> \o t[s] = t[s]
      BY <2>1
    <2> QED
      BY <1>5, <2>6, <2>7, <2>8, <2>9
  <1>7. FlattenSeq(p) = x \o FlattenSeq(b)
    BY <1>6 DEF x
  <1>8. FlattenSeq(q) = z \o FlattenSeq(b)
    BY <1>4, <1>6
  <1>9. z \o FlattenSeq(b) = FlattenSeq(b)
    <2>1. FlattenSeq(b) \in Seq(V)
      BY <1>3, FlattenType
    <2> QED
      BY <2>1 DEF z
  <1> QED
    BY <1>7, <1>8, <1>9 DEF x, q, z

Line == [string : Seq(Nat), done : BOOLEAN]
\* What Left puts together.
Pieces(lines) ==
  [i \in DOMAIN lines |-> IF lines[i].done THEN << >> ELSE lines[i].string]

LEMMA PiecesType ==
  ASSUME NEW lines \in Seq(Line)
  PROVE  /\ Pieces(lines) \in Seq(Seq(Nat)) /\ Len(Pieces(lines)) = Len(lines)
         /\ Left(lines) = FlattenSeq(Pieces(lines)) /\ Left(lines) \in Seq(Nat)
  <1>1. Pieces(lines) \in Seq(Seq(Nat)) /\ Len(Pieces(lines)) = Len(lines)
    <2>1. \A i \in DOMAIN lines : lines[i] \in Line
      OBVIOUS
    <2>2. \A i \in DOMAIN lines : lines[i].string \in Seq(Nat)
      BY <2>1 DEF Line
    <2>3. DOMAIN lines = 1 .. Len(lines) /\ Len(lines) \in Nat
      OBVIOUS
    <2> DEFINE V == Seq(Nat)
    <2>4. << >> \in V /\ \A i \in 1 .. Len(lines) : lines[i].string \in V
      BY <2>2, <2>3
    <2> HIDE DEF V
    <2>5. Pieces(lines) = [i \in 1 .. Len(lines) |-> IF lines[i].done THEN << >> ELSE lines[i].string]
      BY <2>3 DEF Pieces
    <2>6. \A i \in 1 .. Len(lines) : (IF lines[i].done THEN << >> ELSE lines[i].string) \in V
      BY <2>4
    <2>7. Pieces(lines) \in Seq(V) /\ Len(Pieces(lines)) = Len(lines)
      BY <2>3, <2>5, <2>6
    <2> QED
      BY <2>7 DEF V
  <1>2. Left(lines) = FlattenSeq(Pieces(lines))
    BY DEF Left, Pieces
  <1> QED
    BY <1>1, <1>2, FlattenType

LEMMA LeftNone == Left(<< >>) = << >>
  <1>1. Pieces(<< >>) = << >>
    BY DEF Pieces
  <1> QED
    BY <1>1, FlattenNone DEF Left, Pieces

\* One line more.
LEMMA LeftMore ==
  ASSUME NEW lines \in Seq(Line), NEW s \in Seq(Nat)
  PROVE  /\ Append(lines, [string |-> s, done |-> FALSE]) \in Seq(Line)
         /\ Left(Append(lines, [string |-> s, done |-> FALSE])) = Left(lines) \o s
  <1> DEFINE line == [string |-> s, done |-> FALSE]
             more == Append(lines, line)
             p == Pieces(lines)
             q == Pieces(more)
             r == Append(p, s)
  <1>1. line \in Line /\ line.string = s /\ line.done = FALSE
    BY DEF Line
  <1> HIDE DEF line
  <1>2. /\ more \in Seq(Line) /\ Len(more) = Len(lines) + 1 /\ Len(lines) \in Nat
        /\ more[Len(lines) + 1] = line
        /\ \A i \in 1 .. Len(lines) : more[i] = lines[i]
    BY <1>1
  <1> HIDE DEF more
  <1>3. p \in Seq(Seq(Nat)) /\ Len(p) = Len(lines) /\ q \in Seq(Seq(Nat)) /\ Len(q) = Len(lines) + 1
    BY <1>2, PiecesType
  <1>4. r \in Seq(Seq(Nat)) /\ Len(r) = Len(lines) + 1 /\ r[Len(lines) + 1] = s
        /\ \A i \in 1 .. Len(lines) : r[i] = p[i]
    <2> HIDE DEF p
    <2> QED
      BY <1>2, <1>3
  <1>5. ASSUME NEW i \in 1 .. Len(lines) + 1
        PROVE  q[i] = r[i]
    <2> HIDE DEF r
    <2>1. CASE i = Len(lines) + 1
      <3>1. more[i] = line /\ i \in DOMAIN more
        BY <1>2, <2>1
      <3>2. q[i] = s
        BY <1>1, <3>1 DEF Pieces
      <3> QED
        BY <1>4, <2>1, <3>2
    <2>2. CASE i \in 1 .. Len(lines)
      <3>1. more[i] = lines[i] /\ i \in DOMAIN more /\ i \in DOMAIN lines
        BY <1>2, <2>2
      <3>2. q[i] = p[i]
        BY <3>1 DEF Pieces
      <3> QED
        BY <1>4, <2>2, <3>2
    <2> QED
      BY <1>2, <2>1, <2>2
  <1>6. q = r
    <2> HIDE DEF p, q, r
    <2> QED
      BY <1>3, <1>4, <1>5
  <1>7. FlattenSeq(r) = FlattenSeq(p) \o s
    BY <1>3, FlattenAppend
  <1>8. Left(more) = Left(lines) \o s
    BY <1>2, <1>6, <1>7, PiecesType
  <1> QED
    BY <1>2, <1>8 DEF more, line

\* The first line that was not handed out is handed out.
LEMMA LeftFirst ==
  ASSUME NEW lines \in Seq(Line), NEW s,
         LET new == {i \in DOMAIN lines : ~lines[i].done}
         IN  new # {} /\ s = (CHOOSE i \in new : \A j \in new : i <= j)
  PROVE  /\ [lines EXCEPT ![s].done = TRUE] \in Seq(Line)
         /\ lines[s].string \in Seq(Nat)
         /\ Left(lines) = lines[s].string \o Left([lines EXCEPT ![s].done = TRUE])
  <1> DEFINE new == {i \in DOMAIN lines : ~lines[i].done}
             less == [lines EXCEPT ![s].done = TRUE]
             p == Pieces(lines)
             q == Pieces(less)
             r == [p EXCEPT ![s] = << >>]
  <1>1. new \in SUBSET Nat /\ new # {}
    BY SMTT(20)
  <1>2. \E i \in new : \A j \in new : i <= j
    BY <1>1, Least
  <1>3. s \in new /\ \A j \in new : s <= j
    BY <1>2
  <1>4. s \in DOMAIN lines /\ ~lines[s].done /\ s \in 1 .. Len(lines) /\ Len(lines) \in Nat
    BY <1>3
  <1>5. \A i \in 1 .. s - 1 : lines[i].done
    <2> SUFFICES ASSUME NEW i \in 1 .. s - 1, ~lines[i].done
                 PROVE  FALSE
      OBVIOUS
    <2>1. i \in DOMAIN lines /\ ~(s <= i)
      BY <1>4
    <2>2. i \in new
      BY <2>1
    <2> QED
      BY <1>3, <2>1, <2>2
  <1>0. \A i \in DOMAIN lines : lines[i] \in Line
    OBVIOUS
  <1>6. /\ less \in Seq(Line) /\ Len(less) = Len(lines) /\ less[s].done = TRUE
        /\ \A i \in 1 .. Len(lines) : i # s => less[i] = lines[i]
    <2> DEFINE line == [lines[s] EXCEPT !.done = TRUE]
    <2>1. line \in Line /\ line.done = TRUE
      BY <1>0, <1>4 DEF Line
    <2>2. less = [lines EXCEPT ![s] = line]
      OBVIOUS
    <2> HIDE DEF line, less
    <2>3. less \in Seq(Line) /\ Len(less) = Len(lines) /\ less[s] = line
      BY <1>4, <2>1, <2>2
    <2>4. \A i \in 1 .. Len(lines) : i # s => less[i] = lines[i]
      BY <1>4, <2>1, <2>2
    <2> QED
      BY <2>1, <2>3, <2>4
  <1> HIDE DEF less, new
  <1>7. p \in Seq(Seq(Nat)) /\ Len(p) = Len(lines) /\ q \in Seq(Seq(Nat)) /\ Len(q) = Len(lines)
    BY <1>6, PiecesType
  <1>8. ASSUME NEW i \in 1 .. Len(lines)
        PROVE  q[i] = IF i = s THEN << >> ELSE p[i]
    <2>1. i \in DOMAIN less /\ i \in DOMAIN lines
      BY <1>6
    <2> QED
      BY <1>6, <2>1 DEF Pieces
  <1>9. p[s] = lines[s].string /\ \A i \in 1 .. s - 1 : p[i] = << >>
    <2>1. p[s] = lines[s].string
      BY <1>4 DEF Pieces
    <2>2. \A i \in 1 .. s - 1 : i \in DOMAIN lines
      BY <1>4
    <2>3. \A i \in 1 .. s - 1 : p[i] = << >>
      BY <1>5, <2>2 DEF Pieces
    <2> QED
      BY <2>1, <2>3
  <1> HIDE DEF p, q
  <1>10. q = r
    <2> DEFINE W == Seq(Nat)
    <2>1. p \in Seq(W) /\ q \in Seq(W) /\ Len(q) = Len(p) /\ Len(p) = Len(lines)
      BY <1>7
    <2> HIDE DEF W
    <2>2. p = [i \in 1 .. Len(p) |-> p[i]] /\ q = [i \in 1 .. Len(p) |-> q[i]]
      BY <2>1
    <2>3. r = [i \in 1 .. Len(p) |-> IF i = s THEN << >> ELSE p[i]]
      BY <2>2
    <2> HIDE DEF r
    <2> QED
      BY <1>8, <2>1, <2>2, <2>3
  <1>11. s \in DOMAIN p
    BY <1>4, <1>7
  <1>12. FlattenSeq(p) = p[s] \o FlattenSeq(r)
    BY <1>7, <1>9, <1>11, FlattenFirst
  <1>13. Left(lines) = FlattenSeq(p) /\ Left(less) = FlattenSeq(q)
    BY <1>6, PiecesType DEF p, q
  <1>14. lines[s].string \in Seq(Nat)
    BY <1>0, <1>4 DEF Line
  <1> QED
    BY <1>6, <1>9, <1>10, <1>12, <1>13, <1>14 DEF less

-----------------------------------------------------------------------------
(* What is printed arrives. *)

LinesInv ==
  /\ client.printed \in Seq(Nat) /\ client.got \in Seq(Nat) /\ client.buffer \in Seq(Nat)
  /\ client.console_output \in Seq(Line) /\ client.long \in BOOLEAN
  /\ client.save_console_output /\ ~client.long =>
       client.got \o Left(client.console_output) \o client.buffer = client.printed
  /\ ~client.long => client.buffer_position <= BufferSize
  /\ client.fault = "overflow" => client.long
  /\ client.fault = "freed line" => client.quit

\* A step that leaves the lines as they are.
LEMMA LinesKept ==
  ASSUME BaseInv, LinesInv,
         \A x \in {"printed", "got", "buffer", "buffer_position", "console_output", "long",
                   "save_console_output", "quit"} : client'[x] = client[x],
         client'.fault \in {"overflow", "freed line"} => client'.fault = client.fault
  PROVE  LinesInv'
  <1>1. /\ client'.printed = client.printed /\ client'.got = client.got
        /\ client'.buffer = client.buffer /\ client'.console_output = client.console_output
        /\ client'.long = client.long /\ client'.quit = client.quit
        /\ client'.buffer_position = client.buffer_position
        /\ client'.save_console_output = client.save_console_output
    OBVIOUS
  <1>2. Left(client'.console_output) = Left(client.console_output)
    BY <1>1
  <1> QED
    BY <1>1, <1>2 DEF LinesInv

LEMMA LinesInit == Init => LinesInv
  <1> SUFFICES ASSUME Init
               PROVE  LinesInv
    OBVIOUS
  <1>1. /\ client.printed = << >> /\ client.got = << >> /\ client.buffer = << >>
        /\ client.console_output = << >> /\ client.long = FALSE
        /\ client.buffer_position = 0 /\ client.fault = "none"
    BY DEF Init
  <1>2. Left(client.console_output) = << >>
    BY <1>1, LeftNone
  <1>3. BufferSize \in Nat /\ 0 <= BufferSize
    BY ServerMessageAssumption
  <1>4. << >> \o << >> \o << >> = << >>
    OBVIOUS
  <1>5. client.long \in BOOLEAN /\ ~client.long
    BY <1>1, Zenon
  <1> QED
    BY <1>1, <1>2, <1>3, <1>4, <1>5 DEF LinesInv

\* What is printed of a text that fits.
LEMMA FittingIs ==
  ASSUME NEW c, c.buffer_position \in Nat, NEW s \in Seq(Nat)
  PROVE  /\ Fitting(c, s) \in Nat /\ Fitting(c, s) <= Len(s)
         /\ ~(Fitting(c, s) < Len(s))
            => /\ SubSeq(s, 1, Fitting(c, s)) = s
               /\ c.buffer_position <= BufferSize
                  => c.buffer_position + Len(s) <= BufferSize
         /\ SubSeq(s, 1, Fitting(c, s)) \in Seq(Nat)
  <1> DEFINE b == c.buffer_position
             n == Len(s)
             f == Fitting(c, s)
  <1>1. b \in Nat /\ n \in Nat /\ BufferSize \in Nat
    BY ServerMessageAssumption
  <1>2. f = IF n < BufferSize - b THEN n ELSE IF BufferSize - b > 0 THEN (BufferSize - b) - 1 ELSE 0
    BY DEF Fitting, Room
  <1> HIDE DEF b, n, f
  <1>3. /\ f \in Nat /\ f <= n
        /\ ~(f < n) => f = n /\ (b <= BufferSize => b + n <= BufferSize)
    BY <1>1, <1>2
  <1>4. SubSeq(s, 1, n) = s
    BY DEF n
  <1>5. SubSeq(s, 1, f) \in Seq(Nat)
    BY <1>1, <1>3 DEF n
  <1> QED
    BY <1>3, <1>4, <1>5 DEF b, n, f

LEMMA LinesPrint ==
  ASSUME BaseInv, LinesInv, Parse_print
  PROVE  LinesInv'
  <1>1. PICK c, d : \E s \in Seq(Nat) :
              /\ Alters(client, c, {"command"}) /\ IsClient(c)
              /\ \/ Room(c) < 0 /\ d = Faulty(c, "overflow")
                 \/ Room(c) >= 0 /\ d = Printed(c, s)
                 \/ Room(c) >= 0 /\ d = EndLine(Printed(c, s))
              /\ Alters(d, client', {"fault"})
              /\ client'.fault \in {d.fault, "stuck", "out of step"}
    BY PrintSteps
  <1>2. PICK s :
              /\ s \in Seq(Nat)
              /\ Alters(client, c, {"command"}) /\ IsClient(c)
              /\ \/ Room(c) < 0 /\ d = Faulty(c, "overflow")
                 \/ Room(c) >= 0 /\ d = Printed(c, s)
                 \/ Room(c) >= 0 /\ d = EndLine(Printed(c, s))
              /\ Alters(d, client', {"fault"})
              /\ client'.fault \in {d.fault, "stuck", "out of step"}
    BY <1>1
  <1>3. client.fault = "none"
    BY PrintSteps
  <1>4. /\ c.printed = client.printed /\ c.got = client.got /\ c.buffer = client.buffer
        /\ c.console_output = client.console_output /\ c.long = client.long
        /\ c.buffer_position = client.buffer_position /\ c.quit = client.quit
        /\ c.save_console_output = client.save_console_output /\ c.fault = "none"
    BY <1>2, <1>3 DEF Alters, Names, Place
  <1>5. /\ client'.printed = d.printed /\ client'.got = d.got /\ client'.buffer = d.buffer
        /\ client'.console_output = d.console_output /\ client'.long = d.long
        /\ client'.buffer_position = d.buffer_position /\ client'.quit = d.quit
        /\ client'.save_console_output = d.save_console_output
    BY <1>2 DEF Alters, Names, Place
  <1>6. client.buffer_position \in Nat /\ BufferSize \in Nat
    BY ServerMessageAssumption DEF BaseInv
  <1>7. CASE Room(c) < 0 /\ d = Faulty(c, "overflow")
    <2>1. Alters(c, d, {"fault"}) /\ d.fault = "overflow"
      BY <1>2, <1>4, <1>7, FaultyAlters
    <2>2. ~(client.buffer_position <= BufferSize)
      BY <1>4, <1>6, <1>7 DEF Room
    <2>3. client.long
      BY <2>2 DEF LinesInv
    <2>4. \A x \in {"printed", "got", "buffer", "buffer_position", "console_output", "long",
                    "save_console_output", "quit"} : d[x] = c[x]
      BY <2>1 DEF Alters, Names, Place
    <2>5. /\ client'.printed = client.printed /\ client'.got = client.got
          /\ client'.buffer = client.buffer /\ client'.console_output = client.console_output
          /\ client'.long = client.long
          /\ client'.buffer_position = client.buffer_position
      BY <1>4, <1>5, <2>4
    <2>6. client'.fault # "freed line"
      BY <1>2, <2>1
    <2> QED
      BY <2>3, <2>5, <2>6 DEF LinesInv
  <1> DEFINE p == Printed(c, s)
             fit == Fitting(c, s)
             piece == SubSeq(s, 1, fit)
  <1>8. /\ Alters(c, p, {"buffer", "buffer_position", "printed", "long"}) /\ IsClient(p)
        /\ p.buffer = client.buffer \o piece
        /\ p.buffer_position = client.buffer_position + Len(s)
        /\ p.printed = client.printed \o s
        /\ p.long = (client.long \/ fit < Len(s))
    <2>0. IsClient(c)
      BY <1>2
    <2>1. c.buffer = client.buffer /\ c.buffer_position = client.buffer_position
          /\ c.printed = client.printed /\ c.long = client.long
      BY <1>4
    <2>2. /\ Alters(c, p, {"buffer", "buffer_position", "printed", "long"}) /\ IsClient(p)
          /\ p.buffer = c.buffer \o piece
          /\ p.buffer_position = c.buffer_position + Len(s)
          /\ p.printed = c.printed \o s
          /\ p.long = (c.long \/ fit < Len(s))
      BY ONLY <2>0, PrintedIs
    <2> HIDE DEF p, fit, piece
    <2>3. p.long = (client.long \/ fit < Len(s))
      BY ONLY <2>1, <2>2, Zenon
    <2> QED
      BY ONLY <2>1, <2>2, <2>3, Zenon
  <1> HIDE DEF p
  <1>9. /\ p.got = client.got /\ p.console_output = client.console_output
        /\ p.save_console_output = client.save_console_output /\ p.quit = client.quit
        /\ p.fault = "none"
    BY ONLY <1>4, <1>8 DEF Alters, Names, Place
  <1>10. /\ fit \in Nat /\ piece \in Seq(Nat)
         /\ ~(fit < Len(s))
            => /\ piece = s
               /\ client.buffer_position <= BufferSize
                  => client.buffer_position + Len(s) <= BufferSize
    BY <1>2, <1>4, <1>6, FittingIs
  <1> HIDE DEF fit, piece
  <1>11. /\ p.printed \in Seq(Nat) /\ p.got \in Seq(Nat) /\ p.buffer \in Seq(Nat)
         /\ p.console_output \in Seq(Line) /\ p.long \in BOOLEAN
    <2>1. client.printed \in Seq(Nat) /\ client.buffer \in Seq(Nat)
      BY DEF LinesInv
    <2>2. client.printed \o s \in Seq(Nat) /\ client.buffer \o piece \in Seq(Nat)
      <3>1. s \in Seq(Nat) /\ piece \in Seq(Nat)
        BY <1>2, <1>10
      <3> QED
        BY ONLY <2>1, <3>1
    <2>3. p.long \in BOOLEAN
      <3>1. (client.long \/ fit < Len(s)) \in BOOLEAN
        OBVIOUS
      <3> QED
        BY ONLY <1>8, <3>1, Zenon
    <2>4. p.got \in Seq(Nat) /\ p.console_output \in Seq(Line)
      BY <1>9 DEF LinesInv
    <2> QED
      BY <1>8, <2>2, <2>3, <2>4
  <1>12. Left(client.console_output) \in Seq(Nat)
    BY PiecesType DEF LinesInv
  <1>13. ASSUME ~p.long
         PROVE  /\ ~client.long /\ p.buffer_position <= BufferSize
                /\ p.save_console_output =>
                     p.got \o Left(p.console_output) \o p.buffer = p.printed
    <2>1. ~client.long /\ ~(fit < Len(s))
      BY <1>8, <1>13
    <2>2. piece = s /\ p.buffer_position <= BufferSize
      BY <1>8, <1>10, <2>1 DEF LinesInv
    <2>3. ASSUME p.save_console_output
          PROVE  p.got \o Left(p.console_output) \o p.buffer = p.printed
      <3>1. client.got \o Left(client.console_output) \o client.buffer = client.printed
        BY <1>9, <2>1, <2>3 DEF LinesInv
      <3>2. client.got \in Seq(Nat) /\ client.buffer \in Seq(Nat)
        BY DEF LinesInv
      <3> DEFINE g == client.got
                 l == Left(client.console_output)
                 b == client.buffer
      <3>4. g \in Seq(Nat) /\ l \in Seq(Nat) /\ b \in Seq(Nat)
        BY <1>12, <3>2
      <3> HIDE DEF g, l, b
      <3> DEFINE e == s
      <3>6. Listed(e)
        BY ONLY <1>2, ListedIn
      <3> HIDE DEF e
      <3>7. Listed(g) /\ Listed(l) /\ Listed(b)
        BY ONLY <3>4, ListedIn
      <3>5. g \o l \o (b \o e) = (g \o l \o b) \o e
        <4> DEFINE gl == g \o l
        <4>1. Listed(gl)
          BY ONLY <3>7, ListedJoin
        <4> HIDE DEF gl
        <4>2. (gl \o b) \o e = gl \o (b \o e)
          BY ONLY <3>6, <3>7, <4>1, ListedAgain, SMTT(20)
        <4> QED
          BY ONLY <4>2, Zenon DEF gl
      <3>3. client.got \o Left(client.console_output) \o (client.buffer \o s)
            = (client.got \o Left(client.console_output) \o client.buffer) \o s
        BY ONLY <3>5, Zenon DEF g, l, b, e
      <3> QED
        BY <1>8, <1>9, <2>2, <3>1, <3>3
    <2> QED
      BY <2>1, <2>2, <2>3
  <1>14. CASE d = p
    <2>1. client'.fault \notin {"overflow", "freed line"}
      BY <1>2, <1>9, <1>14
    <2> QED
      BY <1>5, <1>11, <1>13, <1>14, <2>1 DEF LinesInv
  <1>15. CASE d = EndLine(p)
    <2>1. /\ Alters(p, d, {"buffer", "buffer_position", "console_output"})
          /\ d.buffer = << >> /\ d.buffer_position = 0
          /\ d.console_output
             = IF p.save_console_output
               THEN Append(p.console_output, [string |-> p.buffer, done |-> FALSE])
               ELSE p.console_output
      BY <1>8, <1>15, EndLineIs
    <2>2. /\ d.printed = p.printed /\ d.got = p.got /\ d.long = p.long
          /\ d.save_console_output = p.save_console_output /\ d.fault = "none"
      BY <1>9, <2>1 DEF Alters, Names, Place
    <2>3. client'.fault \notin {"overflow", "freed line"}
      BY <1>2, <2>2
    <2>4. LET more == Append(p.console_output, [string |-> p.buffer, done |-> FALSE])
          IN  more \in Seq(Line) /\ Left(more) = Left(p.console_output) \o p.buffer
      BY <1>11, LeftMore
    <2>5. d.console_output \in Seq(Line)
      BY <1>11, <2>1, <2>4
    <2>6. ASSUME d.save_console_output, ~d.long
          PROVE  d.got \o Left(d.console_output) \o d.buffer = d.printed
      <3>1. p.got \o Left(p.console_output) \o p.buffer = p.printed
        BY <1>13, <2>2, <2>6
      <3>2. Left(d.console_output) = Left(p.console_output) \o p.buffer
        BY <2>1, <2>2, <2>4, <2>6
      <3>3. p.got \o (Left(p.console_output) \o p.buffer) \o << >>
            = p.got \o Left(p.console_output) \o p.buffer
        <4> DEFINE g == p.got
                   l == Left(p.console_output)
                   b == p.buffer
        <4>1. g \in Seq(Nat) /\ l \in Seq(Nat) /\ b \in Seq(Nat)
          BY <1>9, <1>11, <1>12
        <4> HIDE DEF g, l, b
        <4>2. Listed(g) /\ Listed(l) /\ Listed(b)
          BY ONLY <4>1, ListedIn
        <4>3. (g \o l) \o b = g \o (l \o b)
          BY ONLY <4>2, ListedAgain, SMTT(20)
        <4> DEFINE lb == l \o b
        <4>4. Listed(lb)
          BY ONLY <4>2, ListedJoin
        <4> HIDE DEF lb
        <4>5. Listed(g \o lb)
          BY ONLY <4>2, <4>4, ListedJoin
        <4>6. (g \o lb) \o << >> = g \o lb
          BY ONLY <4>5, ListedEmpty, Zenon
        <4> QED
          BY ONLY <4>3, <4>6, Zenon DEF g, l, b, lb
      <3> QED
        BY <2>1, <2>2, <3>1, <3>2, <3>3
    <2>7. d.buffer_position <= BufferSize /\ << >> \in Seq(Nat)
      BY <1>6, <2>1
    <2> QED
      BY <1>5, <1>11, <2>1, <2>2, <2>3, <2>5, <2>6, <2>7 DEF LinesInv
  <1> QED
    BY <1>2, <1>7, <1>14, <1>15 DEF p

LEMMA LinesOutput ==
  ASSUME BaseInv, LinesInv, QWC_GetConsoleOutput
  PROVE  LinesInv'
  <1> DEFINE lines == client.console_output
             new == {i \in DOMAIN lines : ~lines[i].done}
  <1>1. /\ Alters(client, client', {"console_output", "got", "fault"})
        /\ client'.fault \in {"none", "freed line"}
        /\ client'.fault = "freed line" => client.quit
        /\ new # {}
        /\ \E s : /\ s = (CHOOSE i \in new : \A j \in new : i <= j)
                  /\ client'.console_output = [lines EXCEPT ![s].done = TRUE]
                  /\ client'.got = client.got \o lines[s].string
    BY OutputStep
  <1>2. PICK s : /\ s = (CHOOSE i \in new : \A j \in new : i <= j)
                 /\ client'.console_output = [lines EXCEPT ![s].done = TRUE]
                 /\ client'.got = client.got \o lines[s].string
    BY <1>1
  <1>3. lines \in Seq(Line)
    BY DEF LinesInv
  <1>4. /\ client'.console_output \in Seq(Line)
        /\ lines[s].string \in Seq(Nat)
        /\ Left(lines) = lines[s].string \o Left(client'.console_output)
    <2>1. new # {} /\ s = (CHOOSE i \in new : \A j \in new : i <= j)
      BY <1>1, <1>2
    <2>2. /\ [lines EXCEPT ![s].done = TRUE] \in Seq(Line)
          /\ lines[s].string \in Seq(Nat)
          /\ Left(lines) = lines[s].string \o Left([lines EXCEPT ![s].done = TRUE])
      BY ONLY <1>3, <2>1, LeftFirst
    <2>3. client'.console_output = [lines EXCEPT ![s].done = TRUE]
      BY <1>2
    <2> HIDE DEF lines, new
    <2> QED
      BY ONLY <2>2, <2>3, Zenon
  <1>5. /\ client'.printed = client.printed /\ client'.buffer = client.buffer
        /\ client'.long = client.long /\ client'.quit = client.quit
        /\ client'.buffer_position = client.buffer_position
        /\ client'.save_console_output = client.save_console_output
    BY <1>1 DEF Alters, Names, Place
  <1>6. client'.got \in Seq(Nat)
    <2>1. client.got \in Seq(Nat) /\ lines[s].string \in Seq(Nat)
      BY <1>4 DEF LinesInv
    <2> DEFINE t == lines[s].string
    <2> HIDE DEF t
    <2>2. t \in Seq(Nat)
      BY ONLY <2>1, Zenon DEF t
    <2>3. client.got \o t \in Seq(Nat)
      BY <2>1, <2>2
    <2> QED
      BY ONLY <1>2, <2>3, Zenon DEF t
  <1>7. Left(client'.console_output) \in Seq(Nat)
    BY <1>4, PiecesType
  <1>8. (client.got \o lines[s].string) \o Left(client'.console_output) \o client.buffer
        = client.got \o (lines[s].string \o Left(client'.console_output)) \o client.buffer
    <2>1. client.got \in Seq(Nat) /\ client.buffer \in Seq(Nat)
      BY DEF LinesInv
    <2> QED
      <3> DEFINE g == client.got
                 t == lines[s].string
                 l == Left(client'.console_output)
                 b == client.buffer
      <3>1. g \in Seq(Nat) /\ t \in Seq(Nat) /\ l \in Seq(Nat) /\ b \in Seq(Nat)
        BY <1>4, <1>7, <2>1
      <3> HIDE DEF g, t, l, b
      <3>3. Listed(g) /\ Listed(t) /\ Listed(l) /\ Listed(b)
        BY ONLY <3>1, ListedIn
      <3>2. (g \o t) \o l = g \o (t \o l)
        BY ONLY <3>3, ListedAgain, SMTT(20)
      <3> QED
        BY ONLY <3>2, Zenon DEF g, t, l, b
  <1>9. client'.got \o Left(client'.console_output) \o client'.buffer
        = client.got \o Left(lines) \o client.buffer
    BY <1>2, <1>4, <1>5, <1>8
  <1> QED
    BY <1>1, <1>4, <1>5, <1>6, <1>9 DEF LinesInv

LEMMA LinesNext ==
  ASSUME BaseInv, LinesInv, [Next]_vars
  PROVE  LinesInv'
  <1> DEFINE Fixed == {"printed", "got", "buffer", "buffer_position", "console_output", "long",
                       "save_console_output", "quit"}
  <1>1. ASSUME NEW S, Steps(S), S \cap Fixed = {}
        PROVE  LinesInv'
    <2>1. \A x \in Fixed : x \in Names \ ((S \cup {"command", "fault"}) \cup Place)
      BY <1>1 DEF Names, Place
    <2>2. \A x \in Fixed : client'[x] = client[x]
      BY <1>1, <2>1 DEF Steps, Alters
    <2>3. client'.fault \notin {"overflow", "freed line"}
      BY <1>1 DEF Steps, FileFaults
    <2> QED
      BY <2>2, <2>3, LinesKept
  <1>2. ASSUME NEW S, Alters(client, client', S), S \cap Fixed = {}, "fault" \notin S
        PROVE  LinesInv'
    <2>1. \A x \in Fixed : x \in Names \ (S \cup Place)
      BY <1>2 DEF Names, Place
    <2>2. \A x \in Fixed : client'[x] = client[x]
      BY <1>2, <2>1 DEF Alters
    <2>3. client'.fault = client.fault
      BY <1>2 DEF Alters, Names, Place
    <2> QED
      BY <2>2, <2>3, LinesKept
  <1>3. CASE ParseServerMessage
    <2>1. CASE BadRead \/ EndOfMessage \/ NotViable \/ Misread
      BY <1>1, <2>1, PlainSteps
    <2>2. CASE Parse_fixed
      BY <1>1, <2>2, FixedSteps
    <2>3. CASE Parse_print
      BY <2>3, LinesPrint
    <2>4. CASE Parse_stufftext
      BY <1>1, <2>4, StufftextSteps DEF FileFields
    <2>5. CASE Parse_lists
      BY <1>1, <2>5, ListsSteps
    <2>6. CASE Parse_world
      <3>1. Steps({"abort", "validsequence", "deltapoint"})
        BY <2>6, WorldSteps
      <3> QED
        BY <1>1, <3>1
    <2>7. CASE Parse_download
      BY <1>1, <2>7, DownloadSteps DEF FileFields
    <2> QED
      BY <1>3, <2>1, <2>2, <2>3, <2>4, <2>5, <2>6, <2>7 DEF ParseServerMessage
  <1>4. CASE Get_Message
    <2>1. \A x \in Fixed \cup {"fault"} :
            x \in Names \ ({"message", "parsing", "cut", "command", "incoming_sequence"}
                           \cup Place)
      BY DEF Names, Place
    <2>2. \A x \in Fixed \cup {"fault"} : client'[x] = client[x]
      BY <1>4, <2>1, GetStep
    <2> QED
      BY <2>2, LinesKept
  <1>5. CASE QWC_GetConsoleOutput
    BY <1>5, LinesOutput
  <1>6. CASE QWC_Quit
    <2>1. Alters(client, client', {"quit"}) /\ client'.quit
      BY <1>6, QuitStep
    <2>2. /\ \A x \in Fixed \ {"quit"} : client'[x] = client[x]
          /\ client'.fault = client.fault
      BY <2>1 DEF Alters, Names, Place
    <2>3. Left(client'.console_output) = Left(client.console_output)
      BY <2>2
    <2> QED
      BY <2>1, <2>2, <2>3 DEF LinesInv
  <1>7. CASE Answer
    <2>1. client.reliable # << >> /\ client' = [client EXCEPT !.reliable = Tail(@)]
      BY <1>7 DEF Answer
    <2>2. Alters(client, client', {"reliable"})
      BY <2>1, AskedIs
    <2> QED
      BY <1>2, <2>2
  <1>8. CASE UNCHANGED client
    BY <1>8, LinesKept
  <1> QED
    BY <1>3, <1>4, <1>5, <1>6, <1>7, <1>8 DEF Next, vars, ChangeLevel, Send

\* For texts of any length and a buffer of any size: what is printed is what the application
\* got, what waits for it and what waits for its newline, once and in order, until a line was
\* longer than the buffer; the buffer is overrun only then, and a freed line is handed out only
\* after QWC_Quit (ParsePrint, QWC_StringAdd, QWC_GetConsoleOutput).
THEOREM LinesAlwaysArrive == Spec => []LinesArrive
  <1>1. LinesInv => LinesArrive
    BY DEF LinesInv, LinesArrive
  <1>2. BaseInv /\ LinesInv /\ [Next]_vars => LinesInv'
    BY LinesNext
  <1> QED
    BY <1>1, <1>2, LinesInit, BaseAlways, PTL DEF Spec

-----------------------------------------------------------------------------
(* The delta point. *)

\* The updates, those the client has and those on their way, in the order in which they
\* were sent.
DeltaInv ==
  /\ client.incoming_sequence \in Nat
  /\ client.deltapoint # -1 => topic \in {"any", "entities"}
  /\ topic \in {"any", "entities"} =>
       /\ Listed(server.entities)
       /\ Len(server.entities) = client.incoming_sequence + Len(server.down)
       /\ \A j \in DOMAIN server.down :
            server.entities[client.incoming_sequence + j] = EntitiesIn(server.down[j].message)
       /\ client.parsing => /\ client.incoming_sequence > 0
                            /\ server.entities[client.incoming_sequence]
                               = EntitiesIn(client.message)
       /\ client.deltapoint # -1 => /\ client.deltapoint \in 1 .. client.incoming_sequence
                                    /\ server.entities[client.deltapoint] = 0

LEMMA DeltaInit == Init => DeltaInv
  <1> SUFFICES ASSUME Init
               PROVE  DeltaInv
    OBVIOUS
  <1>1. client.incoming_sequence = 0 /\ client.deltapoint = -1 /\ client.parsing = FALSE
    BY DEF Init
  <1>2. server.entities = << >> /\ server.down = << >>
    BY DEF Init
  <1>3. Listed(<< >>) /\ Len(<< >>) = 0 /\ DOMAIN << >> = {}
    BY ListedEmpty
  <1>4. ~client.parsing
    BY <1>1, Zenon
  <1> QED
    BY <1>1, <1>2, <1>3, <1>4 DEF DeltaInv

\* A step that concerns no update.
LEMMA DeltaSame ==
  ASSUME DeltaInv, topic' = topic,
         client'.incoming_sequence = client.incoming_sequence,
         client'.deltapoint = client.deltapoint, client'.message = client.message,
         client'.parsing => client.parsing,
         topic \in {"any", "entities"} => /\ server'.entities = server.entities
                                          /\ server'.down = server.down
  PROVE  DeltaInv'
  <1>1. EntitiesIn(client'.message) = EntitiesIn(client.message)
    BY DEF EntitiesIn
  <1>2. ASSUME topic \in {"any", "entities"}, NEW j \in DOMAIN server.down
        PROVE  EntitiesIn(server'.down[j].message) = EntitiesIn(server.down[j].message)
    BY <1>2 DEF EntitiesIn
  <1> QED
    BY <1>1, <1>2 DEF DeltaInv

\* A message that begins with the end of the entities has none.
LEMMA NoEntities ==
  ASSUME NEW tp, NEW m, Says(tp, m), 2 \in DOMAIN m, m[1] = Svc("packetentities"),
         m[2] = Field("word", {})
  PROVE  EntitiesIn(m) = 0
  <1> DEFINE S == {i \in DOMAIN m : m[i][1] = "word" /\ "entity" \in m[i][2]}
  <1>1. S = {}
    BY DEF Says
  <1>2. Cardinality({}) = 0
    BY FS_EmptySet
  <1> QED
    BY <1>1, <1>2, Zenon DEF EntitiesIn

LEMMA DeltaWorld ==
  ASSUME BaseInv, DeltaInv, Parse_world
  PROVE  DeltaInv'
  <1>1. /\ UNCHANGED <<topic, server>>
        /\ Alters(client, client', {"abort", "validsequence", "deltapoint"}
                                   \cup {"command", "fault"})
    BY WorldSteps DEF Steps
  <1>2. \/ client'.deltapoint = client.deltapoint
        \/ /\ client'.deltapoint = client.incoming_sequence
           /\ client.parsing /\ 2 \in DOMAIN client.message
           /\ client.message[1] = Svc("packetentities")
           /\ client.message[2] = Field("word", {})
    BY WorldSteps
  <1>3. /\ client'.incoming_sequence = client.incoming_sequence
        /\ client'.message = client.message /\ client'.parsing = client.parsing
    BY <1>1 DEF Alters, Names, Place
  <1>4. CASE client'.deltapoint = client.deltapoint
    BY <1>1, <1>3, <1>4, DeltaSame
  <1>5. CASE /\ client'.deltapoint = client.incoming_sequence
             /\ client.parsing /\ 2 \in DOMAIN client.message
             /\ client.message[1] = Svc("packetentities")
             /\ client.message[2] = Field("word", {})
    <2>1. Says(topic, client.message)
      BY DEF BaseInv
    <2>2. EntitiesIn(client.message) = 0
      BY <1>5, <2>1, NoEntities
    <2>3. topic \in {"any", "entities"}
      BY <1>5, <2>1 DEF Says
    <2>4. EntitiesIn(client'.message) = EntitiesIn(client.message)
      BY <1>3 DEF EntitiesIn
    <2>5. \A j \in DOMAIN server.down :
            EntitiesIn(server'.down[j].message) = EntitiesIn(server.down[j].message)
      BY <1>1 DEF EntitiesIn
    <2> QED
      BY <1>1, <1>3, <1>5, <2>2, <2>3, <2>4, <2>5 DEF DeltaInv
  <1> QED
    BY <1>2, <1>4, <1>5

LEMMA DeltaGet ==
  ASSUME BaseInv, DeltaInv, Get_Message
  PROVE  DeltaInv'
  <1>1. /\ server.down # << >> /\ 1 \in DOMAIN server.down
        /\ topic' = topic /\ server' = [server EXCEPT !.down = Tail(@)]
        /\ client'.message = server.down[1].message
        /\ client'.incoming_sequence = client.incoming_sequence + 1
        /\ \A x \in Names \ ({"message", "parsing", "cut", "command",
                                "incoming_sequence"} \cup Place) : client'[x] = client[x]
    BY GetStep
  <1>2. client'.deltapoint = client.deltapoint
    BY <1>1 DEF Names, Place
  <1>3. server'.entities = server.entities /\ server'.down = Tail(server.down)
    BY <1>1 DEF BaseInv
  <1>4. /\ Listed(server.down) /\ Len(server'.down) = Len(server.down) - 1
        /\ \A i \in DOMAIN server'.down :
             i + 1 \in DOMAIN server.down /\ server'.down[i] = server.down[i + 1]
    BY <1>1, <1>3, TailIs DEF BaseInv
  <1>5. Len(server.down) \in Nat /\ DOMAIN server.down = 1 .. Len(server.down)
        /\ Listed(server'.down)
    BY <1>1, <1>3, <1>4, TailIs, ListedLen
  <1>6. Len(server'.down) \in Nat /\ DOMAIN server'.down = 1 .. Len(server'.down)
    BY <1>5, ListedLen
  <1>7. client.incoming_sequence \in Nat
    BY DEF DeltaInv
  <1>8. ASSUME topic \in {"any", "entities"}
        PROVE  /\ Listed(server'.entities)
               /\ Len(server'.entities) = client'.incoming_sequence + Len(server'.down)
               /\ \A j \in DOMAIN server'.down :
                    server'.entities[client'.incoming_sequence + j]
                    = EntitiesIn(server'.down[j].message)
               /\ client'.incoming_sequence > 0
               /\ server'.entities[client'.incoming_sequence] = EntitiesIn(client'.message)
               /\ client'.deltapoint # -1 =>
                    /\ client'.deltapoint \in 1 .. client'.incoming_sequence
                    /\ server'.entities[client'.deltapoint] = 0
    <2>1. /\ Listed(server.entities)
          /\ Len(server.entities) = client.incoming_sequence + Len(server.down)
          /\ \A j \in DOMAIN server.down :
               server.entities[client.incoming_sequence + j] = EntitiesIn(server.down[j].message)
          /\ client.deltapoint # -1 => /\ client.deltapoint \in 1 .. client.incoming_sequence
                                       /\ server.entities[client.deltapoint] = 0
      BY <1>8 DEF DeltaInv
    <2>2. client.incoming_sequence + Len(server.down)
          = client'.incoming_sequence + Len(server'.down)
      <3>1. \A i, j, k, l : i \in Nat /\ j \in Nat /\ k = i + 1 /\ l = j - 1 => i + j = k + l
        OBVIOUS
      <3>2. client'.incoming_sequence = client.incoming_sequence + 1
            /\ Len(server'.down) = Len(server.down) - 1
        BY <1>1, <1>4
      <3> QED
        BY ONLY <1>5, <1>7, <3>1, <3>2, SMTT(20)
    <2>3. ASSUME NEW j \in DOMAIN server'.down
          PROVE  server'.entities[client'.incoming_sequence + j]
                 = EntitiesIn(server'.down[j].message)
      <3>1. server'.down[j] = server.down[j + 1] /\ j + 1 \in DOMAIN server.down /\ j \in Nat
        BY <1>4, <1>6, <2>3
      <3>2. EntitiesIn(server'.down[j].message) = EntitiesIn(server.down[j + 1].message)
        BY <3>1 DEF EntitiesIn
      <3>3. client'.incoming_sequence + j = client.incoming_sequence + (j + 1)
        BY <1>1, <1>7, <3>1, SMTT(20)
      <3> QED
        BY <1>3, <2>1, <3>1, <3>2, <3>3
    <2>4. EntitiesIn(client'.message) = EntitiesIn(server.down[1].message)
      BY <1>1 DEF EntitiesIn
    <2>5. server'.entities[client'.incoming_sequence] = EntitiesIn(client'.message)
      BY <1>1, <1>3, <2>1, <2>4
    <2>6. client'.incoming_sequence > 0
      BY <1>1, <1>7
    <2>7. client'.deltapoint # -1 =>
            /\ client'.deltapoint \in 1 .. client'.incoming_sequence
            /\ server'.entities[client'.deltapoint] = 0
      BY <1>1, <1>2, <1>3, <1>7, <2>1
    <2> QED
      BY <1>3, <2>1, <2>2, <2>3, <2>5, <2>6, <2>7
  <1>9. client'.incoming_sequence \in Nat
        /\ (client'.deltapoint # -1 => topic' \in {"any", "entities"})
    BY <1>1, <1>2, <1>7 DEF DeltaInv
  <1> QED
    BY <1>1, <1>8, <1>9 DEF DeltaInv

LEMMA DeltaSend ==
  ASSUME BaseInv, DeltaInv, Send
  PROVE  DeltaInv'
  <1>1. PICK p : /\ server' = [server EXCEPT !.down = Append(server.down, p), !.sent = server.sent + 1,
                                 !.entities = Append(server.entities, EntitiesIn(p.message))]
                 /\ UNCHANGED <<topic, client>>
    BY DEF Send
  <1> DEFINE n == EntitiesIn(p.message)
             down == server.down
             entities == server.entities
             inc == client.incoming_sequence
  <1>2. server'.down = Append(down, p) /\ server'.entities = Append(entities, n)
    BY <1>1 DEF BaseInv
  <1>3. Listed(down) /\ Len(down) \in Nat /\ DOMAIN down = 1 .. Len(down)
    BY ListedLen DEF BaseInv
  <1>4. inc \in Nat /\ (client.deltapoint # -1 => topic \in {"any", "entities"})
    BY DEF DeltaInv
  <1>5. ASSUME topic \in {"any", "entities"}
        PROVE  /\ Listed(server'.entities)
               /\ Len(server'.entities) = inc + Len(server'.down)
               /\ \A j \in DOMAIN server'.down :
                    server'.entities[inc + j] = EntitiesIn(server'.down[j].message)
               /\ client.parsing => inc > 0 /\ server'.entities[inc] = EntitiesIn(client.message)
               /\ client.deltapoint # -1 => /\ client.deltapoint \in 1 .. inc
                                            /\ server'.entities[client.deltapoint] = 0
    <2>1. /\ Listed(entities) /\ Len(entities) = inc + Len(down)
          /\ \A j \in DOMAIN down : entities[inc + j] = EntitiesIn(down[j].message)
          /\ client.parsing => inc > 0 /\ entities[inc] = EntitiesIn(client.message)
          /\ client.deltapoint # -1 => /\ client.deltapoint \in 1 .. inc
                                       /\ entities[client.deltapoint] = 0
      BY <1>5 DEF DeltaInv
    <2>2. Len(entities) \in Nat /\ DOMAIN entities = 1 .. Len(entities)
      BY <2>1, ListedLen
    <2> HIDE DEF n, inc
    <2>3. /\ Listed(Append(entities, n)) /\ Len(Append(entities, n)) = Len(entities) + 1
          /\ \A i \in DOMAIN entities : Append(entities, n)[i] = entities[i]
          /\ Append(entities, n)[Len(entities) + 1] = n
      BY <2>1, AppendIs
    <2>4. /\ Len(Append(down, p)) = Len(down) + 1
          /\ \A i \in DOMAIN down : Append(down, p)[i] = down[i]
          /\ Append(down, p)[Len(down) + 1] = p
          /\ DOMAIN Append(down, p) = 1 .. Len(down) + 1
      BY <1>3, AppendIs
    <2> DEFINE more == Append(entities, n)
               all == Append(down, p)
    <2>5. /\ Listed(more) /\ Len(more) = Len(entities) + 1
          /\ \A i \in DOMAIN entities : more[i] = entities[i]
          /\ more[Len(entities) + 1] = n
          /\ Len(all) = Len(down) + 1
          /\ \A i \in DOMAIN down : all[i] = down[i]
          /\ all[Len(down) + 1] = p
          /\ DOMAIN all = 1 .. Len(down) + 1
          /\ server'.down = all /\ server'.entities = more
      BY <1>2, <2>3, <2>4
    <2> HIDE DEF more, all, down, entities
    <2>6. ASSUME NEW j \in DOMAIN all
          PROVE  more[inc + j] = EntitiesIn(all[j].message)
      <3>1. CASE j \in DOMAIN down
        <4>1. inc + j \in DOMAIN entities
          BY <1>3, <1>4, <2>1, <2>2, <3>1
        <4>2. all[j] = down[j] /\ more[inc + j] = entities[inc + j]
          BY <2>5, <3>1, <4>1
        <4>3. EntitiesIn(all[j].message) = EntitiesIn(down[j].message)
          BY <4>2 DEF EntitiesIn
        <4> QED
          BY <2>1, <3>1, <4>2, <4>3
      <3>2. CASE j = Len(down) + 1
        <4>1. inc + j = Len(entities) + 1
          BY <1>3, <1>4, <2>1, <3>2
        <4>2. all[j] = p
          BY <2>5, <3>2
        <4>3. EntitiesIn(all[j].message) = n
          BY <4>2 DEF EntitiesIn, n
        <4> QED
          BY <2>5, <4>1, <4>3
      <3> QED
        BY <1>3, <2>5, <2>6, <3>1, <3>2
    <2>7. Len(more) = inc + Len(all)
      BY <1>3, <1>4, <2>1, <2>5
    <2>8. \A i \in 1 .. inc : i \in DOMAIN entities
      BY <1>3, <1>4, <2>1, <2>2
    <2>9. client.parsing => inc > 0 /\ more[inc] = EntitiesIn(client.message)
      BY <1>4, <2>1, <2>5, <2>8
    <2>10. client.deltapoint # -1 => /\ client.deltapoint \in 1 .. inc
                                     /\ more[client.deltapoint] = 0
      BY <2>1, <2>5, <2>8
    <2>11. \A j \in DOMAIN all : EntitiesIn(server'.down[j].message) = EntitiesIn(all[j].message)
      BY <2>5 DEF EntitiesIn
    <2> QED
      BY <2>5, <2>6, <2>7, <2>9, <2>10, <2>11
  <1>6. EntitiesIn(client'.message) = EntitiesIn(client.message)
    BY <1>1 DEF EntitiesIn
  <1> QED
    BY <1>1, <1>4, <1>5, <1>6 DEF DeltaInv

LEMMA DeltaNext ==
  ASSUME BaseInv, DeltaInv, [Next]_vars
  PROVE  DeltaInv'
  <1> DEFINE Fixed == {"incoming_sequence", "deltapoint", "message"}
  <1>1. ASSUME UNCHANGED <<topic, server>>, NEW S, Alters(client, client', S),
               S \cap Fixed = {}, "parsing" \notin S \/ ~client'.parsing
        PROVE  DeltaInv'
    <2>1. \A x \in Fixed : x \in Names \ (S \cup Place)
      BY <1>1 DEF Names, Place
    <2>2. \A x \in Fixed : client'[x] = client[x]
      BY <1>1, <2>1 DEF Alters
    <2>3. client'.parsing => client.parsing
      BY <1>1 DEF Alters, Names, Place
    <2> QED
      BY <1>1, <2>2, <2>3, DeltaSame
  <1>2. ASSUME NEW S, Steps(S), S \cap Fixed = {}, "parsing" \notin S
        PROVE  DeltaInv'
    BY <1>1, <1>2 DEF Steps
  <1>3. CASE ParseServerMessage
    <2>1. CASE BadRead \/ EndOfMessage \/ NotViable \/ Misread
      <3>1. Steps({"abort", "parsing"}) /\ client.parsing
        BY <2>1, PlainSteps DEF BadRead, EndOfMessage, NotViable, Misread, Loop
      <3>2. /\ UNCHANGED <<topic, server>>
            /\ \A x \in Fixed : client'[x] = client[x]
        BY <3>1 DEF Steps, Alters, Names, Place
      <3> QED
        BY <3>1, <3>2, DeltaSame
    <2>2. CASE Parse_fixed
      BY <1>2, <2>2, FixedSteps
    <2>3. CASE Parse_print
      <3>1. /\ UNCHANGED <<topic, server>>
            /\ Alters(client, client', LineFields \cup {"command", "fault"})
        BY <2>3, PrintSteps
      <3> QED
        BY <1>1, <3>1 DEF LineFields
    <2>4. CASE Parse_stufftext
      BY <1>2, <2>4, StufftextSteps DEF FileFields
    <2>5. CASE Parse_lists
      BY <1>2, <2>5, ListsSteps
    <2>6. CASE Parse_world
      BY <2>6, DeltaWorld
    <2>7. CASE Parse_download
      BY <1>2, <2>7, DownloadSteps DEF FileFields
    <2> QED
      BY <1>3, <2>1, <2>2, <2>3, <2>4, <2>5, <2>6, <2>7 DEF ParseServerMessage
  <1>4. CASE QWC_GetConsoleOutput
    BY <1>1, <1>4, OutputStep
  <1>5. CASE QWC_Quit
    BY <1>1, <1>5, QuitStep
  <1>6. CASE Answer
    <2>1. client.reliable # << >> /\ client' = [client EXCEPT !.reliable = Tail(@)]
          /\ topic' = topic /\ topic \in {"signon", "download"}
      BY <1>6 DEF Answer
    <2>2. Alters(client, client', {"reliable"})
      BY <2>1, AskedIs
    <2>3. client'.parsing = client.parsing /\ \A x \in Fixed : client'[x] = client[x]
      BY <2>2 DEF Alters, Names, Place
    <2> QED
      BY <2>1, <2>3, DeltaSame
  <1>7. CASE ChangeLevel
    <2>1. topic = "signon" /\ topic' = topic /\ client' = client
      BY <1>7 DEF ChangeLevel
    <2> QED
      BY <2>1, DeltaSame
  <1>8. CASE UNCHANGED vars
    BY <1>8, DeltaSame DEF vars
  <1> QED
    BY <1>3, <1>4, <1>5, <1>6, <1>7, <1>8, DeltaGet, DeltaSend DEF Next

\* However many updates arrive: the one the client asks deltas from had no entities, because
\* one that has some is skipped and invalidated (ParsePacketEntities, NetQW_SetDeltaPoint).
THEOREM DeltaPointIsAlwaysKept == Spec => []DeltaPointIsKept
  <1>1. DeltaInv => DeltaPointIsKept
    BY DEF DeltaInv, DeltaPointIsKept
  <1>2. BaseInv /\ DeltaInv /\ [Next]_vars => DeltaInv'
    BY DeltaNext
  <1> QED
    BY <1>1, <1>2, DeltaInit, BaseAlways, PTL DEF Spec

-----------------------------------------------------------------------------
(* Downloads. *)

\* What the parser does with a block.
LEMMA DownloadParts ==
  ASSUME BaseInv, Parse_download
  PROVE  LET t == BlockTaken(Taken)
             d == ParseDownload(Taken)
         IN  /\ Case("download") /\ client.fault = "none"
             /\ UNCHANGED <<topic, server>>
             /\ IsClient(Taken) /\ Alters(client, Taken, {"command"}) /\ Asks(Taken)
             /\ Taken.fault = "none" /\ Taken.message = client.message
             /\ Taken.msg_readcount = client.msg_readcount + 1 /\ Taken.msg_readcount >= 1
             /\ client.message[1] = Svc("download")
             /\ SizeOf(Taken) \in {-1, 1}
             /\ IsClient(t) /\ Asks(t)
             /\ d = IF PercentOf(Taken) = 100 THEN FinishDownload(t)
                    ELSE AskForMore(t, PercentOf(Taken))
             /\ IsClient(d) /\ Alters(d, client', {"fault"})
             /\ client'.fault \in {d.fault, "stuck", "out of step"}
             /\ client'.fault = "none" => client' = d
  <1> DEFINE t == BlockTaken(Taken)
             d == ParseDownload(Taken)
  <1>1. Case("download") /\ Then(d)
    BY DEF Parse_download
  <1>2. client.fault = "none" /\ client.parsing
    BY <1>1 DEF Case, Loop
  <1>3. /\ IsClient(Taken) /\ Alters(client, Taken, {"command"})
        /\ Taken.message = client.message
        /\ Taken.msg_readcount = client.msg_readcount + 1 /\ client.msg_readcount \in Nat
    BY <1>1, CaseIs
  <1>4. client.message[1] = Svc("download") /\ Taken.msg_readcount >= 1
    <2>1. client.message[1] = Svc("download")
      BY <1>1, CaseIs
    <2> QED
      BY <1>3, <2>1
  <1>5. Asks(Taken) /\ Taken.fault = "none"
    BY <1>2, <1>3, TakenAsks DEF Names
  <1>6. SizeOf(Taken) \in {-1, 1}
    BY <1>3, <1>4, SizeIs DEF BaseInv
  <1>7. IsClient(t) /\ Asks(t)
    BY <1>3, <1>4, <1>5, <1>6, BlockTakenIs
  <1>8. d = IF PercentOf(Taken) = 100 THEN FinishDownload(t) ELSE AskForMore(t, PercentOf(Taken))
    BY <1>3, ParseDownloadIs
  <1> HIDE DEF t, d
  <1>9. IsClient(d)
    <2>1. IsClient(FinishDownload(t))
      BY <1>7, FinishIs
    <2>2. IsClient(AskForMore(t, PercentOf(Taken)))
      BY <1>7, AskForMoreIs
    <2> QED
      BY <1>8, <2>1, <2>2
  <1>10. /\ UNCHANGED <<topic, server>>
         /\ Alters(d, client', {"fault"})
         /\ client'.fault \in {d.fault, "stuck", "out of step"}
         /\ client'.fault = "none" => client' = d
    BY <1>1, <1>9, ThenIs
  <1> QED
    BY <1>1, <1>2, <1>3, <1>4, <1>5, <1>6, <1>7, <1>8, <1>9, <1>10 DEF t, d

\* What the parser does with a stuffed text.
LEMMA StufftextParts ==
  ASSUME BaseInv, Parse_stufftext
  PROVE  LET q == Read(Taken, "string")
         IN  /\ Case("stufftext") /\ client.fault = "none"
             /\ UNCHANGED <<topic, server>>
             /\ Alters(client, q, {"command"}) /\ IsClient(q) /\ Asks(q)
             /\ q.fault = "none"
             /\ \E c : /\ Obeyed(q, TextOf(Taken), c)
                       /\ IsClient(c) => /\ Alters(c, client', {"fault"})
                                         /\ client'.fault \in {c.fault, "stuck", "out of step"}
                                         /\ client'.fault = "none" => client' = c
  <1> DEFINE q == Read(Taken, "string")
             text == TextOf(Taken)
  <1>1. PICK c : Case("stufftext") /\ Obeyed(q, text, c) /\ Then(c)
    BY StufftextIs
  <1>2. client.fault = "none" /\ client.parsing
    BY <1>1 DEF Case, Loop
  <1>3. IsClient(Taken) /\ Alters(client, Taken, {"command"})
    BY <1>1, CaseIs
  <1>4. Alters(Taken, q, {}) /\ IsClient(q)
    BY <1>3, ReadChanges, KindsNamed, ChangesAlters
  <1> HIDE DEF q, text
  <1>5. Alters(client, q, {"command"})
    BY <1>3, <1>4 DEF Alters
  <1>6. Asks(q) /\ q.fault = "none"
    BY <1>2, <1>5, TakenAsks DEF Names
  <1>7. IsClient(c) => /\ Alters(c, client', {"fault"})
                       /\ client'.fault \in {c.fault, "stuck", "out of step"}
                       /\ client'.fault = "none" => client' = c
    BY <1>1, ThenIs
  <1>8. UNCHANGED <<topic, server>>
    BY <1>1 DEF Then
  <1> QED
    BY <1>1, <1>2, <1>4, <1>5, <1>6, <1>7, <1>8 DEF q, text

\* The download of a whole file is never said of a file in a packet of the topic "any".
LEMMA NoFinish ==
  ASSUME BaseInv, Parse_download, topic # "download"
  PROVE  PercentOf(Taken) # 100
  <1>1. client.message[1] = Svc("download") /\ Taken.message = client.message
        /\ IsClient(Taken)
    BY DownloadParts
  <1>2. Says(topic, client.message) /\ topic \in Topics
    BY DEF BaseInv
  <1>3. 1 \in DOMAIN client.message => topic = "any"
    BY <1>1, <1>2 DEF Says
  <1> DEFINE h == Read(Taken, "short")
             n == h.msg_readcount + 1
             m == client.message
  <1>4. h.message = m /\ h.msg_readcount \in Nat
    <2>1. Alters(Taken, h, {}) /\ IsClient(h)
      BY <1>1, ReadChanges, KindsNamed, ChangesAlters
    <2> HIDE DEF h
    <2> QED
      BY <1>1, <2>1 DEF Alters, IsClient, Names, Place
  <1> HIDE DEF h
  <1>5. SUFFICES ASSUME Value(h, "byte", -1) = 100
                 PROVE  FALSE
    BY DEF PercentOf, h
  <1>6. Here(h, "byte") /\ m[n][2] = 100
    BY <1>4, <1>5 DEF Value
  <1>7. h.msg_readcount < Len(m) /\ m[n][1] = "byte"
    BY <1>4, <1>6 DEF Here
  <1>8. Listed(m)
    BY <1>2 DEF Says
  <1>9. Len(m) \in Nat /\ DOMAIN m = 1 .. Len(m)
    BY <1>8, ListedLen
  <1>10. n \in DOMAIN m /\ 1 \in DOMAIN m
    BY <1>4, <1>7, <1>9
  <1> HIDE DEF n, m
  <1>11. m[n] = Field("byte", 100)
    BY <1>2, <1>6, <1>7, <1>10 DEF Says, m
  <1> QED
    BY <1>1, <1>2, <1>3, <1>10, <1>11 DEF Says, m

\* Files are used wrongly only behind the end of a download.
FaultInv ==
  /\ client.download_file \in {"none", "open", "closed"}
  /\ client.download_file = "closed" => client.finished # {}
  /\ client.fault \in {"closed twice", "wrote to a closed file"} => client.finished # {}
  /\ topic # "download" => client.finished = {}

LEMMA FaultInit == Init => FaultInv
  <1> SUFFICES ASSUME Init
               PROVE  FaultInv
    OBVIOUS
  <1>1. client.download_file = "none" /\ client.finished = {} /\ client.fault = "none"
    BY DEF Init
  <1> QED
    BY <1>1 DEF FaultInv

LEMMA FaultSame ==
  ASSUME FaultInv, topic' = topic, client'.download_file = client.download_file,
         client'.finished = client.finished,
         client'.fault \in {"closed twice", "wrote to a closed file"}
         => client'.fault = client.fault
  PROVE  FaultInv'
  BY DEF FaultInv

LEMMA FaultStufftext ==
  ASSUME BaseInv, FaultInv, Parse_stufftext
  PROVE  FaultInv'
  <1>1. PICK q, text, c :
           /\ Alters(client, q, {"command"}) /\ IsClient(q) /\ Asks(q) /\ q.fault = "none"
           /\ Obeyed(q, text, c)
           /\ IsClient(c) => /\ Alters(c, client', {"fault"})
                             /\ client'.fault \in {c.fault, "stuck", "out of step"}
    BY StufftextParts
  <1>2. topic' = topic
    BY StufftextParts
  <1>3. q.download_file = client.download_file /\ q.finished = client.finished
    BY <1>1 DEF Alters, Names, Place
  <1>4. ASSUME IsClient(c), c.download_file = q.download_file, c.finished = q.finished,
               c.fault = "none"
        PROVE  FaultInv'
    <2>1. /\ client'.download_file = client.download_file
          /\ client'.finished = client.finished
      BY <1>1, <1>3, <1>4 DEF Alters, Names, Place
    <2> QED
      BY <1>1, <1>2, <1>4, <2>1, FaultSame
  <1>5. CASE text.verb = "cmd" /\ c = [NetQW_AppendReliableBuffer(q, text.request) EXCEPT
                                 !.loaded = Append(@, <<text.request.name, text.request.n>>)]
    <2> DEFINE l == Append(q.loaded, <<text.request.name, text.request.n>>)
               r == Append(q.reliable, text.request)
    <2>1. c = [q EXCEPT !.reliable = r, !.loaded = l]
      BY <1>1, <1>5 DEF NetQW_AppendReliableBuffer, IsClient, Names
    <2> HIDE DEF l, r
    <2>2. /\ IsClient(c) /\ c.download_file = q.download_file /\ c.finished = q.finished
          /\ c.fault = "none"
      BY <1>1, <2>1 DEF IsClient, Names
    <2> QED
      BY <1>4, <2>2
  <1>6. CASE c = NetQW_AppendReliableBuffer(q, Request("begin", q.servercount, 0))
    <2>1. Alters(q, c, {"reliable"}) /\ IsClient(c)
      BY <1>1, <1>6, AsksMore, OtherRequests
    <2>2. c.download_file = q.download_file /\ c.finished = q.finished /\ c.fault = "none"
      BY <1>1, <2>1 DEF Alters, Names, Place
    <2> QED
      BY <1>4, <2>1, <2>2
  <1>7. CASE c \in StartDownload(q, text.file)
    <2>1. /\ Alters(q, c, FileFields \cup {"fault", "reliable"}) /\ IsClient(c)
          /\ c.fault = IF q.download_file = "closed" /\ q.fault = "none"
                       THEN "closed twice" ELSE q.fault
          /\ c.download_file \in {"open", "none"}
      BY <1>1, <1>7, StartDownloadIs
    <2>2. /\ client'.download_file = c.download_file
          /\ client'.finished = c.finished /\ c.finished = q.finished
      BY <1>1, <2>1 DEF Alters, Names, Place, FileFields
    <2>3. client'.fault \in {"closed twice", "wrote to a closed file"} => client.finished # {}
      BY <1>1, <1>3, <2>1 DEF FaultInv
    <2> QED
      BY <1>2, <1>3, <2>1, <2>2, <2>3 DEF FaultInv
  <1>8. CASE c = q
    BY <1>1, <1>4, <1>8
  <1> QED
    BY <1>1, <1>5, <1>6, <1>7, <1>8 DEF Obeyed

LEMMA FaultDownload ==
  ASSUME BaseInv, FaultInv, Parse_download
  PROVE  FaultInv'
  <1> DEFINE t == BlockTaken(Taken)
             d == ParseDownload(Taken)
             p == PercentOf(Taken)
  <1>1. /\ IsClient(Taken) /\ Alters(client, Taken, {"command"}) /\ Asks(Taken)
        /\ Taken.fault = "none" /\ Taken.msg_readcount >= 1
        /\ SizeOf(Taken) \in {-1, 1}
        /\ IsClient(t) /\ Asks(t)
        /\ d = (IF p = 100 THEN FinishDownload(t) ELSE AskForMore(t, p))
        /\ Alters(d, client', {"fault"})
        /\ client'.fault \in {d.fault, "stuck", "out of step"}
        /\ topic' = topic
    BY DownloadParts
  <1>2. /\ Alters(Taken, t, {"download_file", "running", "content", "fault"})
        /\ t.fault \in FileFaults
        /\ Taken.download_file = "closed" => t.download_file = "closed"
        /\ Taken.download_file # "closed" => t.fault = "none"
        /\ SizeOf(Taken) = 1 => t.download_file = Taken.download_file
        /\ SizeOf(Taken) = -1 /\ Taken.download_file # "closed" => t.download_file = "none"
    BY <1>1, BlockTakenIs
  <1>3. topic # "download" => p # 100
    BY NoFinish
  <1> HIDE DEF t, d, p
  <1>4. Taken.download_file = client.download_file /\ Taken.finished = client.finished
        /\ t.finished = Taken.finished
    BY <1>1, <1>2 DEF Alters, Names, Place
  <1>5. /\ t.download_file \in {"none", "open", "closed"}
        /\ t.download_file = "closed" => t.finished # {}
        /\ t.fault # "none" => t.finished # {}
        /\ topic # "download" => t.finished = {}
    BY <1>1, <1>2, <1>4 DEF FaultInv
  <1>6. client'.download_file = d.download_file /\ client'.finished = d.finished
    BY <1>1 DEF Alters, Names, Place
  <1>7. CASE p # 100
    <2>1. Alters(t, d, {"lp", "reliable"})
      BY <1>1, <1>7, AskForMoreIs
    <2>2. d.download_file = t.download_file /\ d.finished = t.finished /\ d.fault = t.fault
      BY <2>1 DEF Alters, Names, Place
    <2> QED
      BY <1>1, <1>5, <1>6, <2>2 DEF FaultInv
  <1>8. CASE p = 100
    <2>1. /\ t.download_file = "open"
             => /\ d.download_file = "closed" /\ d.fault = t.fault
                /\ d.finished = t.finished \cup {[name |-> t.name, content |-> t.content]}
          /\ t.download_file \in {"none", "closed"}
             => /\ d.download_file = t.download_file /\ d.finished = t.finished
                /\ d.fault = IF t.fault # "none" THEN t.fault
                             ELSE IF t.download_file = "none" THEN "closed no file"
                             ELSE "closed twice"
      BY <1>1, <1>8, FinishIs
    <2> DEFINE f == [name |-> t.name, content |-> t.content]
    <2>2. CASE t.download_file = "open"
      <3>1. d.finished # {}
        BY <2>1, <2>2
      <3> QED
        BY <1>1, <1>3, <1>6, <1>8, <2>1, <2>2, <3>1 DEF FaultInv
    <2>3. CASE t.download_file \in {"none", "closed"}
      <3> HIDE DEF f
      <3>1. client'.fault \in {"closed twice", "wrote to a closed file"} => d.finished # {}
        BY <1>1, <1>5, <2>1, <2>3
      <3> QED
        BY <1>1, <1>3, <1>5, <1>6, <1>8, <2>1, <2>3, <3>1 DEF FaultInv
    <2> QED
      BY <1>5, <2>2, <2>3
  <1> QED
    BY <1>7, <1>8

LEMMA FaultNext ==
  ASSUME BaseInv, FaultInv, [Next]_vars
  PROVE  FaultInv'
  <1> DEFINE Fixed == {"download_file", "finished"}
  <1>1. ASSUME NEW S, Alters(client, client', S), S \cap Fixed = {}, topic' = topic,
               client'.fault \in {"none", "stuck", "out of step", "overflow", "freed line"}
               \/ "fault" \notin S
        PROVE  FaultInv'
    <2>1. /\ client'.download_file = client.download_file
          /\ client'.finished = client.finished
          /\ "fault" \notin S => client'.fault = client.fault
      BY <1>1 DEF Alters, Names, Place
    <2> QED
      BY <1>1, <2>1, FaultSame
  <1>2. ASSUME NEW S, Steps(S), S \cap Fixed = {}
        PROVE  FaultInv'
    BY <1>1, <1>2 DEF Steps
  <1>3. CASE ParseServerMessage
    <2>1. CASE BadRead \/ EndOfMessage \/ NotViable \/ Misread
      BY <1>2, <2>1, PlainSteps
    <2>2. CASE Parse_fixed
      BY <1>2, <2>2, FixedSteps
    <2>3. CASE Parse_print
      <3>1. PICK c, d : \E s \in Seq(Nat) :
              /\ Alters(client, c, {"command"}) /\ IsClient(c)
              /\ \/ Room(c) < 0 /\ d = Faulty(c, "overflow")
                 \/ Room(c) >= 0 /\ d = Printed(c, s)
                 \/ Room(c) >= 0 /\ d = EndLine(Printed(c, s))
              /\ Alters(d, client', {"fault"})
              /\ client'.fault \in {d.fault, "stuck", "out of step"}
        BY <2>3, PrintSteps
      <3>2. /\ client.fault = "none" /\ topic' = topic
            /\ Alters(client, client', LineFields \cup {"command", "fault"})
        BY <2>3, PrintSteps
      <3>3. PICK s :
              /\ Alters(client, c, {"command"}) /\ IsClient(c)
              /\ \/ Room(c) < 0 /\ d = Faulty(c, "overflow")
                 \/ Room(c) >= 0 /\ d = Printed(c, s)
                 \/ Room(c) >= 0 /\ d = EndLine(Printed(c, s))
        BY <3>1
      <3>4. c.fault = "none"
        BY <3>2, <3>3 DEF Alters, Names, Place
      <3>5. Faulty(c, "overflow").fault = "overflow"
        BY <3>3, <3>4, FaultyAlters
      <3> DEFINE p == Printed(c, s)
      <3>6. /\ Alters(c, p, {"buffer", "buffer_position", "printed", "long"})
            /\ IsClient(p)
        BY <3>3, PrintedIs
      <3> HIDE DEF p
      <3>7. p.fault = "none"
        BY <3>4, <3>6 DEF Alters, Names, Place
      <3>8. Alters(p, EndLine(p), {"buffer", "buffer_position", "console_output"})
        BY <3>6, EndLineIs
      <3>9. EndLine(p).fault = "none"
        BY <3>7, <3>8 DEF Alters, Names, Place
      <3>10. d.fault \in {"none", "overflow"}
        BY <3>3, <3>5, <3>7, <3>9 DEF p
      <3> QED
        BY <1>1, <3>1, <3>2, <3>10 DEF LineFields
    <2>4. CASE Parse_lists
      BY <1>2, <2>4, ListsSteps
    <2>5. CASE Parse_world
      <3>1. Steps({"abort", "validsequence", "deltapoint"})
        BY <2>5, WorldSteps
      <3> QED
        BY <1>2, <3>1
    <2> QED
      BY <1>3, <2>1, <2>2, <2>3, <2>4, <2>5, FaultStufftext, FaultDownload
      DEF ParseServerMessage
  <1>4. CASE Get_Message
    <2>1. /\ topic' = topic
          /\ \A x \in Names \ ({"message", "parsing", "cut", "command",
                                "incoming_sequence"} \cup Place) : client'[x] = client[x]
      BY <1>4, GetStep
    <2>2. /\ client'.download_file = client.download_file
          /\ client'.finished = client.finished /\ client'.fault = client.fault
      BY <2>1 DEF Names, Place
    <2> QED
      BY <2>1, <2>2, FaultSame
  <1>5. CASE QWC_GetConsoleOutput
    BY <1>1, <1>5, OutputStep
  <1>6. CASE QWC_Quit
    BY <1>1, <1>6, QuitStep
  <1>7. CASE Answer
    <2>1. client.reliable # << >> /\ client' = [client EXCEPT !.reliable = Tail(@)]
          /\ topic' = topic
      BY <1>7 DEF Answer
    <2>2. Alters(client, client', {"reliable"})
      BY <2>1, AskedIs
    <2> QED
      BY <1>1, <2>1, <2>2
  <1>8. CASE UNCHANGED <<topic, client>>
    BY <1>8, FaultSame
  <1> QED
    BY <1>3, <1>4, <1>5, <1>6, <1>7, <1>8 DEF Next, vars, ChangeLevel, Send

\* A field before others.
Pushed(f, gs) == <<f>> \o gs

LEMMA PushedWritten ==
  ASSUME NEW f, NEW gs, Listed(gs)
  PROVE  LET m == Written(Pushed(f, gs))
             w == Written(gs)
         IN  /\ Listed(Pushed(f, gs)) /\ Listed(m) /\ Listed(w)
             /\ Len(m) = Len(Bytes(f)) + Len(w) /\ m[1] = f
             /\ \A i \in 1 .. Len(w) : m[Len(Bytes(f)) + i] = w[i]
  <1> DEFINE b == Bytes(f)
             w == Written(gs)
             m == Written(Pushed(f, gs))
  <1>1. m = b \o w /\ Listed(b) /\ Listed(w) /\ Listed(m) /\ Listed(Pushed(f, gs))
    BY WrittenFirst, WrittenListed DEF Pushed
  <1>2. Len(b) \in Nat /\ Len(b) >= 1 /\ b[1] = f
    BY BytesLen, BytesIs
  <1> HIDE DEF b, w, m
  <1>3. Len(m) = Len(b) + Len(w) /\ \A i \in 1 .. Len(b) : m[i] = b[i]
    BY ONLY <1>1, ListedJoin
  <1>4. \A i \in 1 .. Len(w) : m[Len(b) + i] = w[i]
    BY ONLY <1>1, ListedJoin
  <1>5. 1 \in 1 .. Len(b)
    BY <1>2
  <1> QED
    BY <1>1, <1>2, <1>3, <1>4, <1>5 DEF b, w, m

LEMMA PushedOne ==
  ASSUME NEW a
  PROVE  <<a>> = Pushed(a, << >>)
  BY ListedShort, ListedEmpty DEF Pushed

LEMMA PushedTwo ==
  ASSUME NEW a, NEW b
  PROVE  <<a, b>> = Pushed(a, <<b>>)
  BY PairIs DEF Pushed

LEMMA PushedThree ==
  ASSUME NEW a, NEW b, NEW c
  PROVE  <<a, b, c>> = Pushed(a, <<b, c>>)
  BY PairIs DEF Pushed

LEMMA PushedFour ==
  ASSUME NEW a, NEW b, NEW c, NEW d
  PROVE  <<a, b, c, d>> = Pushed(a, <<b, c, d>>)
  BY PairIs, SMT DEF Pushed

\* One field.
LEMMA OneField ==
  ASSUME NEW f
  PROVE  Listed(<<f>>)
  BY ListedShort

LEMMA WrittenLast ==
  ASSUME NEW f
  PROVE  Listed(Written(<<f>>)) /\ Len(Written(<<f>>)) = Len(Bytes(f)) /\ Written(<<f>>)[1] = f
  BY WrittenOne, BytesIs

\* How many bytes the fields of a download have.
LEMMA BytesLens ==
  ASSUME NEW f
  PROVE  /\ f[1] \in {"svc", "byte"} => Len(Bytes(f)) = 1
         /\ f[1] = "short" => Len(Bytes(f)) = 2
         /\ f[1] = "string" => Len(Bytes(f)) = 2
         /\ f[1] = "data" => Len(Bytes(f)) = 1
  <1>1. /\ {"svc", "byte", "short"} \subseteq DOMAIN Width
        /\ Width["svc"] = 1 /\ Width["byte"] = 1 /\ Width["short"] = 2
        /\ "data" \notin KindNames
    BY DEF Width, KindNames
  <1>2. f[1] \in DOMAIN Width => Len(Bytes(f)) = Width[f[1]]
    BY BytesIs
  <1>3. /\ f[1] = "string" => Len(Bytes(f)) = 2
        /\ f[1] \notin KindNames => Len(Bytes(f)) = 1
    BY BytesIs
  <1> QED
    BY <1>1, <1>2, <1>3

\* The server asks the client to download a file.
Stuffed(k) == Packet(Stuff([verb |-> "download", file |-> k]))

LEMMA StuffedIs ==
  ASSUME NEW k
  PROVE  LET m == Stuffed(k).message
         IN  /\ Listed(m) /\ Len(m) = 3 /\ m[1] = Svc("stufftext")
             /\ m[2] = Field("string", [verb |-> "download", file |-> k])
  <1>1. PICK t : t = Field("string", [verb |-> "download", file |-> k])
    OBVIOUS
  <1>2. PICK s : s = Svc("stufftext")
    OBVIOUS
  <1>3. PICK gs : gs = <<t>>
    OBVIOUS
  <1>4. PICK w : w = Written(gs)
    OBVIOUS
  <1>5. PICK m : m = Written(Pushed(s, gs))
    OBVIOUS
  <1>6. t[1] = "string" /\ s[1] = "svc"
    BY <1>1, <1>2, FieldNames
  <1>7. Stuffed(k).message = m
    BY <1>1, <1>2, <1>3, <1>5, PushedTwo DEF Stuffed, Packet, Stuff
  <1>12. Listed(gs)
    BY <1>3, OneField
  <1>8. Len(w) = 2 /\ w[1] = t
    BY <1>3, <1>4, <1>6, WrittenLast, BytesLens
  <1>9. Len(Bytes(s)) = 1
    BY <1>6, BytesLens
  <1>10. Listed(m) /\ Len(m) = Len(Bytes(s)) + Len(w) /\ m[1] = s
         /\ \A i \in 1 .. Len(w) : m[Len(Bytes(s)) + i] = w[i]
    <2>1. Listed(m) /\ m[1] = s
      BY <1>4, <1>5, <1>12, PushedWritten, SMT
    <2>2. Len(m) = Len(Bytes(s)) + Len(w)
      BY <1>4, <1>5, <1>12, PushedWritten, SMT
    <2>3. \A i \in 1 .. Len(w) : m[Len(Bytes(s)) + i] = w[i]
      BY <1>4, <1>5, <1>12, PushedWritten, SMT
    <2> QED
      BY <2>1, <2>2, <2>3
  <1>11. Listed(m) /\ Len(m) = 3 /\ m[1] = s /\ m[2] = t
    BY <1>8, <1>9, <1>10
  <1> QED
    BY <1>1, <1>2, <1>7, <1>11

\* What the server answers, and the packet it is in.
Reply(file, block, no) ==
  IF block <= Blocks
  THEN <<Svc("download"), Field("short", 1),
         Field("byte", (100 * block) \div Blocks),
         Field("data", <<file, block>>)>>
  ELSE <<Svc("download"), Field("short", -1), Field("byte", no)>>

\* The bytes of the head of an answer, before the block.
LEMMA HeadIs ==
  ASSUME NEW s, NEW h, NEW b, NEW g, Listed(g), s[1] = "svc", h[1] = "short", b[1] = "byte"
  PROVE  LET m == Written(Pushed(s, Pushed(h, Pushed(b, g))))
         IN  /\ Listed(m) /\ m[1] = s /\ m[2] = h /\ m[4] = b
             /\ Len(m) = 4 + Len(Written(g))
             /\ Len(Written(g)) >= 1 => m[5] = Written(g)[1]
  <1> DEFINE w == Written(g)
             g1 == Pushed(b, g)
             w1 == Written(g1)
             g2 == Pushed(h, g1)
             w2 == Written(g2)
             m == Written(Pushed(s, g2))
  <1>1. Len(Bytes(s)) = 1 /\ Len(Bytes(h)) = 2 /\ Len(Bytes(b)) = 1
    BY BytesLens
  <1>2. Listed(g1) /\ Listed(w) /\ Len(w1) = Len(Bytes(b)) + Len(w) /\ w1[1] = b
        /\ \A i \in 1 .. Len(w) : w1[Len(Bytes(b)) + i] = w[i]
    BY PushedWritten
  <1> HIDE DEF g1
  <1>3. Listed(g2) /\ Len(w2) = Len(Bytes(h)) + Len(w1) /\ w2[1] = h
        /\ \A i \in 1 .. Len(w1) : w2[Len(Bytes(h)) + i] = w1[i]
    BY ONLY <1>2, PushedWritten
  <1> HIDE DEF g2
  <1>4. Listed(m) /\ Len(m) = Len(Bytes(s)) + Len(w2) /\ m[1] = s
        /\ \A i \in 1 .. Len(w2) : m[Len(Bytes(s)) + i] = w2[i]
    BY ONLY <1>3, PushedWritten
  <1>5. Len(w) \in Nat
    BY <1>2, ListedLen
  <1> HIDE DEF w, w1, w2, m
  <1>6. Len(w1) = 1 + Len(w) /\ Len(w2) = 3 + Len(w) /\ Len(m) = 4 + Len(w)
    BY <1>1, <1>2, <1>3, <1>4, <1>5
  <1>7. 1 \in 1 .. Len(w1) /\ 1 \in 1 .. Len(w2) /\ 3 \in 1 .. Len(w2)
    BY <1>5, <1>6
  <1>8. m[2] = w2[1] /\ m[4] = w2[3] /\ w2[3] = w1[1]
    BY <1>1, <1>3, <1>4, <1>7
  <1>9. ASSUME Len(w) >= 1
        PROVE  m[5] = w[1]
    <2>1. 1 \in 1 .. Len(w) /\ 2 \in 1 .. Len(w1) /\ 4 \in 1 .. Len(w2)
      BY <1>5, <1>6, <1>9
    <2> QED
      BY <1>1, <1>2, <1>3, <1>4, <2>1
  <1> QED
    BY <1>2, <1>3, <1>4, <1>6, <1>8, <1>9 DEF w, w1, w2, m, g1, g2

\* An answer with a block, and one without.
LEMMA AnswerIs ==
  ASSUME NEW s, NEW h, NEW b, NEW d, s[1] = "svc", h[1] = "short", b[1] = "byte",
         d[1] = "data"
  PROVE  /\ LET m == Written(<<s, h, b, d>>)
            IN  /\ Listed(m) /\ m[1] = s /\ m[2] = h /\ m[4] = b
                /\ Len(m) = 5 /\ m[5] = d
         /\ LET m == Written(<<s, h, b>>)
            IN  Listed(m) /\ m[1] = s /\ m[2] = h /\ m[4] = b /\ Len(m) = 4
  <1>1. /\ <<s, h, b, d>> = Pushed(s, Pushed(h, Pushed(b, <<d>>)))
        /\ <<s, h, b>> = Pushed(s, Pushed(h, Pushed(b, << >>)))
    <2>1. <<s, h, b, d>> = Pushed(s, <<h, b, d>>)
      BY ONLY PushedFour, SMT
    <2>2. <<s, h, b>> = Pushed(s, <<h, b>>)
      BY ONLY PushedThree, SMT
    <2>3. <<h, b, d>> = Pushed(h, <<b, d>>)
      BY ONLY PushedThree, SMT
    <2>4. <<h, b>> = Pushed(h, <<b>>)
      BY ONLY PushedTwo, SMT
    <2>5. <<b, d>> = Pushed(b, <<d>>)
      BY ONLY PushedTwo, SMT
    <2>6. <<b>> = Pushed(b, << >>)
      BY ONLY PushedOne, SMT
    <2> QED
      BY ONLY <2>1, <2>2, <2>3, <2>4, <2>5, <2>6
  <1>2. PICK g : g = <<d>>
    OBVIOUS
  <1>8. Listed(g)
    BY <1>2, OneField
  <1>3. Len(Written(g)) = 1 /\ Written(g)[1] = d
    <2>1. Len(Bytes(d)) = 1
      BY BytesLens
    <2> QED
      BY <1>2, <2>1, WrittenLast
  <1>4. PICK e : e = << >>
    OBVIOUS
  <1>9. Listed(e)
    BY <1>4, ListedEmpty
  <1>5. Len(Written(e)) = 0
    BY <1>4, WrittenEmpty
  <1>6. LET m == Written(Pushed(s, Pushed(h, Pushed(b, g))))
        IN  Listed(m) /\ m[1] = s /\ m[2] = h /\ m[4] = b /\ Len(m) = 5 /\ m[5] = d
    <2>1. PICK m : m = Written(Pushed(s, Pushed(h, Pushed(b, g))))
      OBVIOUS
    <2>2. Listed(m) /\ m[1] = s /\ m[2] = h /\ m[4] = b
      BY <1>8, <2>1, HeadIs, SMT
    <2>3. Len(m) = 4 + Len(Written(g))
      BY <1>8, <2>1, HeadIs, SMT
    <2>4. Len(Written(g)) >= 1 => m[5] = Written(g)[1]
      BY <1>8, <2>1, HeadIs, SMT
    <2> QED
      BY <1>3, <2>1, <2>2, <2>3, <2>4
  <1>7. LET m == Written(Pushed(s, Pushed(h, Pushed(b, e))))
        IN  Listed(m) /\ m[1] = s /\ m[2] = h /\ m[4] = b /\ Len(m) = 4
    <2>1. PICK m : m = Written(Pushed(s, Pushed(h, Pushed(b, e))))
      OBVIOUS
    <2>2. Listed(m) /\ m[1] = s /\ m[2] = h /\ m[4] = b
      BY <1>9, <2>1, HeadIs, SMT
    <2>3. Len(m) = 4 + Len(Written(e))
      BY <1>9, <2>1, HeadIs, SMT
    <2> QED
      BY <1>5, <2>1, <2>2, <2>3
  <1> QED
    BY <1>1, <1>2, <1>4, <1>6, <1>7

\* What the client finds in a reply.
IsReply(m, file, block, no) ==
  /\ Listed(m) /\ m[1] = Svc("download")
  /\ block <= Blocks
     => /\ Len(m) = 5 /\ m[2] = Field("short", 1)
        /\ m[4] = Field("byte", (100 * block) \div Blocks)
        /\ m[5] = Field("data", <<file, block>>)
  /\ ~(block <= Blocks)
     => Len(m) = 4 /\ m[2] = Field("short", -1) /\ m[4] = Field("byte", no)

LEMMA ReplyIs ==
  ASSUME NEW file, NEW block, NEW no
  PROVE  IsReply(Packet(Reply(file, block, no)).message, file, block, no)
  <1> DEFINE m == Packet(Reply(file, block, no)).message
  <1>1. PICK s : s = Svc("download")
    OBVIOUS
  <1>2. PICK h : h = IF block <= Blocks THEN Field("short", 1) ELSE Field("short", -1)
    OBVIOUS
  <1>3. PICK b : b = IF block <= Blocks THEN Field("byte", (100 * block) \div Blocks)
                     ELSE Field("byte", no)
    OBVIOUS
  <1>4. PICK d : d = Field("data", <<file, block>>)
    OBVIOUS
  <1>5. s[1] = "svc" /\ h[1] = "short" /\ b[1] = "byte" /\ d[1] = "data"
    BY <1>1, <1>2, <1>3, <1>4, FieldNames
  <1>6. Packet(Reply(file, block, no)).message
        = IF block <= Blocks THEN Written(<<s, h, b, d>>) ELSE Written(<<s, h, b>>)
    BY <1>1, <1>2, <1>3, <1>4 DEF Packet, Reply
  <1>7. /\ LET w == Written(<<s, h, b, d>>)
           IN  /\ Listed(w) /\ w[1] = s /\ w[2] = h /\ w[4] = b
               /\ Len(w) = 5 /\ w[5] = d
        /\ LET w == Written(<<s, h, b>>)
           IN  Listed(w) /\ w[1] = s /\ w[2] = h /\ w[4] = b /\ Len(w) = 4
    BY <1>5, AnswerIs
  <1> HIDE DEF m
  <1>8. /\ Listed(m) /\ m[1] = Svc("download")
        /\ block <= Blocks
           => /\ Len(m) = 5 /\ m[2] = Field("short", 1)
              /\ m[4] = Field("byte", (100 * block) \div Blocks)
              /\ m[5] = Field("data", <<file, block>>)
        /\ ~(block <= Blocks)
           => Len(m) = 4 /\ m[2] = Field("short", -1) /\ m[4] = Field("byte", no)
    BY <1>1, <1>2, <1>3, <1>4, <1>6, <1>7 DEF m
  <1>9. IsReply(m, file, block, no)
    BY <1>8 DEF IsReply
  <1> QED
    BY <1>9 DEF m

\* The parts of a reply, each for itself.
LEMMA ReplyParts ==
  ASSUME NEW file, NEW block, NEW no
  PROVE  LET m == Packet(Reply(file, block, no)).message
         IN  /\ m[1] = Svc("download")
             /\ Len(m) = 4 \/ Len(m) = 5
             /\ block <= Blocks => Len(m) = 5
             /\ ~(block <= Blocks) => m[4] = Field("byte", no)
  <1>1. PICK m : m = Packet(Reply(file, block, no)).message
    OBVIOUS
  <1>2. IsReply(m, file, block, no)
    BY ONLY <1>1, ReplyIs, Zenon
  <1>3. /\ m[1] = Svc("download")
        /\ Len(m) = 4 \/ Len(m) = 5
        /\ block <= Blocks => Len(m) = 5
        /\ ~(block <= Blocks) => m[4] = Field("byte", no)
    BY ONLY <1>2, Zenon DEF IsReply
  <1> QED
    BY ONLY <1>1, <1>3, Zenon

\* The percentage is 100 for the last block and for no other.
LEMMA PercentIs ==
  ASSUME NEW block \in 1 .. Blocks
  PROVE  (100 * block) \div Blocks = 100 <=> block = Blocks
  <1>1. Blocks \in Nat /\ Blocks >= 1 /\ block \in Nat /\ block <= Blocks
    BY ServerMessageAssumption
  <1> QED
    BY <1>1

\* The blocks of a file up to one of them.
Whole(name, n) == [i \in 1 .. n |-> Field("data", <<name, i>>)]

LEMMA WholeMore ==
  ASSUME NEW name, NEW n \in Nat
  PROVE  /\ Whole(name, 0) = << >>
         /\ n >= 1 => Whole(name, n - 1) \o <<Field("data", <<name, n>>)>> = Whole(name, n)
  <1>1. Whole(name, 0) = << >>
    BY DEF Whole
  <1>2. ASSUME n >= 1
        PROVE  Whole(name, n - 1) \o <<Field("data", <<name, n>>)>> = Whole(name, n)
    <2> DEFINE D(i) == Field("data", <<name, i>>)
               V == {D(i) : i \in 1 .. n}
               p == Whole(name, n - 1)
               q == <<D(n)>>
               t == Whole(name, n)
    <2>1. /\ p = [i \in 1 .. n - 1 |-> D(i)] /\ t = [i \in 1 .. n |-> D(i)]
          /\ \A i \in 1 .. n : D(i) \in V
      BY DEF Whole
    <2> HIDE DEF D, V, p, t
    <2>2. p \in Seq(V) /\ Len(p) = n - 1 /\ \A i \in 1 .. n - 1 : p[i] = D(i)
      BY <1>2, <2>1
    <2>3. q \in Seq(V) /\ Len(q) = 1 /\ q[1] = D(n)
      BY <1>2, <2>1
    <2> HIDE DEF q
    <2>4. /\ t = [i \in 1 .. Len(p) + Len(q) |-> t[i]]
          /\ \A i \in 1 .. Len(p) : t[i] = p[i]
          /\ \A i \in 1 .. Len(q) : t[Len(p) + i] = q[i]
      BY <1>2, <2>1, <2>2, <2>3
    <2>5. t = p \o q
      BY <2>2, <2>3, <2>4, JoinIs
    <2> QED
      BY <2>5 DEF t, p, q, D
  <1> QED
    BY <1>1, <1>2

\* A field is read where it is.
LEMMA ReadHere ==
  ASSUME NEW c, IsClient(c), Len(c.message) \in Nat
  PROVE  /\ \A kind \in DOMAIN Width \ {"float"} :
              c.msg_readcount + Width[kind] <= Len(c.message)
              => Read(c, kind).msg_readcount = c.msg_readcount + Width[kind]
         /\ c.msg_readcount + 2 <= Len(c.message) /\ ~Here(c, "end")
            => Read(c, "string").msg_readcount = c.msg_readcount + 2
         /\ \A kind \in KindNames : Read(c, kind).message = c.message /\ IsClient(Read(c, kind))
  <1>1. ASSUME NEW kind \in DOMAIN Width \ {"float"},
               c.msg_readcount + Width[kind] <= Len(c.message)
        PROVE  Read(c, kind).msg_readcount = c.msg_readcount + Width[kind]
    <2>1. kind # "string"
      BY DEF Width
    <2>2. Read(c, kind) = Advance(c, kind, Width[kind])
      BY <1>1, <2>1, ReadIs DEF ReadInteger, Fits
    <2> QED
      BY <2>2 DEF Advance, IsClient, Names
  <1>2. ASSUME c.msg_readcount + 2 <= Len(c.message), ~Here(c, "end")
        PROVE  Read(c, "string").msg_readcount = c.msg_readcount + 2
    <2>1. Fits(c, 1) /\ Fits(c, 2)
      BY <1>2 DEF Fits, IsClient
    <2>2. Read(c, "string") = Advance(c, "string", 2)
      BY <1>2, <2>1, ReadIs DEF MSG_ReadString
    <2> QED
      BY <2>2 DEF Advance, IsClient, Names
  <1>3. ASSUME NEW kind \in KindNames
        PROVE  Read(c, kind).message = c.message /\ IsClient(Read(c, kind))
    BY ReadChanges DEF Changes, Names, Place
  <1> QED
    BY <1>1, <1>2, <1>3

-----------------------------------------------------------------------------
(* What is on its way between the client and the server in a download. *)

\* Sequences of things of Q, and with one x among them.
Quiet(s, Q) == Listed(s) /\ \A i \in DOMAIN s : s[i] \in Q

Alone(x, s, Q) ==
  /\ Listed(s)
  /\ \E i \in DOMAIN s : s[i] = x /\ \A j \in DOMAIN s : j # i => s[j] \in Q

\* What the client and the server say beside the download.
Said == {[name |-> "say"]}
Offers == {Stuffed(k) : k \in Nat}

Get(n) == [name |-> "download", file |-> n]
More == [name |-> "nextdl"]
Block(s, no) == Packet(Reply(s.file, s.block, no))
Answering(s) == \E no \in {0, 50} : Alone(Block(s, no), s.down, Offers)

\* There is nothing to read, or a text that offers another file.
Resting(c) ==
  c.parsing => \/ c.msg_readcount >= Len(c.message)
               \/ c.msg_readcount = 0 /\ \E k \in Nat : c.message = Stuffed(k).message

\* The block that is on its way is the one that the file lacks.
Expected(c, s) ==
  /\ s.file = c.name /\ s.block \in 1 .. Blocks + 1
  /\ c.download_file = "open" /\ s.block <= Blocks => c.content = Whole(c.name, s.block - 1)

Idle(c, s) ==
  /\ ~c.running /\ c.download_file \in {"none", "closed"}
  /\ Quiet(c.reliable, Said) /\ Quiet(s.down, Offers) /\ Resting(c)

\* The download is asked for, the next block is asked for, the block is on its way,
\* and it is being read.
Asking(c, s) ==
  /\ Alone(Get(c.name), c.reliable, Said) /\ Quiet(s.down, Offers) /\ Resting(c)
  /\ c.content = << >>

Going(c, s) ==
  /\ Alone(More, c.reliable, Said) /\ Quiet(s.down, Offers) /\ Resting(c)
  /\ s.file = c.name /\ s.block \in 1 .. Blocks - 1
  /\ c.download_file = "open" => c.content = Whole(c.name, s.block)

Coming(c, s) ==
  /\ Quiet(c.reliable, Said) /\ Answering(s) /\ Resting(c)
  /\ Expected(c, s)

Reading(c, s) ==
  /\ Quiet(c.reliable, Said) /\ Quiet(s.down, Offers)
  /\ c.parsing /\ c.msg_readcount = 0
  /\ \E no \in {0, 50} : c.message = Block(s, no).message
  /\ Expected(c, s)

Running(c, s) ==
  /\ c.running /\ c.download_file \in {"none", "open"}
  /\ Asking(c, s) \/ Going(c, s) \/ Coming(c, s) \/ Reading(c, s)

\* There was no such file: the reader stands before the last byte of the answer, which
\* it takes for a command.
Doomed(c) ==
  /\ c.parsing /\ c.msg_readcount = 3
  /\ \E file : \E no \in {0, 50} : c.message = Packet(Reply(file, Blocks + 1, no)).message

\* Nothing has gone wrong, and no download was begun while another was running.
Sound(c) == ~c.overlap /\ ~c.abort /\ c.fault = "none"

Finished(c) == ~c.overlap => \A f \in c.finished : f.content = Whole(f.name, Blocks)

DownloadInv ==
  topic = "download" =>
    /\ Finished(client)
    /\ Sound(client) => Idle(client, server) \/ Running(client, server) \/ Doomed(client)

LEMMA QuietMore ==
  ASSUME NEW Q, NEW s, Quiet(s, Q), NEW x
  PROVE  /\ x \in Q => Quiet(Append(s, x), Q)
         /\ Alone(x, Append(s, x), Q)
  <1> DEFINE t == Append(s, x)
  <1>1. /\ Listed(s) /\ Listed(t) /\ DOMAIN t = 1 .. Len(s) + 1
        /\ \A i \in DOMAIN s : t[i] = s[i]
        /\ t[Len(s) + 1] = x
    BY AppendIs DEF Quiet
  <1>2. Len(s) \in Nat /\ DOMAIN s = 1 .. Len(s)
    BY <1>1, ListedLen
  <1> HIDE DEF t
  <1>3. \A i \in DOMAIN t : i = Len(s) + 1 \/ i \in DOMAIN s
    BY <1>1, <1>2
  <1>4. Len(s) + 1 \in DOMAIN t
    BY <1>1, <1>2
  <1>5. \A j \in DOMAIN t : j # Len(s) + 1 => t[j] \in Q
    BY <1>1, <1>3 DEF Quiet
  <1>6. Alone(x, t, Q)
    BY <1>1, <1>4, <1>5 DEF Alone
  <1>7. x \in Q => Quiet(t, Q)
    BY <1>1, <1>5 DEF Quiet
  <1> QED
    BY <1>6, <1>7 DEF t

LEMMA AloneMore ==
  ASSUME NEW Q, NEW s, NEW x, Alone(x, s, Q), NEW y \in Q
  PROVE  Alone(x, Append(s, y), Q)
  <1> DEFINE t == Append(s, y)
  <1>1. PICK n \in DOMAIN s : s[n] = x /\ \A j \in DOMAIN s : j # n => s[j] \in Q
    BY DEF Alone
  <1>2. /\ Listed(s) /\ Listed(t) /\ DOMAIN t = 1 .. Len(s) + 1
        /\ \A i \in DOMAIN s : t[i] = s[i]
        /\ t[Len(s) + 1] = y
    BY AppendIs DEF Alone
  <1>3. Len(s) \in Nat /\ DOMAIN s = 1 .. Len(s)
    BY <1>2, ListedLen
  <1> HIDE DEF t
  <1>4. \A i \in DOMAIN t : i = Len(s) + 1 \/ i \in DOMAIN s
    BY <1>2, <1>3
  <1>5. n \in DOMAIN t /\ t[n] = x
    BY <1>1, <1>2, <1>3
  <1>6. \A j \in DOMAIN t : j # n => t[j] \in Q
    BY <1>1, <1>2, <1>4
  <1> QED
    BY <1>2, <1>5, <1>6 DEF Alone, t

LEMMA QuietLess ==
  ASSUME NEW Q, NEW s, Quiet(s, Q), s # << >>
  PROVE  Head(s) \in Q /\ Quiet(Tail(s), Q)
  <1>1. /\ Listed(Tail(s)) /\ \A i \in DOMAIN Tail(s) : i + 1 \in DOMAIN s /\ Tail(s)[i] = s[i + 1]
        /\ 1 \in DOMAIN s /\ Head(s) = s[1]
    BY TailIs DEF Quiet
  <1> QED
    BY <1>1 DEF Quiet

LEMMA AloneLess ==
  ASSUME NEW Q, NEW s, NEW x, Alone(x, s, Q), s # << >>
  PROVE  \/ Head(s) = x /\ Quiet(Tail(s), Q)
         \/ Head(s) \in Q /\ Alone(x, Tail(s), Q)
  <1> DEFINE t == Tail(s)
  <1>1. PICK n \in DOMAIN s : s[n] = x /\ \A j \in DOMAIN s : j # n => s[j] \in Q
    BY DEF Alone
  <1>2. /\ Listed(s) /\ Listed(t) /\ Len(t) = Len(s) - 1
        /\ \A i \in DOMAIN t : i + 1 \in DOMAIN s /\ t[i] = s[i + 1]
        /\ 1 \in DOMAIN s /\ Head(s) = s[1]
    BY TailIs DEF Alone
  <1>3. /\ Len(s) \in Nat /\ DOMAIN s = 1 .. Len(s)
        /\ Len(t) \in Nat /\ DOMAIN t = 1 .. Len(t)
    BY <1>2, ListedLen
  <1> HIDE DEF t
  <1>4. CASE n = 1
    <2>1. \A i \in DOMAIN t : i + 1 # 1
      BY <1>3
    <2>2. Quiet(t, Q)
      BY <1>1, <1>2, <1>4, <2>1 DEF Quiet
    <2> QED
      BY <1>1, <1>2, <1>4, <2>2 DEF t
  <1>5. CASE n # 1
    <2>1. n - 1 \in DOMAIN t /\ n - 1 + 1 = n
      BY <1>2, <1>3, <1>5
    <2>2. t[n - 1] = x
      BY <1>1, <1>2, <2>1
    <2>3. \A j \in DOMAIN t : j # n - 1 => j + 1 # n
      BY <1>3, <2>1
    <2>4. \A j \in DOMAIN t : j # n - 1 => t[j] \in Q
      BY <1>1, <1>2, <2>3
    <2>5. Alone(x, t, Q)
      BY <1>2, <2>1, <2>2, <2>4 DEF Alone
    <2>6. Head(s) \in Q
      BY <1>1, <1>2, <1>5
    <2> QED
      BY <2>5, <2>6 DEF t
  <1> QED
    BY <1>4, <1>5

LEMMA DownloadInit == Init => DownloadInv
  <1> SUFFICES ASSUME Init
               PROVE  DownloadInv
    OBVIOUS
  <1>1. /\ client.finished = {} /\ client.running = FALSE /\ client.download_file = "none"
        /\ client.parsing = FALSE /\ server.down = << >>
        /\ topic = "download" => client.reliable = << >>
    BY DEF Init
  <1>2. \A Q : Quiet(<< >>, Q)
    BY ListedEmpty DEF Quiet
  <1>3. Finished(client)
    BY <1>1 DEF Finished
  <1>4. topic = "download" => Idle(client, server)
    BY <1>1, <1>2 DEF Idle, Resting
  <1> QED
    BY <1>3, <1>4 DEF DownloadInv

\* What the invariant looks at.
Looks == {"running", "download_file", "reliable", "parsing", "message", "name", "content"}

LEMMA StateSame ==
  ASSUME NEW c, NEW d, NEW s, \A x \in Looks : d[x] = c[x],
         d.msg_readcount = c.msg_readcount
  PROVE  /\ Idle(c, s) => Idle(d, s)
         /\ Running(c, s) => Running(d, s)
         /\ Doomed(c) => Doomed(d)
  <1>1. /\ d.running = c.running /\ d.download_file = c.download_file
        /\ d.reliable = c.reliable /\ d.parsing = c.parsing /\ d.message = c.message
        /\ d.name = c.name /\ d.content = c.content
    BY DEF Looks
  <1>2. Resting(c) => Resting(d)
    BY <1>1 DEF Resting
  <1>3. Expected(c, s) => Expected(d, s)
    BY <1>1 DEF Expected
  <1>4. Idle(c, s) => Idle(d, s)
    BY <1>1, <1>2 DEF Idle
  <1>5. Asking(c, s) => Asking(d, s)
    BY <1>1, <1>2 DEF Asking
  <1>6. Going(c, s) => Going(d, s)
    BY <1>1, <1>2 DEF Going
  <1>7. Coming(c, s) => Coming(d, s)
    BY <1>1, <1>2, <1>3 DEF Coming
  <1>8. Reading(c, s) => Reading(d, s)
    BY <1>1, <1>3 DEF Reading
  <1>9. Doomed(c) => Doomed(d)
    BY <1>1 DEF Doomed
  <1> QED
    BY <1>1, <1>4, <1>5, <1>6, <1>7, <1>8, <1>9 DEF Running

\* A step that concerns no download, or after which nothing is said of one.
LEMMA DownloadSame ==
  ASSUME DownloadInv, topic' = topic, client'.overlap = client.overlap,
         client'.finished = client.finished,
         Sound(client') => /\ Sound(client) /\ server' = server
                           /\ \A x \in Looks : client'[x] = client[x]
                           /\ client'.msg_readcount = client.msg_readcount
  PROVE  DownloadInv'
  <1>1. SUFFICES ASSUME topic = "download"
                 PROVE  /\ Finished(client')
                        /\ Sound(client') => \/ Idle(client', server')
                                             \/ Running(client', server') \/ Doomed(client')
    BY DEF DownloadInv
  <1>2. Finished(client')
    BY <1>1 DEF DownloadInv, Finished
  <1>3. ASSUME Sound(client')
        PROVE  Idle(client', server') \/ Running(client', server') \/ Doomed(client')
    <2>1. Idle(client, server) \/ Running(client, server) \/ Doomed(client)
      BY <1>1, <1>3 DEF DownloadInv
    <2> QED
      BY <1>3, <2>1, StateSame
  <1> QED
    BY <1>2, <1>3

-----------------------------------------------------------------------------
(* What a download is, step by step. *)

\* A step after which the client reads something else, or nothing.
LEMMA StateRests ==
  ASSUME NEW c, NEW d, NEW s, NEW t, \A x \in Looks \ {"parsing", "message"} : d[x] = c[x],
         Resting(d), t.file = s.file, t.block = s.block
  PROVE  /\ Idle(c, s) /\ Quiet(t.down, Offers) => Idle(d, t)
         /\ Asking(c, s) /\ Quiet(t.down, Offers) => Asking(d, t)
         /\ Going(c, s) /\ Quiet(t.down, Offers) => Going(d, t)
         /\ Coming(c, s) /\ Answering(t) => Coming(d, t)
         /\ d.running = c.running /\ d.download_file = c.download_file
  <1>1. /\ d.running = c.running /\ d.download_file = c.download_file
        /\ d.reliable = c.reliable /\ d.name = c.name /\ d.content = c.content
    BY DEF Looks
  <1>2. Expected(c, s) => Expected(d, t)
    BY <1>1 DEF Expected
  <1>4. Idle(c, s) /\ Quiet(t.down, Offers) => Idle(d, t)
    BY <1>1 DEF Idle
  <1>5. Asking(c, s) /\ Quiet(t.down, Offers) => Asking(d, t)
    BY <1>1 DEF Asking
  <1>6. Going(c, s) /\ Quiet(t.down, Offers) => Going(d, t)
    BY <1>1 DEF Going
  <1>7. Coming(c, s) /\ Answering(t) => Coming(d, t)
    BY <1>1, <1>2 DEF Coming
  <1> QED
    BY <1>1, <1>4, <1>5, <1>6, <1>7

\* What the loop finds in a download.
LEMMA LoopAt ==
  ASSUME BaseInv, DownloadInv, topic = "download", Sound(client),
         NEW name, name # "none", Case(name)
  PROVE  \/ /\ name = "stufftext" /\ client.msg_readcount = 0
            /\ \E k \in Nat : client.message = Stuffed(k).message
         \/ /\ name = "download" /\ Reading(client, server) /\ client.running
            /\ client.download_file \in {"none", "open"}
  <1>1. /\ Listed(client.message) /\ Len(client.message) \in Nat
        /\ client.msg_readcount \in Nat /\ client.msg_readcount + 1 \in DOMAIN client.message
        /\ client.message[client.msg_readcount + 1] = Svc(name)
    BY CaseIs
  <1>2. DOMAIN client.message = 1 .. Len(client.message)
    BY <1>1, ListedLen
  <1>3. client.parsing
    BY DEF Case, Loop
  <1>4. CASE Resting(client)
    <2>1. client.msg_readcount = 0 /\ \E k \in Nat : client.message = Stuffed(k).message
      BY <1>1, <1>2, <1>3, <1>4 DEF Resting
    <2>2. client.message[1] = Svc("stufftext")
      BY <2>1, StuffedIs
    <2>3. name = "stufftext"
      BY <1>1, <2>1, <2>2, FieldNames
    <2> QED
      BY <2>1, <2>3
  <1>5. CASE Running(client, server) /\ Reading(client, server)
    <2>1. client.msg_readcount = 0 /\ client.message[1] = Svc("download")
      <3>1. \A f, b, no : Packet(Reply(f, b, no)).message[1] = Svc("download")
        BY ReplyParts, Zenon
      <3> QED
        BY <1>5, <3>1 DEF Reading, Block
    <2>2. name = "download"
      BY <1>1, <2>1, FieldNames
    <2> QED
      BY <1>5, <2>2 DEF Running
  <1>6. CASE Doomed(client)
    <2>1. ~(Blocks + 1 <= Blocks)
      BY ServerMessageAssumption
    <2>2. client.msg_readcount + 1 = 4
      BY <1>6 DEF Doomed
    <2>3. PICK no : client.message[4] = Field("byte", no)
      <3>1. \A f, no : Packet(Reply(f, Blocks + 1, no)).message[4] = Field("byte", no)
        BY ONLY <2>1, ReplyParts, Zenon
      <3> QED
        BY <1>6, <3>1 DEF Doomed
    <2>4. Field("byte", no) # Field("svc", name)
      BY FieldNames
    <2> QED
      BY <1>1, <2>2, <2>3, <2>4 DEF Svc
  <1> QED
    BY <1>4, <1>5, <1>6 DEF DownloadInv, Idle, Running, Asking, Going, Coming

LEMMA FilePlain ==
  ASSUME BaseInv, DownloadInv, BadRead \/ EndOfMessage \/ NotViable \/ Misread
  PROVE  DownloadInv'
  <1>1. IsClient(client)
    BY DEF BaseInv
  <1>2. UNCHANGED <<topic, server>>
    BY DEF BadRead, EndOfMessage, NotViable, Misread, Then
  <1>3. CASE BadRead \/ NotViable
    <2>1. client' = [client EXCEPT !.abort = TRUE]
      BY <1>3 DEF BadRead, NotViable
    <2>2. /\ client'.abort = TRUE /\ client'.overlap = client.overlap
          /\ client'.finished = client.finished
      BY <1>1, <2>1 DEF IsClient, Names
    <2> QED
      BY <1>2, <2>2, DownloadSame DEF Sound
  <1>4. CASE Misread
    <2> DEFINE c == [client EXCEPT !.instep = FALSE]
    <2>1. Then(c) /\ ~client.msg_badread
      BY <1>4 DEF Misread
    <2>2. IsClient(c) /\ c.instep = FALSE /\ c.msg_badread = client.msg_badread
          /\ c.overlap = client.overlap /\ c.finished = client.finished
      BY <1>1 DEF IsClient, Names
    <2> HIDE DEF c
    <2>3. Alters(c, client', {"fault"}) /\ client'.fault # "none"
      BY <2>1, <2>2, ThenIs
    <2>4. client'.overlap = client.overlap /\ client'.finished = client.finished
      BY <2>2, <2>3 DEF Alters, Names, Place
    <2> QED
      BY <1>2, <2>3, <2>4, DownloadSame DEF Sound
  <1>5. CASE EndOfMessage
    <2>1. client' = [client EXCEPT !.parsing = FALSE] /\ ~Fits(client, 1)
      BY <1>5 DEF EndOfMessage
    <2>2. /\ ~client'.parsing
          /\ \A x \in Names \ {"parsing"} : client'[x] = client[x]
      BY <1>1, <2>1 DEF IsClient, Names
    <2>3. /\ \A x \in Looks \ {"parsing", "message"} : client'[x] = client[x]
          /\ client'.overlap = client.overlap /\ client'.finished = client.finished
          /\ client'.abort = client.abort /\ client'.fault = client.fault
      BY <2>2 DEF Names, Looks
    <2>4. Resting(client')
      BY <2>2 DEF Resting
    <2>5. /\ Idle(client, server) => Idle(client', server)
          /\ Asking(client, server) => Asking(client', server)
          /\ Going(client, server) => Going(client', server)
          /\ Coming(client, server) => Coming(client', server)
          /\ client'.running = client.running
          /\ client'.download_file = client.download_file
      BY <2>3, <2>4, StateRests DEF Idle, Asking, Going, Coming
    <2>6. ~Reading(client, server) /\ ~Doomed(client)
      <3>1. \A f, b, no : Len(Packet(Reply(f, b, no)).message) \in {4, 5}
        <4>1. \A f, b, no : \/ Len(Packet(Reply(f, b, no)).message) = 4
                            \/ Len(Packet(Reply(f, b, no)).message) = 5
          BY ReplyParts, Zenon
        <4> QED
          BY <4>1
      <3>2. ~(client.msg_readcount + 1 <= Len(client.message))
        BY <2>1 DEF Fits
      <3>3. ASSUME Reading(client, server)
            PROVE  FALSE
        <4>1. client.msg_readcount = 0 /\ Len(client.message) \in {4, 5}
          <5>1. PICK no : client.msg_readcount = 0
                  /\ client.message = Packet(Reply(server.file, server.block, no)).message
            BY <3>3 DEF Reading, Block
          <5> QED
            BY ONLY <3>1, <5>1
        <4>2. \A x, y : x = 0 /\ y \in {4, 5} => x + 1 <= y
          OBVIOUS
        <4> QED
          BY ONLY <3>2, <4>1, <4>2, Zenon
      <3>4. ASSUME Doomed(client)
            PROVE  FALSE
        <4>1. PICK f, no : client.msg_readcount = 3
                           /\ client.message = Packet(Reply(f, Blocks + 1, no)).message
          BY <3>4 DEF Doomed
        <4>2. Len(client.message) \in {4, 5}
          BY ONLY <3>1, <4>1
        <4>3. \A x, y : x = 3 /\ y \in {4, 5} => x + 1 <= y
          OBVIOUS
        <4> QED
          BY ONLY <3>2, <4>1, <4>2, <4>3, Zenon
      <3> QED
        BY <3>3, <3>4
    <2> QED
      BY <1>2, <2>3, <2>5, <2>6 DEF DownloadInv, Finished, Sound, Running
  <1> QED
    BY <1>3, <1>4, <1>5

LEMMA FileGet ==
  ASSUME BaseInv, DownloadInv, Get_Message
  PROVE  DownloadInv'
  <1> DEFINE p == Head(server.down)
  <1>1. /\ server.down # << >> /\ topic' = topic /\ server' = [server EXCEPT !.down = Tail(@)]
        /\ ~client.parsing /\ client'.message = p.message /\ client'.msg_readcount = 0
        /\ client'.parsing = TRUE
        /\ \A x \in Names \ ({"message", "parsing", "cut", "command",
                              "incoming_sequence"} \cup Place) : client'[x] = client[x]
    <2>1. p = server.down[1]
      BY GetStep, TailIs DEF BaseInv
    <2> QED
      BY <2>1, GetStep
  <1>2. /\ \A x \in Looks \ {"parsing", "message"} : client'[x] = client[x]
        /\ client'.overlap = client.overlap /\ client'.finished = client.finished
        /\ client'.abort = client.abort /\ client'.fault = client.fault
    BY <1>1 DEF Names, Place, Looks
  <1>3. server'.down = Tail(server.down) /\ server'.file = server.file
        /\ server'.block = server.block
    BY <1>1 DEF BaseInv
  <1> HIDE DEF p
  <1>4. p \in Offers => Resting(client')
    <2> SUFFICES ASSUME NEW k \in Nat, p = Stuffed(k)
                 PROVE  Resting(client')
      BY DEF Offers
    <2> QED
      BY <1>1 DEF Resting
  <1>5. ASSUME Quiet(server.down, Offers)
        PROVE  Resting(client') /\ Quiet(server'.down, Offers)
    BY <1>1, <1>3, <1>4, <1>5, QuietLess DEF p
  <1>6. Idle(client, server) => Idle(client', server')
    BY <1>2, <1>3, <1>5, StateRests DEF Idle
  <1>7. Running(client, server) => Running(client', server')
    <2>1. SUFFICES ASSUME Running(client, server)
                   PROVE  Running(client', server')
      OBVIOUS
    <2>2. client'.running = client.running /\ client'.download_file = client.download_file
          /\ client'.reliable = client.reliable /\ client'.name = client.name
          /\ client'.content = client.content
      BY <1>2 DEF Looks
    <2>3. CASE Asking(client, server) \/ Going(client, server)
      <3>1. Asking(client', server') \/ Going(client', server')
        <4>1. Quiet(server.down, Offers)
          BY <2>3 DEF Asking, Going
        <4> QED
          BY <1>2, <1>3, <1>5, <2>3, <4>1, StateRests
      <3> QED
        BY <2>1, <2>2, <3>1 DEF Running
    <2>4. CASE Coming(client, server)
      <3>4. PICK no \in {0, 50} : Alone(Block(server, no), server.down, Offers)
        BY <2>4 DEF Coming, Answering
      <3>1. \/ p = Block(server, no) /\ Quiet(server'.down, Offers)
            \/ p \in Offers /\ Alone(Block(server, no), server'.down, Offers)
        BY <1>1, <1>3, <3>4, AloneLess DEF p
      <3>5. Block(server', no) = Block(server, no)
        BY <1>3 DEF Block
      <3>2. CASE p = Block(server, no) /\ Quiet(server'.down, Offers)
        <4>1. Block(server', no) = Block(server, no)
          BY <1>3 DEF Block
        <4>2. Expected(client', server')
          BY <1>3, <2>2, <2>4 DEF Coming, Expected
        <4>3. Reading(client', server')
          BY <1>1, <2>2, <2>4, <3>2, <4>1, <4>2 DEF Coming, Reading
        <4> QED
          BY <2>1, <2>2, <4>3 DEF Running
      <3>3. CASE p \in Offers /\ Alone(Block(server, no), server'.down, Offers)
        <4>2. Answering(server')
          BY <3>3, <3>5 DEF Answering
        <4>1. Coming(client', server')
          BY <1>2, <1>3, <1>4, <2>4, <3>3, <4>2, StateRests
        <4> QED
          BY <2>1, <2>2, <4>1 DEF Running
      <3> QED
        BY <3>1, <3>2, <3>3
    <2>5. ~Reading(client, server)
      BY <1>1 DEF Reading
    <2> QED
      BY <2>1, <2>3, <2>4, <2>5 DEF Running
  <1>8. ~Doomed(client)
    BY <1>1 DEF Doomed
  <1> QED
    BY <1>1, <1>2, <1>6, <1>7, <1>8 DEF DownloadInv, Finished, Sound

LEMMA FileSend ==
  ASSUME BaseInv, DownloadInv, Send
  PROVE  DownloadInv'
  <1>1. CASE topic # "download"
    BY <1>1 DEF Send, DownloadInv
  <1>2. CASE topic = "download"
    <2>1. PICK p \in Unasked :
            server' = [server EXCEPT !.down = Append(@, p), !.sent = @ + 1,
                                     !.entities = Append(@, EntitiesIn(p.message))]
      BY DEF Send
    <2>2. p \in Offers
      <3>1. p = Stuffed(server.sent + 1)
        BY <1>2, <2>1 DEF Unasked, Stuffed
      <3>2. server.sent + 1 \in Nat
        BY DEF BaseInv
      <3> QED
        BY <3>1, <3>2 DEF Offers
    <2>3. server'.down = Append(server.down, p) /\ server'.file = server.file
          /\ server'.block = server.block
      BY <2>1 DEF BaseInv
    <2>4. client' = client /\ topic' = topic
      BY DEF Send
    <2>5. Quiet(server.down, Offers) => Quiet(server'.down, Offers)
      BY <2>2, <2>3, QuietMore
    <2>10. \A no : Block(server', no) = Block(server, no)
      BY <2>3 DEF Block
    <2>6. Answering(server) => Answering(server')
      BY <2>2, <2>3, <2>10, AloneMore DEF Answering
    <2>7. /\ Idle(client, server) => Idle(client', server')
          /\ Asking(client, server) => Asking(client', server')
          /\ Going(client, server) => Going(client', server')
          /\ Coming(client, server) => Coming(client', server')
      <3>1. ASSUME Resting(client)
            PROVE  /\ Idle(client, server) /\ Quiet(server'.down, Offers) => Idle(client', server')
                   /\ Asking(client, server) /\ Quiet(server'.down, Offers)
                      => Asking(client', server')
                   /\ Going(client, server) /\ Quiet(server'.down, Offers)
                      => Going(client', server')
                   /\ Coming(client, server) /\ Answering(server') => Coming(client', server')
        BY <2>3, <2>4, <3>1, StateRests
      <3> QED
        BY <2>5, <2>6, <3>1 DEF Idle, Asking, Going, Coming
    <2>8. Reading(client, server) => Reading(client', server')
      <3>2. Expected(client, server) => Expected(client', server')
        BY <2>3, <2>4 DEF Expected
      <3> QED
        BY <2>4, <2>5, <2>10, <3>2 DEF Reading
    <2>9. Running(client, server) => Running(client', server')
      BY <2>4, <2>7, <2>8 DEF Running
    <2> QED
      BY <2>4, <2>7, <2>9 DEF DownloadInv
  <1> QED
    BY <1>1, <1>2

\* What is done behind a read leaves the reader where it is.
LEMMA AppendPlace ==
  ASSUME NEW c, IsClient(c), NEW q
  PROVE  /\ IsClient(NetQW_AppendReliableBuffer(c, q))
         /\ NetQW_AppendReliableBuffer(c, q).msg_readcount = c.msg_readcount
  BY DEF NetQW_AppendReliableBuffer, IsClient, Names

LEMMA StartPlace ==
  ASSUME NEW c, IsClient(c), NEW n, NEW d \in StartDownload(c, n)
  PROVE  d.msg_readcount = c.msg_readcount
  <1> DEFINE k == IF c.download_file # "none" THEN Close(c) ELSE c
             a == NetQW_AppendReliableBuffer(k, [name |-> "download", file |-> n])
  <1>1. PICK file \in {"open", "none"} :
          d = [a EXCEPT !.download_file = file, !.name = n, !.content = << >>,
                        !.overlap = @ \/ c.running, !.running = TRUE]
    BY DEF StartDownload
  <1>2. IsClient(k) /\ k.msg_readcount = c.msg_readcount
    <2>1. IsClient(Close(c))
      BY CloseAlters
    <2>2. Close(c).msg_readcount = c.msg_readcount
      BY DEF Close, Faulty, IsClient, Names
    <2> QED
      BY <2>1, <2>2
  <1> HIDE DEF k
  <1>3. IsClient(a) /\ a.msg_readcount = c.msg_readcount
    BY <1>2, AppendPlace
  <1> HIDE DEF a
  <1> QED
    BY <1>1, <1>3 DEF IsClient, Names

LEMMA FinishPlace ==
  ASSUME NEW c, IsClient(c)
  PROVE  FinishDownload(c).msg_readcount = c.msg_readcount
  <1> DEFINE a == NetQW_AppendReliableBuffer(c, [name |-> "say"])
  <1>1. IsClient(a) /\ a.msg_readcount = c.msg_readcount
    BY AppendPlace
  <1>2. FinishDownload(c)
        = CASE c.download_file = "none" -> Faulty(a, "closed no file")
            [] c.download_file = "closed" -> Faulty(a, "closed twice")
            [] OTHER -> [a EXCEPT !.download_file = "closed", !.running = FALSE,
                           !.finished = @ \cup {[name |-> c.name, content |-> c.content]}]
    BY DEF FinishDownload
  <1> HIDE DEF a
  <1>3. \A f : Faulty(a, f).msg_readcount = c.msg_readcount
    BY <1>1 DEF Faulty, IsClient, Names
  <1>4. [a EXCEPT !.download_file = "closed", !.running = FALSE,
           !.finished = @ \cup {[name |-> c.name, content |-> c.content]}].msg_readcount
        = c.msg_readcount
    BY <1>1 DEF IsClient, Names
  <1>5. CASE c.download_file = "none"
    BY <1>2, <1>3, <1>5
  <1>6. CASE c.download_file = "closed"
    BY <1>2, <1>3, <1>6
  <1>7. CASE c.download_file \notin {"none", "closed"}
    BY <1>2, <1>4, <1>7
  <1> QED
    BY <1>5, <1>6, <1>7

LEMMA AskPlace ==
  ASSUME NEW c, IsClient(c), NEW percent
  PROVE  AskForMore(c, percent).msg_readcount = c.msg_readcount
  <1> DEFINE l == [c EXCEPT !.lp = percent]
             s == NetQW_AppendReliableBuffer(l, [name |-> "say"])
             a == IF percent % 10 = 0 /\ c.lp # percent THEN s ELSE c
  <1>1. AskForMore(c, percent) = NetQW_AppendReliableBuffer(a, [name |-> "nextdl"])
    BY DEF AskForMore
  <1>2. IsClient(l) /\ l.msg_readcount = c.msg_readcount
    BY DEF IsClient, Names
  <1> HIDE DEF l
  <1>3. IsClient(s) /\ s.msg_readcount = c.msg_readcount
    BY <1>2, AppendPlace
  <1> HIDE DEF s
  <1>4. IsClient(a) /\ a.msg_readcount = c.msg_readcount
    BY <1>3
  <1> HIDE DEF a
  <1> QED
    BY <1>1, <1>4, AppendPlace

\* The answer of the server, and what was added to the packets on their way.
LEMMA ReplySent ==
  ASSUME BaseInv, NEW s, DOMAIN s = DOMAIN server, NEW no,
         server' = Answered(s, DownloadReply(s, no))
  PROVE  /\ server'.file = s.file /\ server'.block = s.block
         /\ server'.down = Append(s.down, Block(server', no))
  <1>1. DownloadReply(s, no) = Reply(s.file, s.block, no)
    BY DEF DownloadReply, Reply
  <1>2. DownloadReply(s, no) # << >>
    BY DEF DownloadReply
  <1>5. PICK f : f = DownloadReply(s, no)
    OBVIOUS
  <1>6. f # << >> /\ server' = Answered(s, f)
    BY <1>2, <1>5
  <1>7. /\ \A x \in DOMAIN server \ {"down"} : server'[x] = s[x]
        /\ server'.down = Append(s.down, Packet(f))
    <2>1. PICK a : a = Answered(s, f)
      OBVIOUS
    <2>2. /\ \A x \in DOMAIN server \ {"down"} : a[x] = s[x]
          /\ a.down = IF f = << >> THEN s.down ELSE Append(s.down, Packet(f))
      BY ONLY BaseInv, DOMAIN s = DOMAIN server, <2>1, AnsweredIs, Zenon
    <2> QED
      BY <1>6, <2>1, <2>2
  <1>3. /\ \A x \in DOMAIN server \ {"down"} : server'[x] = s[x]
        /\ server'.down = Append(s.down, Packet(DownloadReply(s, no)))
    BY <1>5, <1>7
  <1>4. server'.file = s.file /\ server'.block = s.block
    BY <1>3 DEF BaseInv
  <1> QED
    BY <1>1, <1>3, <1>4 DEF Block

LEMMA FileAnswer ==
  ASSUME BaseInv, DownloadInv, Answer
  PROVE  DownloadInv'
  <1> DEFINE q == Head(client.reliable)
             found == [server EXCEPT !.file = q.file, !.block = 1]
             missing == [server EXCEPT !.file = q.file, !.block = Blocks + 1]
             more == [server EXCEPT !.block = @ + 1]
  <1>1. client.reliable # << >> /\ client' = [client EXCEPT !.reliable = Tail(@)]
        /\ topic' = topic
    BY DEF Answer
  <1>2. client'.reliable = Tail(client.reliable) /\ Alters(client, client', {"reliable"})
        /\ client'.msg_readcount = client.msg_readcount
    BY <1>1, AskedIs
  <1>3. /\ \A x \in Looks \ {"reliable"} : client'[x] = client[x]
        /\ client'.overlap = client.overlap /\ client'.finished = client.finished
        /\ client'.abort = client.abort /\ client'.fault = client.fault
    BY <1>2 DEF Alters, Names, Place, Looks
  <1>4. SUFFICES ASSUME topic = "download", Sound(client)
                 PROVE  Idle(client', server') \/ Running(client', server') \/ Doomed(client')
    BY <1>1, <1>3 DEF DownloadInv, Finished, Sound
  <1>5. \/ /\ q.name = "download"
           /\ \E s \in {found, missing}, no \in {0, 50} :
                server' = Answered(s, DownloadReply(s, no))
        \/ /\ q.name = "nextdl" /\ server.block \in 1 .. Blocks - 1
           /\ server' = Answered(more, DownloadReply(more, 0))
        \/ /\ q.name # "download" /\ ~(q.name = "nextdl" /\ server.block \in 1 .. Blocks - 1)
           /\ server' = server
    BY <1>4 DEF Answer
  <1>6. /\ DOMAIN found = DOMAIN server /\ found.file = q.file /\ found.block = 1
        /\ found.down = server.down
        /\ DOMAIN missing = DOMAIN server /\ missing.file = q.file
        /\ missing.block = Blocks + 1 /\ missing.down = server.down
        /\ DOMAIN more = DOMAIN server /\ more.file = server.file
        /\ more.block = server.block + 1 /\ more.down = server.down
    BY DEF BaseInv
  <1> HIDE DEF q, found, missing, more
  <1>7. q \in Said => server' = server
    BY <1>5 DEF Said
  <1>8. /\ client'.running = client.running /\ client'.download_file = client.download_file
        /\ client'.parsing = client.parsing /\ client'.message = client.message
        /\ client'.name = client.name /\ client'.content = client.content
    BY <1>3 DEF Looks
  <1>9. Resting(client) => Resting(client')
    BY <1>2, <1>8 DEF Resting
  <1>10. Blocks \in Nat /\ Blocks >= 1
    BY ServerMessageAssumption
  <1>11. ASSUME Quiet(client.reliable, Said)
         PROVE  Quiet(client'.reliable, Said) /\ server' = server
    BY <1>1, <1>2, <1>7, <1>11, QuietLess DEF q
  <1>12. ASSUME NEW x, Alone(x, client.reliable, Said)
         PROVE  \/ q = x /\ Quiet(client'.reliable, Said)
                \/ server' = server /\ Alone(x, client'.reliable, Said)
    BY <1>1, <1>2, <1>7, <1>12, AloneLess DEF q
  <1>13. CASE Idle(client, server)
    <2>1. Idle(client', server')
      BY <1>8, <1>9, <1>11, <1>13 DEF Idle
    <2> QED
      BY <2>1
  <1>14. CASE Doomed(client)
    <2>1. Doomed(client')
      BY <1>2, <1>8, <1>14 DEF Doomed
    <2> QED
      BY <2>1
  <1>15. CASE Running(client, server) /\ Asking(client, server)
    <2>1. CASE q = Get(client.name) /\ Quiet(client'.reliable, Said)
      <3>1. q.name = "download" /\ q.file = client.name
        BY <2>1 DEF Get
      <3>2. PICK s \in {found, missing}, no \in {0, 50} :
                   server' = Answered(s, DownloadReply(s, no))
        BY <1>5, <3>1
      <3>3. DOMAIN s = DOMAIN server /\ s.file = client.name /\ s.block \in {1, Blocks + 1}
            /\ s.down = server.down
        BY <1>6, <3>1, <3>2
      <3>4. /\ server'.file = client.name /\ server'.block = s.block
            /\ server'.down = Append(server.down, Block(server', no))
        BY <3>2, <3>3, ReplySent
      <3>5. Answering(server')
        BY <1>15, <3>4, QuietMore DEF Answering, Asking
      <3>6. Whole(client.name, 0) = << >>
        BY WholeMore
      <3>7. Expected(client', server')
        <4>1. server'.block \in 1 .. Blocks + 1 /\ (server'.block <= Blocks => server'.block - 1 = 0)
          BY <1>10, <3>3, <3>4
        <4>2. client.content = << >>
          BY <1>15 DEF Asking
        <4> QED
          BY <1>8, <3>4, <3>6, <4>1, <4>2 DEF Expected
      <3>8. Coming(client', server')
        BY <1>9, <1>15, <2>1, <3>5, <3>7 DEF Asking, Coming
      <3> QED
        BY <1>8, <1>15, <3>8 DEF Running
    <2>2. CASE server' = server /\ Alone(Get(client.name), client'.reliable, Said)
      <3>1. Asking(client', server')
        BY <1>8, <1>9, <1>15, <2>2 DEF Asking
      <3> QED
        BY <1>8, <1>15, <3>1 DEF Running
    <2> QED
      BY <1>12, <1>15, <2>1, <2>2 DEF Asking
  <1>16. CASE Running(client, server) /\ Going(client, server)
    <2>1. CASE q = More /\ Quiet(client'.reliable, Said)
      <3>1. q.name = "nextdl" /\ server.block \in 1 .. Blocks - 1
        BY <1>16, <2>1 DEF More, Going
      <3>2. server' = Answered(more, DownloadReply(more, 0))
        BY <1>5, <3>1
      <3>3. /\ server'.file = server.file /\ server'.block = server.block + 1
            /\ server'.down = Append(server.down, Block(server', 0))
        BY <1>6, <3>2, ReplySent
      <3>4. Answering(server')
        BY <1>16, <3>3, QuietMore DEF Answering, Going
      <3>5. Expected(client', server')
        <4>1. server'.block \in 1 .. Blocks + 1 /\ server'.block - 1 = server.block
          BY <1>10, <3>1, <3>3
        <4> QED
          BY <1>8, <1>16, <3>3, <4>1 DEF Expected, Going
      <3>6. Coming(client', server')
        BY <1>9, <1>16, <2>1, <3>4, <3>5 DEF Going, Coming
      <3> QED
        BY <1>8, <1>16, <3>6 DEF Running
    <2>2. CASE server' = server /\ Alone(More, client'.reliable, Said)
      <3>1. Going(client', server')
        BY <1>8, <1>9, <1>16, <2>2 DEF Going
      <3> QED
        BY <1>8, <1>16, <3>1 DEF Running
    <2> QED
      BY <1>12, <1>16, <2>1, <2>2 DEF Going
  <1>17. CASE Running(client, server) /\ Coming(client, server)
    <2>1. Quiet(client'.reliable, Said) /\ server' = server
      BY <1>11, <1>17 DEF Coming
    <2>2. Coming(client', server')
      BY <1>8, <1>9, <1>17, <2>1 DEF Coming, Expected
    <2> QED
      BY <1>8, <1>17, <2>2 DEF Running
  <1>18. CASE Running(client, server) /\ Reading(client, server)
    <2>1. Quiet(client'.reliable, Said) /\ server' = server
      BY <1>11, <1>18 DEF Reading
    <2>2. Reading(client', server')
      BY <1>2, <1>8, <1>18, <2>1 DEF Reading, Expected
    <2> QED
      BY <1>8, <1>18, <2>2 DEF Running
  <1> QED
    BY <1>4, <1>13, <1>14, <1>15, <1>16, <1>17, <1>18 DEF DownloadInv, Running

\* A text that offers a file is read to its end.
LEMMA OfferRead ==
  ASSUME NEW c, IsClient(c), c.msg_readcount = 1, NEW k, c.message = Stuffed(k).message
  PROVE  /\ TextOf(c) = [verb |-> "download", file |-> k]
         /\ Read(c, "string").msg_readcount = 3 /\ Len(c.message) = 3
  <1>1. /\ Len(c.message) = 3
        /\ c.message[2] = Field("string", [verb |-> "download", file |-> k])
    BY StuffedIs
  <1>2. c.message[1 + 1][1] = "string"
        /\ c.message[1 + 1][2] = [verb |-> "download", file |-> k]
    BY <1>1, FieldNames
  <1>3. Here(c, "string") /\ ~Here(c, "end")
    BY <1>1, <1>2 DEF Here
  <1>4. TextOf(c) = [verb |-> "download", file |-> k]
    BY <1>2, <1>3 DEF TextOf, Value
  <1>5. c.msg_readcount + 2 <= Len(c.message) /\ Len(c.message) \in Nat
    BY <1>1
  <1>6. Read(c, "string").msg_readcount = c.msg_readcount + 2
    BY <1>3, <1>5, ReadHere
  <1> QED
    BY <1>1, <1>4, <1>6

LEMMA FileStufftext ==
  ASSUME BaseInv, DownloadInv, Parse_stufftext
  PROVE  DownloadInv'
  <1>1. PICK q, c :
          /\ q = Read(Taken, "string")
          /\ Alters(client, q, {"command"}) /\ IsClient(q) /\ Asks(q) /\ q.fault = "none"
          /\ Obeyed(q, TextOf(Taken), c)
          /\ IsClient(c) => /\ Alters(c, client', {"fault"})
                            /\ client'.fault \in {c.fault, "stuck", "out of step"}
                            /\ client'.fault = "none" => client' = c
    BY StufftextParts
  <1>2. Case("stufftext") /\ client.fault = "none" /\ UNCHANGED <<topic, server>>
    BY StufftextParts
  <1>3. ~client.abort /\ client.parsing
    BY <1>2 DEF Case, Loop
  <1>4. SUFFICES ASSUME topic = "download"
                 PROVE  DownloadInv'
    BY <1>2 DEF DownloadInv
  <1>5. /\ q.overlap = client.overlap /\ q.finished = client.finished
        /\ q.running = client.running /\ q.reliable = client.reliable
        /\ q.download_file = client.download_file /\ q.message = client.message
        /\ q.parsing = client.parsing
    BY <1>1 DEF Alters, Names, Place
  <1> DEFINE text == TextOf(Taken)
  <1> HIDE DEF text
  <1>9. IsClient(q) /\ Asks(q)
    BY <1>1
  <1>6. CASE client.overlap
    <2>1. ASSUME IsClient(c), c.overlap, c.finished = q.finished
          PROVE  DownloadInv'
      <3>1. client'.overlap /\ client'.finished = client.finished
        BY <1>1, <1>5, <2>1 DEF Alters, Names, Place
      <3> QED
        BY <1>2, <3>1 DEF DownloadInv, Finished, Sound
    <2>2. CASE text.verb = "cmd" /\ c = [NetQW_AppendReliableBuffer(q, text.request) EXCEPT
                                   !.loaded = Append(@, <<text.request.name, text.request.n>>)]
      <3> DEFINE l == Append(q.loaded, <<text.request.name, text.request.n>>)
                 r == Append(q.reliable, text.request)
      <3>1. c = [q EXCEPT !.reliable = r, !.loaded = l]
        BY <1>1, <2>2 DEF NetQW_AppendReliableBuffer, IsClient, Names
      <3> HIDE DEF l, r
      <3>2. IsClient(c) /\ c.overlap = q.overlap /\ c.finished = q.finished
        BY <1>1, <3>1 DEF IsClient, Names
      <3> QED
        BY <1>5, <1>6, <2>1, <3>2
    <2>3. CASE c = NetQW_AppendReliableBuffer(q, Request("begin", q.servercount, 0))
      <3>1. Alters(q, c, {"reliable"}) /\ IsClient(c)
        BY <1>1, <2>3, AsksMore, OtherRequests
      <3>2. c.overlap = q.overlap /\ c.finished = q.finished
        BY <3>1 DEF Alters, Names, Place
      <3> QED
        BY <1>5, <1>6, <2>1, <3>1, <3>2
    <2>4. CASE c \in StartDownload(q, text.file)
      <3>1. /\ Alters(q, c, FileFields \cup {"fault", "reliable"}) /\ IsClient(c)
            /\ c.overlap = (q.overlap \/ q.running)
        BY ONLY <1>9, <2>4, StartDownloadIs
      <3>2. c.finished = q.finished
        BY <3>1 DEF Alters, Names, Place, FileFields
      <3>3. c.overlap
        BY <1>5, <1>6, <3>1
      <3> QED
        BY <2>1, <3>1, <3>2, <3>3
    <2>5. CASE c = q
      BY <1>1, <1>5, <1>6, <2>1, <2>5
    <2> QED
      BY <1>1, <2>2, <2>3, <2>4, <2>5 DEF Obeyed, text
  <1>7. CASE ~client.overlap
    <2>1. Sound(client)
      BY <1>2, <1>3, <1>7 DEF Sound
    <2>2. client.msg_readcount = 0 /\ \E k \in Nat : client.message = Stuffed(k).message
      <3>1. "stufftext" # "none" /\ "stufftext" # "download"
        OBVIOUS
      <3> QED
        BY <1>2, <1>4, <2>1, <3>1, LoopAt
    <2>3. PICK k : k \in Nat /\ client.message = Stuffed(k).message
      BY <2>2
    <2>4. IsClient(Taken) /\ Taken.msg_readcount = 1 /\ Taken.message = client.message
      <3>1. IsClient(Taken) /\ Taken.msg_readcount = client.msg_readcount + 1
            /\ Taken.message = client.message
        BY <1>2, CaseIs
      <3> QED
        BY <2>2, <3>1
    <2>5. /\ text = [verb |-> "download", file |-> k]
          /\ q.msg_readcount = 3 /\ Len(client.message) = 3
      BY <1>1, <2>3, <2>4, OfferRead DEF text
    <2>6. c \in StartDownload(q, k)
      <3>1. text.verb = "download" /\ text.file = k
        BY <2>5
      <3> QED
        BY <1>1, <3>1 DEF Obeyed, text
    <2>7. /\ Alters(q, c, FileFields \cup {"fault", "reliable"}) /\ IsClient(c)
          /\ c.fault = IF q.download_file = "closed" /\ q.fault = "none"
                       THEN "closed twice" ELSE q.fault
          /\ c.reliable = Append(q.reliable, [name |-> "download", file |-> k])
          /\ c.download_file \in {"open", "none"} /\ c.name = k /\ c.content = << >>
          /\ c.running = TRUE /\ c.overlap = (q.overlap \/ q.running)
      BY ONLY <1>9, <2>6, StartDownloadIs
    <2>12. c.msg_readcount = 3
      BY <1>9, <2>5, <2>6, StartPlace
    <2>8. c.finished = client.finished /\ c.message = client.message
          /\ c.parsing = client.parsing
      BY <1>5, <2>7 DEF Alters, Names, Place, FileFields
    <2>9. client'.finished = client.finished
      BY <1>1, <2>7, <2>8 DEF Alters, Names, Place
    <2>10. Finished(client')
      BY <1>4, <1>7, <2>9 DEF DownloadInv, Finished
    <2>11. ASSUME Sound(client')
           PROVE  Running(client', server')
      <3>1. client' = c /\ ~c.overlap
        BY <1>1, <2>7, <2>11 DEF Sound
      <3>2. ~client.running
        BY <1>5, <2>7, <3>1
      <3>3. ~Doomed(client)
        BY <2>2 DEF Doomed
      <3>4. Idle(client, server)
        BY <1>4, <2>1, <3>2, <3>3 DEF DownloadInv, Running
      <3>5. Alone(Get(k), client'.reliable, Said)
        <4>1. client'.reliable = Append(client.reliable, Get(k))
          BY <1>5, <2>7, <3>1 DEF Get
        <4> QED
          BY <3>4, <4>1, QuietMore DEF Idle
      <3>6. Resting(client')
        <4>1. client'.msg_readcount = 3 /\ Len(client'.message) = 3
          BY <2>5, <2>8, <2>12, <3>1
        <4>2. \A x, y : x = 3 /\ y = 3 => x >= y
          OBVIOUS
        <4>3. client'.msg_readcount >= Len(client'.message)
          BY ONLY <4>1, <4>2, Zenon
        <4> QED
          BY <4>3 DEF Resting
      <3>7. Asking(client', server')
        BY <1>2, <2>7, <3>1, <3>4, <3>5, <3>6 DEF Asking, Idle
      <3> QED
        BY <2>7, <3>1, <3>7 DEF Running
    <2> QED
      BY <2>10, <2>11 DEF DownloadInv
  <1>8. client.overlap \in BOOLEAN \/ client.overlap \/ ~client.overlap
    OBVIOUS
  <1> QED
    BY <1>6, <1>7

\* What is read of an answer before the block.
LEMMA BlockRead ==
  ASSUME NEW c, IsClient(c), c.msg_readcount = 1, NEW file, NEW block, NEW no,
         c.message = Packet(Reply(file, block, no)).message
  PROVE  /\ Headed(c).msg_readcount = 4 /\ Headed(c).message = c.message
         /\ block <= Blocks => SizeOf(c) = 1 /\ PercentOf(c) = (100 * block) \div Blocks
         /\ ~(block <= Blocks) => SizeOf(c) = -1 /\ PercentOf(c) = no
  <1> DEFINE m == c.message
             n == IF block <= Blocks THEN 1 ELSE -1
             p == IF block <= Blocks THEN (100 * block) \div Blocks ELSE no
             h == Read(c, "short")
  <1>1. m[2] = Field("short", n) /\ m[4] = Field("byte", p) /\ Len(m) \in {4, 5}
    <2>1. PICK w : w = c.message
      OBVIOUS
    <2>2. w = Packet(Reply(file, block, no)).message
      BY <2>1
    <2>5. IsReply(w, file, block, no)
      BY ONLY <2>2, ReplyIs, Zenon
    <2>3. CASE block <= Blocks
      <3>1. Len(w) = 5
        BY ONLY <2>3, <2>5, Zenon DEF IsReply
      <3>2. w[2] = Field("short", 1)
        BY ONLY <2>3, <2>5, Zenon DEF IsReply
      <3>3. w[4] = Field("byte", (100 * block) \div Blocks)
        BY ONLY <2>3, <2>5, Zenon DEF IsReply
      <3> QED
        BY <2>1, <2>3, <3>1, <3>2, <3>3
    <2>4. CASE ~(block <= Blocks)
      <3>1. Len(w) = 4
        BY ONLY <2>4, <2>5, Zenon DEF IsReply
      <3>2. w[2] = Field("short", -1)
        BY ONLY <2>4, <2>5, Zenon DEF IsReply
      <3>3. w[4] = Field("byte", no)
        BY ONLY <2>4, <2>5, Zenon DEF IsReply
      <3> QED
        BY <2>1, <2>4, <3>1, <3>2, <3>3
    <2> QED
      BY <2>3, <2>4
  <1> HIDE DEF m, n, p
  <1>2. m[1 + 1][1] = "short" /\ m[1 + 1][2] = n /\ m[3 + 1][1] = "byte" /\ m[3 + 1][2] = p
    BY <1>1, FieldNames
  <1>3. Width["short"] = 2 /\ Width["byte"] = 1
        /\ {"short", "byte"} \subseteq DOMAIN Width \ {"float"}
    BY DEF Width
  <1>4. h.msg_readcount = 3 /\ h.message = m /\ IsClient(h)
    <2>1. /\ IsClient(c) /\ Len(c.message) \in Nat /\ c.msg_readcount = 1
          /\ c.msg_readcount + Width["short"] <= Len(c.message)
      BY <1>1, <1>3 DEF m
    <2>2. /\ Read(c, "short").msg_readcount = c.msg_readcount + Width["short"]
          /\ Read(c, "short").message = c.message /\ IsClient(Read(c, "short"))
      BY ONLY <1>3, <2>1, ReadHere, KindsNamed
    <2> QED
      BY <1>3, <2>1, <2>2 DEF m
  <1>5. SizeOf(c) = n
    BY <1>1, <1>2, <1>3 DEF SizeOf, Value, Here, Fits, m
  <1> HIDE DEF h
  <1>6. PercentOf(c) = p
    BY <1>1, <1>2, <1>3, <1>4 DEF PercentOf, Value, Here, Fits, h
  <1>8. PICK g : g = h
    OBVIOUS
  <1>9. IsClient(g) /\ g.message = m /\ Len(g.message) \in Nat
        /\ g.msg_readcount + Width["byte"] <= Len(g.message)
    BY <1>1, <1>3, <1>4, <1>8
  <1>10. Read(g, "byte").msg_readcount = g.msg_readcount + Width["byte"]
         /\ Read(g, "byte").message = g.message
    BY <1>3, <1>9, ReadHere, KindsNamed
  <1>7. Read(h, "byte").msg_readcount = 4 /\ Read(h, "byte").message = m
    BY <1>3, <1>4, <1>8, <1>9, <1>10
  <1> QED
    BY <1>5, <1>6, <1>7 DEF Headed, h, m, n, p

LEMMA LastByte ==
  ASSUME NEW m, Listed(m), Len(m) = 5
  PROVE  SubSeq(m, 4 + 1, 4 + 1) = <<m[5]>>
  <1> DEFINE V == {m[i] : i \in DOMAIN m}
  <1>1. m \in Seq(V)
    BY DEF Listed
  <1> HIDE DEF V
  <1>a. \A i \in 5 .. 5 : m[i] \in V
    BY <1>1
  <1>b. /\ SubSeq(m, 5, 5) \in Seq(V)
        /\ Len(SubSeq(m, 5, 5)) = IF 5 <= 5 THEN 5 - 5 + 1 ELSE 0
        /\ \A i \in 1 .. 5 - 5 + 1 : SubSeq(m, 5, 5)[i] = m[5 + i - 1]
    BY ONLY <1>a, SubSeqProperties
  <1>2. SubSeq(m, 5, 5) \in Seq(V) /\ Len(SubSeq(m, 5, 5)) = 1 /\ SubSeq(m, 5, 5)[1] = m[5]
    BY <1>b
  <1>3. \A t \in Seq(V) : Len(t) = 1 => t = <<t[1]>>
    OBVIOUS
  <1>4. SubSeq(m, 5, 5) = <<m[5]>>
    BY <1>2, <1>3
  <1>5. 4 + 1 = 5
    OBVIOUS
  <1> QED
    BY ONLY <1>4, <1>5, Zenon

\* What the block of a download does to the file.
LEMMA BlockKept ==
  ASSUME NEW c, IsClient(c), Asks(c), c.fault = "none", c.msg_readcount = 1,
         NEW file, NEW block \in Nat, block >= 1, NEW no,
         c.message = Packet(Reply(file, block, no)).message,
         c.download_file \in {"none", "open"}
  PROVE  LET t == BlockTaken(c)
         IN  /\ IsClient(t) /\ Asks(t) /\ t.fault = "none"
             /\ Alters(c, t, {"download_file", "running", "content", "fault"})
             /\ block <= Blocks
                => /\ t.msg_readcount = 5 /\ t.download_file = c.download_file
                   /\ t.running = c.running
                   /\ c.download_file = "open" /\ c.content = Whole(file, block - 1)
                      => t.content = Whole(file, block)
             /\ ~(block <= Blocks) => t.msg_readcount = 3
  <1> DEFINE h == Headed(c)
             n == SizeOf(c)
             t == BlockTaken(c)
             m == c.message
  <1>1. h.msg_readcount = 4 /\ (block <= Blocks => n = 1) /\ (~(block <= Blocks) => n = -1)
    BY BlockRead
  <1>2. n \in {-1, 1}
    BY <1>1
  <1>3. /\ IsClient(t) /\ Asks(t) /\ t.fault = "none"
        /\ Alters(c, t, {"download_file", "running", "content", "fault"})
        /\ t.msg_readcount = h.msg_readcount + n
        /\ n = 1 => t.download_file = c.download_file /\ t.running = c.running
        /\ n = 1 /\ c.download_file = "open"
           => t.content = c.content \o SubSeq(m, h.msg_readcount + 1, h.msg_readcount + n)
    <2>1. c.msg_readcount >= 1
      OBVIOUS
    <2> QED
      BY <1>2, <2>1, BlockTakenIs
  <1> HIDE DEF h, n, t
  <1>4. ASSUME block <= Blocks, c.download_file = "open", c.content = Whole(file, block - 1)
        PROVE  t.content = Whole(file, block)
    <2>7. m = Packet(Reply(file, block, no)).message
      OBVIOUS
    <2>8. block <= Blocks
      BY <1>4
    <2> HIDE DEF m
    <2>1. Listed(m)
      <3>1. IsReply(m, file, block, no)
        BY ONLY <2>7, ReplyIs, Zenon
      <3> QED
        BY ONLY <3>1, Zenon DEF IsReply
    <2>2. Len(m) = 5
      <3>1. IsReply(m, file, block, no)
        BY ONLY <2>7, ReplyIs, Zenon
      <3> QED
        BY ONLY <2>8, <3>1, Zenon DEF IsReply
    <2>3. m[5] = Field("data", <<file, block>>)
      <3>1. IsReply(m, file, block, no)
        BY ONLY <2>7, ReplyIs, Zenon
      <3> QED
        BY ONLY <2>8, <3>1, Zenon DEF IsReply
    <2>4. SubSeq(m, 4 + 1, 4 + 1) = <<m[5]>>
      BY <2>1, <2>2, LastByte
    <2>5. t.content = c.content \o <<m[5]>>
      BY <1>1, <1>3, <1>4, <2>4
    <2>6. Whole(file, block - 1) \o <<Field("data", <<file, block>>)>> = Whole(file, block)
      BY WholeMore
    <2> QED
      BY <1>4, <2>3, <2>5, <2>6
  <1>5. /\ block <= Blocks => t.msg_readcount = 5
        /\ ~(block <= Blocks) => t.msg_readcount = 3
    BY <1>1, <1>3
  <1> QED
    BY <1>1, <1>3, <1>4, <1>5 DEF t

LEMMA FileDownload ==
  ASSUME BaseInv, DownloadInv, Parse_download
  PROVE  DownloadInv'
  <1> DEFINE t == BlockTaken(Taken)
             d == ParseDownload(Taken)
             p == PercentOf(Taken)
  <1>1. /\ Case("download") /\ client.fault = "none" /\ UNCHANGED <<topic, server>>
        /\ IsClient(Taken) /\ Alters(client, Taken, {"command"}) /\ Asks(Taken)
        /\ Taken.fault = "none" /\ Taken.message = client.message
        /\ Taken.msg_readcount = client.msg_readcount + 1
    BY DownloadParts
  <1>2. /\ d = (IF p = 100 THEN FinishDownload(t) ELSE AskForMore(t, p))
        /\ IsClient(t) /\ Asks(t) /\ SizeOf(Taken) \in {-1, 1} /\ Taken.msg_readcount >= 1
    BY DownloadParts
  <1>3. /\ IsClient(d) /\ Alters(d, client', {"fault"})
        /\ client'.fault \in {d.fault, "stuck", "out of step"}
        /\ client'.fault = "none" => client' = d
    BY DownloadParts
  <1>4. ~client.abort /\ client.parsing
    BY <1>1 DEF Case, Loop
  <1>5. SUFFICES ASSUME topic = "download"
                 PROVE  DownloadInv'
    BY <1>1 DEF DownloadInv
  <1>6. Alters(Taken, t, {"download_file", "running", "content", "fault"})
    BY <1>1, <1>2, BlockTakenIs
  <1> HIDE DEF t, d, p
  <1>7. p = 100 => Alters(t, d, {"download_file", "running", "finished", "fault", "reliable"})
    <2>1. p = 100 => d = FinishDownload(t)
      BY <1>2
    <2> QED
      BY <1>2, <2>1, FinishIs
  <1>8. p # 100 => Alters(t, d, {"lp", "reliable"})
    <2>1. p # 100 => d = AskForMore(t, p)
      BY <1>2
    <2> QED
      BY <1>2, <2>1, AskForMoreIs
  <1>9. /\ t.overlap = client.overlap /\ t.name = client.name /\ t.finished = client.finished
        /\ t.message = client.message /\ t.parsing = client.parsing
        /\ t.reliable = client.reliable
        /\ Taken.download_file = client.download_file /\ Taken.running = client.running
        /\ Taken.content = client.content
    BY <1>1, <1>6 DEF Alters, Names, Place
  <1>10. /\ d.overlap = client.overlap /\ d.name = client.name
         /\ d.message = client.message /\ d.parsing = client.parsing
         /\ p # 100 => d.finished = client.finished
         /\ d.content = t.content
    BY <1>7, <1>8, <1>9 DEF Alters, Names, Place
  <1>11. client'.overlap = client.overlap /\ client'.finished = d.finished
    BY <1>3, <1>10 DEF Alters, Names, Place
  <1>12. CASE client.overlap
    BY <1>11, <1>12 DEF DownloadInv, Finished, Sound
  <1>13. CASE ~client.overlap
    <2>1. Sound(client)
      BY <1>1, <1>4, <1>13 DEF Sound
    <2>2. /\ Reading(client, server) /\ client.running
          /\ client.download_file \in {"none", "open"}
      <3>1. "download" # "none" /\ "stufftext" # "download"
        OBVIOUS
      <3> QED
        BY <1>1, <1>5, <2>1, <3>1, LoopAt
    <2> DEFINE b == server.block
               file == server.file
    <2>13. PICK no : no \in {0, 50} /\ client.message = Packet(Reply(file, b, no)).message
      BY <2>2 DEF Reading, Block
    <2>3. /\ b \in 1 .. Blocks + 1 /\ file = client.name
          /\ client.download_file = "open" /\ b <= Blocks => client.content = Whole(file, b - 1)
          /\ client.message = Packet(Reply(file, b, no)).message
          /\ Quiet(client.reliable, Said) /\ Quiet(server.down, Offers)
          /\ Taken.msg_readcount = 1
      BY <1>1, <2>2, <2>13 DEF Reading, Expected
    <2>4. Blocks \in Nat /\ Blocks >= 1
      BY ServerMessageAssumption
    <2>5. b \in Nat /\ b >= 1 /\ (~(b <= Blocks) => b = Blocks + 1)
      BY <2>3, <2>4
    <2> HIDE DEF b, file
    <2>6. Taken.message = Packet(Reply(file, b, no)).message
          /\ Taken.download_file \in {"none", "open"}
      BY <1>1, <1>9, <2>2, <2>3
    <2>7. /\ t.fault = "none"
          /\ b <= Blocks
             => /\ t.msg_readcount = 5 /\ t.download_file = client.download_file
                /\ t.running = client.running
                /\ client.download_file = "open" => t.content = Whole(file, b)
          /\ ~(b <= Blocks) => t.msg_readcount = 3
      <3>1. /\ t.fault = "none"
            /\ b <= Blocks
               => /\ t.msg_readcount = 5 /\ t.download_file = Taken.download_file
                  /\ t.running = Taken.running
                  /\ Taken.download_file = "open" /\ Taken.content = Whole(file, b - 1)
                     => t.content = Whole(file, b)
            /\ ~(b <= Blocks) => t.msg_readcount = 3
        <4>1. PICK c : c = Taken
          OBVIOUS
        <4>2. /\ IsClient(c) /\ Asks(c) /\ c.fault = "none" /\ c.msg_readcount = 1
              /\ b \in Nat /\ b >= 1 /\ c.message = Packet(Reply(file, b, no)).message
              /\ c.download_file \in {"none", "open"}
          BY <1>1, <2>3, <2>5, <2>6, <4>1
        <4>3. /\ BlockTaken(c).fault = "none"
              /\ b <= Blocks
                 => /\ BlockTaken(c).msg_readcount = 5
                    /\ BlockTaken(c).download_file = c.download_file
                    /\ BlockTaken(c).running = c.running
                    /\ c.download_file = "open" /\ c.content = Whole(file, b - 1)
                       => BlockTaken(c).content = Whole(file, b)
              /\ ~(b <= Blocks) => BlockTaken(c).msg_readcount = 3
          BY ONLY <4>2, BlockKept
        <4> QED
          BY <4>1, <4>3 DEF t
      <3> QED
        BY <1>9, <2>3, <3>1
    <2>8. /\ b <= Blocks => p = (100 * b) \div Blocks
          /\ ~(b <= Blocks) => p = no
      BY <1>1, <2>3, <2>6, BlockRead DEF p
    <2>9. p = 100 <=> b = Blocks
      <3>1. CASE b <= Blocks
        <4>1. b \in 1 .. Blocks
          BY <2>3, <2>4, <3>1
        <4>2. (100 * b) \div Blocks = 100 <=> b = Blocks
          BY <4>1, PercentIs
        <4> QED
          BY <2>8, <3>1, <4>2
      <3>2. CASE ~(b <= Blocks)
        BY <2>4, <2>5, <2>8, <2>13, <3>2
      <3> QED
        BY <3>1, <3>2
    <2>14. b <= Blocks => Len(Packet(Reply(file, b, no)).message) = 5
      BY ONLY ReplyParts, Zenon
    <2>10. d.msg_readcount = t.msg_readcount
      BY <1>2, FinishPlace, AskPlace
    <2>11. CASE b = Blocks
      <3>1. p = 100 /\ d = FinishDownload(t) /\ b <= Blocks
        BY <1>2, <2>4, <2>9, <2>11
      <3>2. /\ d.reliable = Append(t.reliable, [name |-> "say"])
            /\ t.download_file = "open"
               => /\ d.download_file = "closed" /\ ~d.running
                  /\ d.finished = t.finished \cup {[name |-> t.name, content |-> t.content]}
            /\ t.download_file \in {"none", "closed"}
               => /\ d.finished = t.finished
                  /\ d.fault = IF t.fault # "none" THEN t.fault
                               ELSE IF t.download_file = "none" THEN "closed no file"
                               ELSE "closed twice"
        <4>1. IsClient(t) /\ Asks(t) /\ d = FinishDownload(t)
          BY <1>2, <3>1
        <4>2. d.reliable = Append(t.reliable, [name |-> "say"])
          BY ONLY <4>1, FinishIs
        <4>3. t.download_file = "open"
              => /\ d.download_file = "closed" /\ ~d.running
                 /\ d.finished = t.finished \cup {[name |-> t.name, content |-> t.content]}
          BY ONLY <4>1, FinishIs
        <4>4. t.download_file \in {"none", "closed"}
              => /\ d.finished = t.finished
                 /\ d.fault = IF t.fault # "none" THEN t.fault
                              ELSE IF t.download_file = "none" THEN "closed no file"
                              ELSE "closed twice"
          BY ONLY <4>1, FinishIs
        <4> QED
          BY <4>2, <4>3, <4>4
      <3>3. CASE client.download_file = "open"
        <4>1. t.download_file = "open" /\ t.content = Whole(client.name, Blocks)
          BY <2>3, <2>7, <2>11, <3>1, <3>3
        <4>2. Finished(client')
          <5> DEFINE f == [name |-> t.name, content |-> t.content]
          <5>1. f.name = client.name /\ f.content = Whole(client.name, Blocks)
            BY <1>9, <4>1
          <5> HIDE DEF f
          <5>2. client'.finished = client.finished \cup {f}
            BY <1>9, <1>11, <3>2, <4>1 DEF f
          <5>3. \A g \in client.finished : g.content = Whole(g.name, Blocks)
            BY <1>5, <1>13 DEF DownloadInv, Finished
          <5> QED
            BY <5>1, <5>2, <5>3 DEF Finished
        <4>3. ASSUME Sound(client')
              PROVE  Idle(client', server')
          <5>1. client' = d
            BY <1>3, <4>3 DEF Sound
          <5>2. Quiet(client'.reliable, Said)
            <6>1. [name |-> "say"] \in Said
              BY DEF Said
            <6> QED
              <7>1. client'.reliable = Append(client.reliable, [name |-> "say"])
                BY <1>9, <3>2, <5>1
              <7>2. Quiet(client.reliable, Said)
                BY <2>3
              <7> QED
                BY ONLY <6>1, <7>1, <7>2, QuietMore
          <5>3. Resting(client')
            <6>1. client'.msg_readcount = 5 /\ Len(client'.message) = 5
              <7>1. Len(Packet(Reply(file, b, no)).message) = 5
                BY <2>14, <3>1
              <7> QED
                BY <1>10, <2>3, <2>7, <2>10, <3>1, <5>1, <7>1
            <6>2. \A x, y : x = 5 /\ y = 5 => x >= y
              OBVIOUS
            <6>3. client'.msg_readcount >= Len(client'.message)
              BY ONLY <6>1, <6>2, Zenon
            <6> QED
              BY <6>3 DEF Resting
          <5> QED
            BY <1>1, <2>3, <3>2, <4>1, <5>1, <5>2, <5>3 DEF Idle
        <4> QED
          BY <4>2, <4>3 DEF DownloadInv
      <3>4. CASE client.download_file = "none"
        <4>1. t.download_file = "none" /\ t.fault = "none"
          BY <2>7, <3>1, <3>4
        <4>2. d.finished = client.finished /\ d.fault = "closed no file"
          BY <1>9, <3>2, <4>1
        <4>3. ~Sound(client')
          BY <1>3, <4>2 DEF Sound
        <4>4. Finished(client')
          BY <1>5, <1>11, <1>13, <4>2 DEF DownloadInv, Finished
        <4> QED
          BY <4>3, <4>4 DEF DownloadInv
      <3> QED
        BY <2>2, <3>3, <3>4
    <2>12. CASE b # Blocks
      <3>1. p # 100 /\ d = AskForMore(t, p)
        BY <1>2, <2>9, <2>12
      <3>2. \/ d.reliable = Append(t.reliable, [name |-> "nextdl"])
            \/ d.reliable = Append(Append(t.reliable, [name |-> "say"]), [name |-> "nextdl"])
        BY <1>2, <3>1, AskForMoreIs
      <3>3. Alone(More, d.reliable, Said)
        <4>1. [name |-> "say"] \in Said
          BY DEF Said
        <4>2. Quiet(Append(t.reliable, [name |-> "say"]), Said)
          BY <1>9, <2>3, <4>1, QuietMore
        <4> QED
          BY <1>9, <2>3, <3>2, <4>2, QuietMore DEF More
      <3>4. Finished(client')
        BY <1>5, <1>10, <1>11, <1>13, <3>1 DEF DownloadInv, Finished
      <3>5. ASSUME Sound(client')
            PROVE  Running(client', server') \/ Doomed(client')
        <4>1. client' = d
          BY <1>3, <3>5 DEF Sound
        <4>2. CASE b <= Blocks
          <5>1. d.download_file = t.download_file /\ d.running = t.running
            BY <1>8, <3>1 DEF Alters, Names, Place
          <5>2. Resting(client')
            <6>1. client'.msg_readcount = 5 /\ Len(client'.message) = 5
              <7>1. Len(Packet(Reply(file, b, no)).message) = 5
                BY <2>14, <4>2
              <7> QED
                BY <1>10, <2>3, <2>7, <2>10, <4>1, <4>2, <7>1
            <6>2. \A x, y : x = 5 /\ y = 5 => x >= y
              OBVIOUS
            <6>3. client'.msg_readcount >= Len(client'.message)
              BY ONLY <6>1, <6>2, Zenon
            <6> QED
              BY <6>3 DEF Resting
          <5>3. b \in 1 .. Blocks - 1
            BY <2>4, <2>5, <2>12, <4>2
          <5>4. server'.file = client.name /\ server'.block = b
            BY <1>1, <2>3 DEF file, b
          <5>5. d.download_file = "open" => d.content = Whole(client.name, b)
            BY <1>10, <2>3, <2>7, <4>2, <5>1
          <5>6. Going(client', server')
            BY <1>1, <1>10, <2>3, <3>3, <4>1, <5>2, <5>3, <5>4, <5>5 DEF Going
          <5>7. client'.running /\ client'.download_file \in {"none", "open"}
            BY <2>2, <2>7, <4>1, <4>2, <5>1
          <5> QED
            BY <5>6, <5>7 DEF Running
        <4>3. CASE ~(b <= Blocks)
          <5>1. client'.parsing /\ client'.msg_readcount = 3
            BY <1>4, <1>10, <2>7, <2>10, <4>1, <4>3
          <5>2. client'.message = Packet(Reply(file, Blocks + 1, no)).message
            BY <1>10, <2>3, <2>5, <4>1, <4>3
          <5> QED
            BY <2>13, <5>1, <5>2 DEF Doomed
        <4> QED
          BY <4>2, <4>3
      <3> QED
        BY <3>4, <3>5 DEF DownloadInv
    <2> QED
      BY <2>11, <2>12
  <1> QED
    BY <1>12, <1>13

LEMMA DownloadNext ==
  ASSUME BaseInv, DownloadInv, [Next]_vars
  PROVE  DownloadInv'
  <1>1. ASSUME topic # "download", topic' = topic
        PROVE  DownloadInv'
    BY <1>1 DEF DownloadInv
  <1>2. CASE ParseServerMessage
    <2>1. CASE BadRead \/ EndOfMessage \/ NotViable \/ Misread
      BY <2>1, FilePlain
    <2>2. ASSUME NEW name, name \notin {"none", "stufftext", "download"}, Case(name),
                 client'.overlap = client.overlap, client'.finished = client.finished,
                 topic' = topic
          PROVE  DownloadInv'
      <3>1. client.fault = "none" /\ ~client.abort
        BY <2>2 DEF Case, Loop
      <3>2. topic = "download" => ~Sound(client)
        BY <2>2, LoopAt
      <3>3. topic = "download" => client.overlap
        BY <3>1, <3>2 DEF Sound
      <3> QED
        BY <2>2, <3>3 DEF DownloadInv, Finished, Sound
    <2>3. ASSUME NEW S, Steps(S), S \cap {"overlap", "finished"} = {}
          PROVE  /\ client'.overlap = client.overlap /\ client'.finished = client.finished
                 /\ topic' = topic
      BY <2>3 DEF Steps, Alters, Names, Place
    <2>4. CASE Parse_fixed
      <3>1. PICK svc \in DOMAIN Parsed : Case(svc)
        BY <2>4 DEF Parse_fixed
      <3>2. svc \notin {"none", "stufftext", "download"}
        BY DEF Parsed, Payload, Silent
      <3>3. Steps({})
        BY <2>4, FixedSteps
      <3> QED
        BY <2>2, <2>3, <3>1, <3>2, <3>3
    <2>5. CASE Parse_print
      <3>1. Case("print")
        BY <2>5 DEF Parse_print
      <3>2. Alters(client, client', LineFields \cup {"command", "fault"}) /\ topic' = topic
        BY <2>5, PrintSteps
      <3>3. client'.overlap = client.overlap /\ client'.finished = client.finished
        BY <3>2 DEF Alters, Names, Place, LineFields
      <3> QED
        BY <2>2, <3>1, <3>2, <3>3
    <2>6. CASE Parse_lists
      <3>1. Case("serverdata") \/ Case("soundlist") \/ Case("modellist")
        BY <2>6 DEF Parse_lists
      <3>2. Steps({"protoversion", "servercount", "loaded", "reliable"})
        BY <2>6, ListsSteps
      <3>3. client'.overlap = client.overlap /\ client'.finished = client.finished
            /\ topic' = topic
        BY <2>3, <3>2
      <3> QED
        BY <2>2, <3>1, <3>3
    <2>7. CASE Parse_world
      <3>1. \/ Case("playerinfo") \/ Case("sound") \/ Case("packetentities")
            \/ Case("temp_entity")
        BY <2>7 DEF Parse_world
      <3>2. Steps({"abort", "validsequence", "deltapoint"})
        BY <2>7, WorldSteps
      <3>3. client'.overlap = client.overlap /\ client'.finished = client.finished
            /\ topic' = topic
        BY <2>3, <3>2
      <3> QED
        BY <2>2, <3>1, <3>3
    <2> QED
      BY <1>2, <2>1, <2>4, <2>5, <2>6, <2>7, FileStufftext, FileDownload
      DEF ParseServerMessage
  <1>3. CASE Get_Message
    BY <1>3, FileGet
  <1>4. CASE QWC_GetConsoleOutput
    <2>1. /\ UNCHANGED <<topic, server>>
          /\ Alters(client, client', {"console_output", "got", "fault"})
          /\ client.fault = "none"
      BY <1>4, OutputStep
    <2>2. client'.msg_readcount = client.msg_readcount
      <3> DEFINE c == IF client.quit THEN Faulty(client, "freed line") ELSE client
                 lines == client.console_output
                 new == {i \in DOMAIN lines : ~lines[i].done}
                 s == CHOOSE i \in new : \A j \in new : i <= j
      <3>1. client' = [c EXCEPT !.console_output[s].done = TRUE, !.got = @ \o lines[s].string]
        BY <1>4 DEF QWC_GetConsoleOutput
      <3>2. IsClient(client)
        BY DEF BaseInv
      <3>3. IsClient(c) /\ c.msg_readcount = client.msg_readcount
        BY <3>2 DEF Faulty, IsClient, Names
      <3> HIDE DEF c, s, lines
      <3> QED
        BY <3>1, <3>3 DEF IsClient, Names
    <2>3. /\ client'.overlap = client.overlap /\ client'.finished = client.finished
          /\ client'.abort = client.abort
          /\ \A x \in Looks : client'[x] = client[x]
      BY <2>1 DEF Alters, Names, Place, Looks
    <2> QED
      BY <2>1, <2>2, <2>3, DownloadSame DEF Sound
  <1>5. CASE QWC_Quit
    BY <1>1, <1>5 DEF QWC_Quit
  <1>6. CASE Answer
    BY <1>6, FileAnswer
  <1>7. CASE ChangeLevel
    BY <1>1, <1>7 DEF ChangeLevel
  <1>8. CASE Send
    BY <1>8, FileSend
  <1>9. CASE UNCHANGED vars
    <2>1. topic' = topic /\ client' = client /\ server' = server
      BY <1>9 DEF vars
    <2> QED
      BY <2>1, DownloadSame
  <1> QED
    BY <1>2, <1>3, <1>4, <1>5, <1>6, <1>7, <1>8, <1>9 DEF Next

\* For files of any number of blocks: a finished file has its blocks in their order unless a
\* download was begun while another was running, and a closed file is used only behind the
\* end of a download (ParseDownload, and the stuffed text "download").
THEOREM FileIsAlwaysWhole == Spec => []FileIsWhole
  <1>1. FaultInv /\ DownloadInv => FileIsWhole
    <2> SUFFICES ASSUME FaultInv, DownloadInv
                 PROVE  FileIsWhole
      OBVIOUS
    <2>1. ASSUME ~client.overlap, NEW f \in client.finished
          PROVE  f.content = [i \in 1 .. Blocks |-> Field("data", <<f.name, i>>)]
      BY <2>1 DEF FaultInv, DownloadInv, Finished, Whole
    <2> QED
      BY <2>1 DEF FileIsWhole, FaultInv
  <1>2. BaseInv /\ FaultInv /\ [Next]_vars => FaultInv'
    BY FaultNext
  <1>3. BaseInv /\ DownloadInv /\ [Next]_vars => DownloadInv'
    BY DownloadNext
  <1> QED
    BY <1>1, <1>2, <1>3, FaultInit, DownloadInit, BaseAlways, PTL DEF Spec

=============================================================================
