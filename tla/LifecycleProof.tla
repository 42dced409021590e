--------------------------- MODULE LifecycleProof ---------------------------
(***************************************************************************)
(* Proofs about Lifecycle and the modules under it, Ports and Network: for *)
(* any of the four ports, any number of connections and every interleaving *)
(* of the application's, the client's and the net threads; about addresses *)
(* for any string.                                                         *)
(***************************************************************************)
EXTENDS Lifecycle, SequenceTheorems, WellFoundedInduction, TLAPS

USE LifecycleAssumption

Systems == {"posix", "win32", "morphos", "null"}

-----------------------------------------------------------------------------
(* What the ports acquire and give back. *)

\* All, or no more than is kept.
LEMMA AcquireIs ==
  ASSUME NEW things, NEW kept, NEW got \in Acquire(things, kept)
  PROVE  got = ToSet(things) \/ got \subseteq kept
  BY DEF Acquire

\* What a thread, a mutex, the network and a socket consist of.
ThreadThings(system) ==
  Linked(system, {"systhread", "pthread"}, {"systhread", "handle"},
         {"systhread", "msgport", "process"}, {})
MutexThings(system) ==
  Linked(system, {"sysmutex", "pthread_mutex"}, {"sysmutex", "critical_section"},
         {"sysmutex"}, {"sysmutex"})
NetThings(system) ==
  Linked(system, {"netdata"}, {"winsock", "netdata", "library"},
         {"netdata", "library"}, {})
Socket(system) ==
  IF system = "null" THEN {} ELSE {"syssocket", "descriptor", "nonblocking"}

LEMMA ThreadsOf ==
  ASSUME NEW p \in Systems, NEW got \in Sys_Thread_CreateThread(p)
  PROVE  got = ThreadThings(p) \/ got = {}
  <1>1. /\ ToSet(<<"systhread", "pthread">>) = {"systhread", "pthread"}
        /\ ToSet(<<"systhread", "handle">>) = {"systhread", "handle"}
        /\ ToSet(<<"systhread", "msgport", "process">>) = {"systhread", "msgport", "process"}
    BY DEF ToSet
  <1>2. CASE p = "posix"
    BY <1>1, <1>2, AcquireIs
       DEF Linked, Sys_Thread_CreateThread, PosixCreateThread, ThreadThings
  <1>3. CASE p = "win32"
    BY <1>1, <1>3, AcquireIs
       DEF Linked, Sys_Thread_CreateThread, Win32CreateThread, ThreadThings
  <1>4. CASE p = "morphos"
    BY <1>1, <1>4, AcquireIs
       DEF Linked, Sys_Thread_CreateThread, MorphosCreateThread, ThreadThings
  <1>5. CASE p = "null"
    BY <1>5 DEF Linked, Sys_Thread_CreateThread, NullCreateThread
  <1> QED
    BY <1>2, <1>3, <1>4, <1>5 DEF Systems

LEMMA MutexesOf ==
  ASSUME NEW p \in Systems, NEW got \in Sys_Thread_CreateMutex(p)
  PROVE  got = MutexThings(p) \/ got = {}
  <1>1. /\ ToSet(<<"sysmutex", "pthread_mutex">>) = {"sysmutex", "pthread_mutex"}
        /\ ToSet(<<"sysmutex", "critical_section">>) = {"sysmutex", "critical_section"}
        /\ ToSet(<<"sysmutex">>) = {"sysmutex"}
    BY DEF ToSet
  <1>2. CASE p = "posix"
    BY <1>1, <1>2, AcquireIs
       DEF Linked, Sys_Thread_CreateMutex, PosixCreateMutex, MutexThings
  <1>3. CASE p = "win32"
    BY <1>1, <1>3, AcquireIs
       DEF Linked, Sys_Thread_CreateMutex, Win32CreateMutex, MutexThings
  <1>4. CASE p = "morphos"
    BY <1>1, <1>4, AcquireIs
       DEF Linked, Sys_Thread_CreateMutex, MorphosCreateMutex, MutexThings
  <1>5. CASE p = "null"
    BY <1>5 DEF Linked, Sys_Thread_CreateMutex, NullCreateMutex, MutexThings
  <1> QED
    BY <1>2, <1>3, <1>4, <1>5 DEF Systems

LEMMA NetInitOf ==
  ASSUME NEW p \in Systems, NEW got \in Sys_Net_Init(p)
  PROVE  /\ got = NetThings(p) \/ got = {}
         /\ "netdata" \in got => p # "null"
  <1>1. ToSet(<<"netdata", "library">>) = {"netdata", "library"}
    BY DEF ToSet
  <1>2. CASE p = "posix"
    BY <1>2 DEF Linked, Sys_Net_Init, PosixNetInit, NetThings
  <1>3. CASE p = "win32"
    BY <1>3 DEF Linked, Sys_Net_Init, Win32NetInit, NetThings
  <1>4. CASE p = "morphos"
    BY <1>1, <1>4, AcquireIs DEF Linked, Sys_Net_Init, AmiTcpNetInit, NetThings
  <1>5. CASE p = "null"
    BY <1>5 DEF Linked, Sys_Net_Init, NullNetInit
  <1> QED
    BY <1>2, <1>3, <1>4, <1>5 DEF Systems

\* The descriptor two ports keep.
LEMMA SocketsOf ==
  ASSUME NEW p \in Systems, NEW type, NEW got \in Sys_Net_CreateSocket(p, type)
  PROVE  \/ /\ got = Socket(p) /\ p # "null" /\ type \in {"NA_IPV4", "NA_IPV6"}
            /\ p = "morphos" => type = "NA_IPV4"
         \/ got = {}
         \/ got \subseteq {"descriptor"} /\ p \in {"posix", "win32"}
  <1>1. ToSet(SocketThings) = {"syssocket", "descriptor", "nonblocking"}
    BY DEF ToSet, SocketThings
  <1>2. CASE p = "posix"
    BY <1>1, <1>2, AcquireIs DEF Linked, Sys_Net_CreateSocket, PosixCreateSocket, Socket
  <1>3. CASE p = "win32"
    BY <1>1, <1>3, AcquireIs DEF Linked, Sys_Net_CreateSocket, Win32CreateSocket, Socket
  <1>4. CASE p = "morphos"
    BY <1>1, <1>4, AcquireIs DEF Linked, Sys_Net_CreateSocket, AmiTcpCreateSocket, Socket
  <1>5. CASE p = "null"
    BY <1>5 DEF Linked, Sys_Net_CreateSocket, NullCreateSocket
  <1> QED
    BY <1>2, <1>3, <1>4, <1>5 DEF Systems

\* What is given back.
LEMMA GivenBack ==
  ASSUME NEW p \in Systems, NEW held
  PROVE  /\ Sys_Net_Shutdown(p).frees = NetThings(p)
         /\ Sys_Net_DeleteSocket(p, held) = held \ Socket(p)
         /\ Sys_Thread_DeleteMutex(p, held) =
              held \ (MutexThings(p) \ (IF p = "win32" THEN {"critical_section"} ELSE {}))
  <1>1. ToSet(SocketThings) = {"syssocket", "descriptor", "nonblocking"}
    BY DEF ToSet, SocketThings
  <1> USE DEF Linked, Sys_Net_Shutdown, Sys_Net_DeleteSocket, Sys_Thread_DeleteMutex,
              NetThings, Socket, MutexThings
  <1>2. CASE p = "posix"
    BY <1>1, <1>2 DEF PosixNetShutdown, PosixDeleteSocket, PosixDeleteMutex
  <1>3. CASE p = "win32"
    BY <1>1, <1>3 DEF Win32NetShutdown, Win32DeleteSocket, Win32DeleteMutex
  <1>4. CASE p = "morphos"
    BY <1>1, <1>4 DEF AmiTcpNetShutdown, AmiTcpDeleteSocket, MorphosDeleteMutex
  <1>5. CASE p = "null"
    BY <1>5 DEF NullNetShutdown, NullDeleteSocket, NullDeleteMutex
  <1> QED
    BY <1>2, <1>3, <1>4, <1>5 DEF Systems

\* Joining: the null port does not wait, and a POSIX thread may join itself.
LEMMA Joining ==
  ASSUME NEW p \in Systems, NEW t, NEW who, NEW ended \in BOOLEAN
  PROVE  LET join == Sys_Thread_DeleteThread(p, t, who, ended)
         IN  /\ join.returns => ended \/ p = "null" \/ (p = "posix" /\ t = who)
             /\ join.returns \in BOOLEAN
             /\ join.frees = ThreadThings(p)
  <1> USE DEF Linked, Sys_Thread_DeleteThread, ThreadThings
  <1>2. CASE p = "posix"
    BY <1>2 DEF PosixDeleteThread
  <1>3. CASE p = "win32"
    BY <1>3 DEF Win32DeleteThread
  <1>4. CASE p = "morphos"
    BY <1>4 DEF MorphosDeleteThread
  <1>5. CASE p = "null"
    BY <1>5 DEF NullDeleteThread
  <1> QED
    BY <1>2, <1>3, <1>4, <1>5 DEF Systems

-----------------------------------------------------------------------------
(* Strings and addresses. *)

Tokens ==
  [kind : {"number"}, value : Nat] \cup [kind : {".", ":", "local", "server"}, value : {0}]
Addresses ==
  [type : {"none", "NA_LOOPBACK", "NA_IPV4", "NA_IPV6"}, address : Seq(Nat), port : Nat]

LEMMA LeastNatural ==
  ASSUME NEW T \in SUBSET Nat, T # {}
  PROVE  \E m \in T : \A k \in T : m <= k
  <1> DEFINE R == OpToRel(<, Nat)
  <1>1. IsWellFoundedOn(R, Nat)
    BY NatLessThanWellFounded
  <1>2. R = {p \in Nat \X Nat : p[1] < p[2]}
    BY DEF OpToRel
  <1> HIDE DEF R
  <1>3. PICK m \in T : \A k \in T : ~ (<<k, m>> \in R)
    BY <1>1, WFMin
  <1>4. ASSUME NEW k \in T PROVE m <= k
    <2>1. k \in Nat /\ m \in Nat /\ <<k, m>> \notin R
      BY <1>3
    <2>2. ~(k < m)
      BY <1>2, <2>1
    <2> QED
      BY <2>1, <2>2
  <1> QED
    BY <1>4

LEMMA FirstIs ==
  ASSUME NEW A, NEW answers \in Seq(A), NEW types
  PROVE  \/ First(answers, types) = << >>
         \/ \E i \in DOMAIN answers :
              First(answers, types) = <<answers[i]>> /\ answers[i].type \in types
  <1> DEFINE known == {i \in DOMAIN answers : answers[i].type \in types}
  <1> SUFFICES ASSUME known # {}
               PROVE  \E i \in DOMAIN answers :
                        First(answers, types) = <<answers[i]>> /\ answers[i].type \in types
    BY DEF First
  <1>1. known \in SUBSET Nat
    BY LenProperties
  <1>2. \E m \in known : \A k \in known : m <= k
    <2> HIDE DEF known
    <2> QED
      BY <1>1, LeastNatural
  <1> DEFINE least == CHOOSE i \in known : \A j \in known : i <= j
  <1>3. least \in known
    BY <1>2
  <1>4. First(answers, types) = <<answers[least]>>
    BY DEF First
  <1> QED
    BY <1>3, <1>4

LEMMA ResolvedIs ==
  ASSUME NEW p \in Systems, NEW answers \in Seq(Addresses)
  PROVE  \/ Sys_Net_ResolveName(p, answers) = << >>
         \/ \E a \in Addresses : /\ Sys_Net_ResolveName(p, answers) = <<a>>
                                 /\ a.type \in {"NA_IPV4", "NA_IPV6"}
  <1>1. \A types : \/ First(answers, types) = << >>
                   \/ \E a \in Addresses : First(answers, types) = <<a>> /\ a.type \in types
    <2> SUFFICES ASSUME NEW types, First(answers, types) # << >>
                 PROVE  \E a \in Addresses :
                          First(answers, types) = <<a>> /\ a.type \in types
      OBVIOUS
    <2>1. PICK i \in DOMAIN answers :
            First(answers, types) = <<answers[i]>> /\ answers[i].type \in types
      BY FirstIs
    <2>2. answers[i] \in Addresses
      BY LenProperties, ElementOfSeq
    <2> QED
      BY <2>1, <2>2
  <1> USE DEF Linked, Sys_Net_ResolveName
  <1>2. CASE p = "posix"
    BY <1>1, <1>2 DEF PosixResolveName
  <1>3. CASE p = "win32"
    BY <1>1, <1>3 DEF Win32ResolveName
  <1>4. CASE p = "morphos"
    BY <1>1, <1>4 DEF AmiTcpResolveName
  <1>5. CASE p = "null"
    BY <1>5 DEF NullResolveName
  <1> QED
    BY <1>2, <1>3, <1>4, <1>5 DEF Systems

\* A number is read where there is one, if it is not too large.
LEMMA NumberAt ==
  ASSUME NEW s \in Seq(Tokens), NEW i \in Nat \ {0}, NEW maxvalue \in Nat
  PROVE  NET_StringDecToUInt(SubSeq(s, i, Len(s)), maxvalue) = 1 <=>
           i <= Len(s) /\ s[i].kind = "number" /\ s[i].value <= maxvalue
  <1> DEFINE q == SubSeq(s, i, Len(s))
  <1>1. Len(s) \in Nat
    BY LenProperties
  <1>2. CASE i <= Len(s)
    <2>1. \A j \in i .. Len(s) : s[j] \in Tokens
      BY ElementOfSeq
    <2>2. q \in Seq(Tokens) /\ Len(q) = Len(s) - i + 1 /\ q[1] = s[i]
      BY <1>1, <1>2, <2>1, SubSeqProperties
    <2>3. 1 \in DOMAIN q
      BY <1>1, <1>2, <2>2, LenProperties
    <2> HIDE DEF q
    <2> QED
      BY <1>2, <2>2, <2>3 DEF NET_StringDecToUInt, IsKind
  <1>3. CASE i > Len(s)
    <2>1. q = << >> /\ DOMAIN << >> = {}
      BY <1>1, <1>3, SubSeqEmpty
    <2> HIDE DEF q
    <2> QED
      BY <1>1, <1>3, <2>1 DEF NET_StringDecToUInt, IsKind
  <1> QED
    BY <1>1, <1>2, <1>3

\* Which strings are four numbers with dots between them.
LEMMA QuadIs ==
  ASSUME NEW s \in Seq(Tokens)
  PROVE  /\ NET_StringToIPv4(s) \in {0, 7}
         /\ NET_StringToIPv4(s) = 7 <=>
              /\ Len(s) >= 7
              /\ \A i \in {1, 3, 5, 7} : s[i].kind = "number" /\ s[i].value <= 255
              /\ \A i \in {2, 4, 6} : s[i].kind = "."
              /\ Len(s) = 7 \/ (Len(s) >= 8 /\ s[8].kind = ":")
  <1>1. Len(s) \in Nat /\ DOMAIN s = 1 .. Len(s)
    BY LenProperties
  <1>2. \A i \in {1, 3, 5, 7} :
          NET_StringDecToUInt(SubSeq(s, i, Len(s)), 255) = 1 <=>
            i <= Len(s) /\ s[i].kind = "number" /\ s[i].value <= 255
    BY NumberAt
  <1>3. \A i \in {2, 4, 6, 8} : \A kind :
          IsKind(s, i, kind) <=> i <= Len(s) /\ s[i].kind = kind
    BY <1>1 DEF IsKind
  <1> DEFINE quad == /\ \A i \in {1, 3, 5, 7} :
                          NET_StringDecToUInt(SubSeq(s, i, Len(s)), 255) = 1
                     /\ \A i \in {2, 4, 6} : IsKind(s, i, ".")
                     /\ Len(s) = 7 \/ IsKind(s, 8, ":")
  <1>4. NET_StringToIPv4(s) = IF quad THEN 7 ELSE 0
    BY DEF NET_StringToIPv4
  <1>5. quad <=> /\ Len(s) >= 7
                 /\ \A i \in {1, 3, 5, 7} : s[i].kind = "number" /\ s[i].value <= 255
                 /\ \A i \in {2, 4, 6} : s[i].kind = "."
                 /\ Len(s) = 7 \/ (Len(s) >= 8 /\ s[8].kind = ":")
    BY <1>1, <1>2, <1>3
  <1> HIDE DEF quad
  <1> QED
    BY <1>4, <1>5

LEMMA IsSeq ==
  ASSUME NEW S, NEW n \in Nat, NEW f \in [1 .. n -> S]
  PROVE  f \in Seq(S)
  BY SeqDef

\* The four numbers of such a string.
Quadruple(s) == [i \in 1 .. 4 |-> s[2 * i - 1].value]

\* What there is to say of a name that has been read: it goes up to the first colon.
NameOf(read, s) ==
  /\ read.len \in 1 .. Len(s) /\ read.adr \in Addresses
  /\ read.len = Len(s) => Colon \notin ToSet(s)
  /\ \/ read.adr.type = "NA_LOOPBACK"
     \/ /\ read.adr.type \in {"NA_IPV4", "NA_IPV6"}
        /\ NET_StringToIPv4(s) = 7 => read.adr.address = Quadruple(s)

LEMMA NameIs ==
  ASSUME NEW p \in Systems, NEW s \in Seq(Tokens), NEW answers \in Seq(Addresses),
         NEW read, read = NET_StringToNetAddrNoPort(p, s, answers)
  PROVE  read.len = 0 \/ NameOf(read, s)
  <1> DEFINE colons == {i \in DOMAIN s : s[i].kind = ":"}
             first == CHOOSE i \in colons : \A j \in colons : i <= j
             name == IF colons = {} THEN Len(s) ELSE first - 1
             resolved == Sys_Net_ResolveName(p, answers)
  <1>1. /\ Len(s) \in Nat /\ DOMAIN s = 1 .. Len(s)
        /\ \A i \in 1 .. Len(s) : s[i] \in Tokens
    BY LenProperties, ElementOfSeq
  <1>2. Colon \in ToSet(s) => colons # {}
    BY DEF ToSet, Colon, Token
  <1>3. NET_StringToIPv6(s) = 0
    BY DEF NET_StringToIPv6
  <1>4. CASE s = <<Token("local")>>
    <2> DEFINE local == [type |-> "NA_LOOPBACK", address |-> << >>, port |-> 0]
    <2>1. read.len = 1 /\ read.adr = local
      BY <1>4 DEF NET_StringToNetAddrNoPort
    <2>2. Len(s) = 1 /\ s[1] = Token("local")
      BY <1>4
    <2>3. Colon \notin ToSet(s)
      BY <1>1, <2>2 DEF ToSet, Colon, Token
    <2>4. local \in Addresses /\ local.type = "NA_LOOPBACK"
      <3>1. << >> \in Seq(Nat)
        BY EmptySeq
      <3> QED
        BY <3>1 DEF Addresses
    <2> HIDE DEF local
    <2>5. 1 \in 1 .. Len(s)
      BY <2>2
    <2> QED
      BY <2>1, <2>3, <2>4, <2>5 DEF NameOf
  <1>5. CASE s # <<Token("local")>> /\ NET_StringToIPv4(s) = 7
    <2> DEFINE adr == [type |-> "NA_IPV4", port |-> 0, address |-> Quadruple(s)]
    <2>1. read.len = 7 /\ read.adr = adr
      BY <1>5 DEF NET_StringToNetAddrNoPort, Quadruple
    <2>2. /\ Len(s) >= 7
          /\ \A i \in {1, 3, 5, 7} : s[i].kind = "number"
          /\ \A i \in {2, 4, 6} : s[i].kind = "."
      BY <1>5, QuadIs
    <2>3. Len(s) = 7 => Colon \notin ToSet(s)
      BY <1>1, <2>2 DEF ToSet, Colon, Token
    <2>4. Quadruple(s) \in Seq(Nat)
      <3>1. \A i \in 1 .. 4 : s[2 * i - 1].value \in Nat
        BY <1>1, <2>2 DEF Tokens
      <3>2. Quadruple(s) \in [1 .. 4 -> Nat]
        BY <3>1 DEF Quadruple
      <3> QED
        BY <3>2, IsSeq
    <2>5. adr \in Addresses /\ adr.type = "NA_IPV4" /\ adr.address = Quadruple(s)
      BY <2>4 DEF Addresses
    <2>6. 7 \in 1 .. Len(s)
      BY <1>1, <2>2
    <2> HIDE DEF adr
    <2> QED
      BY <2>1, <2>3, <2>5, <2>6 DEF NameOf
  <1>6. CASE s # <<Token("local")>> /\ NET_StringToIPv4(s) # 7 /\ resolved # << >>
    <2>1. NET_StringToIPv4(s) = 0
      BY <1>6, QuadIs
    <2>2. read.len = name /\ read.adr = resolved[1]
      BY <1>3, <1>6, <2>1 DEF NET_StringToNetAddrNoPort
    <2>3. PICK a \in Addresses : resolved = <<a>> /\ a.type \in {"NA_IPV4", "NA_IPV6"}
      BY <1>6, ResolvedIs
    <2>4. colons # {} => first \in 1 .. Len(s)
      <3>1. colons \in SUBSET Nat
        BY <1>1
      <3>2. colons # {} => \E m \in colons : \A k \in colons : m <= k
        <4> HIDE DEF colons
        <4> QED
          BY <3>1, LeastNatural
      <3>3. colons # {} => first \in colons
        BY <3>2
      <3> QED
        BY <1>1, <3>3
    <2>5. name = 0 \/ (name \in 1 .. Len(s) /\ (name = Len(s) => colons = {}))
      <3> HIDE DEF colons, first
      <3> QED
        BY <1>1, <2>4
    <2> HIDE DEF name, resolved, colons
    <2>6. read.adr = a
      BY <2>2, <2>3
    <2> QED
      BY <1>2, <1>6, <2>2, <2>3, <2>5, <2>6 DEF NameOf
  <1>7. CASE s # <<Token("local")>> /\ NET_StringToIPv4(s) # 7 /\ resolved = << >>
    <2>1. NET_StringToIPv4(s) = 0
      BY <1>7, QuadIs
    <2> QED
      BY <1>3, <1>7, <2>1 DEF NET_StringToNetAddrNoPort
  <1> QED
    BY <1>4, <1>5, <1>6, <1>7

\* An address that is read has the port behind the last colon, or the usual one, and
\* the four numbers of the string if there are any.
AddressOf(a, s) ==
  /\ a \in Addresses
  /\ \/ a.type = "NA_LOOPBACK"
     \/ /\ a.type \in {"NA_IPV4", "NA_IPV6"}
        /\ a.port = IF Colon \in ToSet(s) THEN Last(s).value ELSE 27500
        /\ a.port <= 65535
        /\ NET_StringToIPv4(s) = 7 => a.address = Quadruple(s)

\* The rest of the string behind the name.
Behind(s, len) == SubSeq(s, len + 1, Len(s))

LEMMA BehindIs ==
  ASSUME NEW s \in Seq(Tokens), NEW len \in 1 .. Len(s)
  PROVE  /\ Behind(s, len) \in Seq(Tokens)
         /\ Len(Behind(s, len)) = Len(s) - len
         /\ \A i \in 1 .. Len(s) - len : Behind(s, len)[i] = s[len + i]
  <1>1. /\ Len(s) \in Nat
        /\ \A i \in 1 .. Len(s) : s[i] \in Tokens
    BY LenProperties, ElementOfSeq
  <1>2. \A i \in len + 1 .. Len(s) : s[i] \in Tokens
    BY <1>1
  <1>3. len \in Nat /\ len + 1 \in Int /\ Len(s) \in Int
    BY <1>1
  <1>4. /\ Behind(s, len) \in Seq(Tokens)
        /\ Len(Behind(s, len)) = IF len + 1 <= Len(s) THEN Len(s) - (len + 1) + 1 ELSE 0
        /\ \A i \in 1 .. Len(s) - (len + 1) + 1 : Behind(s, len)[i] = s[(len + 1) + i - 1]
    BY <1>2, <1>3, SubSeqProperties DEF Behind
  <1>5. /\ Len(s) - (len + 1) + 1 = Len(s) - len
        /\ \A i \in 1 .. Len(s) - len : (len + 1) + i - 1 = len + i
    BY <1>1, <1>3
  <1>6. len + 1 <= Len(s) \/ Len(s) - len = 0
    BY <1>1, <1>3
  <1> QED
    BY <1>4, <1>5, <1>6

LEMMA PairIs ==
  ASSUME NEW rest \in Seq(Tokens), PortGiven(rest)
  PROVE  /\ Len(rest) = 2 /\ rest[1] = Colon /\ PortOf(rest) = rest[2].value
         /\ rest[2].value \in Nat /\ rest[2].value <= 65535
  <1>1. Len(rest) = 2 /\ IsKind(rest, 1, ":")
    BY DEF PortGiven
  <1>2. rest[1] \in Tokens /\ rest[2] \in Tokens
    BY <1>1, ElementOfSeq
  <1>3. PICK tail : tail = Tail(rest) /\ 1 \in DOMAIN tail /\ tail[1] = rest[2]
    <2>1. rest # << >>
      BY <1>1
    <2>2. /\ Tail(rest) \in Seq(Tokens) /\ Len(Tail(rest)) = Len(rest) - 1
          /\ \A i \in 1 .. Len(Tail(rest)) : Tail(rest)[i] = rest[i + 1]
      BY <2>1, HeadTailProperties
    <2>3. Len(Tail(rest)) = 1
      BY <1>1, <2>2
    <2>4. PICK tail \in Seq(Tokens) : tail = Tail(rest)
      BY <2>2
    <2>5. Len(tail) = 1 /\ \A i \in 1 .. Len(tail) : tail[i] = rest[i + 1]
      BY <2>2, <2>3, <2>4
    <2>6. 1 \in DOMAIN tail
      BY <2>5, LenProperties
    <2>7. tail[1] = rest[2]
      BY <2>5
    <2> QED
      BY <2>4, <2>6, <2>7
  <1>4. NET_StringDecToUInt(tail, 65535) = 1
    BY <1>3 DEF PortGiven
  <1>5. PICK max \in Nat : max = 65535
    OBVIOUS
  <1>6. rest[2].kind = "number" /\ rest[2].value <= max
    <2>1. NET_StringDecToUInt(tail, max) = 1
      BY <1>4, <1>5
    <2> QED
      BY <1>3, <2>1 DEF NET_StringDecToUInt, IsKind
  <1>7. rest[2].value \in Nat
    BY <1>2, <1>6 DEF Tokens
  <1>8. rest[1].kind = ":"
    BY <1>1 DEF IsKind
  <1>9. rest[1] = Colon
    BY <1>2, <1>8 DEF Tokens, Colon, Token
  <1>10. PortOf(rest) = rest[2].value
    BY DEF PortOf
  <1> QED
    BY <1>1, <1>5, <1>6, <1>7, <1>9, <1>10

LEMMA PortIs ==
  ASSUME NEW s \in Seq(Tokens), NEW len \in 1 .. Len(s),
         NEW rest, rest = Behind(s, len)
  PROVE  /\ PortGiven(rest) =>
              /\ Colon \in ToSet(s) /\ PortOf(rest) = Last(s).value
              /\ PortOf(rest) \in Nat /\ PortOf(rest) <= 65535
         /\ ~PortGiven(rest) => PortOf(rest) = 27500
         /\ rest = << >> => len = Len(s)
  <1>1. PICK n \in Nat : n = Len(s) /\ DOMAIN s = 1 .. n /\ len \in 1 .. n
    BY LenProperties
  <1>2. PICK m : m = Len(rest)
    OBVIOUS
  <1>3. m = n - len
    BY <1>1, <1>2, BehindIs
  <1>4. rest \in Seq(Tokens) /\ \A i \in 1 .. n - len : rest[i] = s[len + i]
    BY <1>1, BehindIs
  <1>5. ASSUME PortGiven(rest)
        PROVE  /\ Colon \in ToSet(s) /\ PortOf(rest) = Last(s).value
               /\ PortOf(rest) \in Nat /\ PortOf(rest) <= 65535
    <2>1. /\ m = 2 /\ rest[1] = Colon /\ PortOf(rest) = rest[2].value
          /\ rest[2].value \in Nat /\ rest[2].value <= 65535
      <3>1. /\ Len(rest) = 2 /\ rest[1] = Colon /\ PortOf(rest) = rest[2].value
            /\ rest[2].value \in Nat /\ rest[2].value <= 65535
        BY <1>4, <1>5, PairIs
      <3>2. m = 2
        BY <1>2, <3>1
      <3> QED
        BY <3>1, <3>2
    <2>2. len + 1 \in 1 .. n /\ len + 2 = n
      BY <1>1, <1>3, <2>1
    <2>3. rest[1] = s[len + 1] /\ rest[2] = s[n]
      BY <1>1, <1>4, <2>2
    <2>4. Colon \in ToSet(s)
      BY <1>1, <2>1, <2>2, <2>3 DEF ToSet
    <2>5. Last(s) = rest[2]
      BY <1>1, <2>3 DEF Last
    <2> QED
      BY <2>1, <2>4, <2>5
  <1>6. rest = << >> => len = Len(s)
    <2>1. rest = << >> => m = 0
      BY <1>2
    <2> QED
      BY <1>1, <1>3, <2>1
  <1>7. ~PortGiven(rest) => PortOf(rest) = 27500
    BY DEF PortOf
  <1> QED
    BY <1>5, <1>6, <1>7

LEMMA AddressIs ==
  ASSUME NEW p \in Systems, NEW s \in Seq(Tokens), NEW answers \in Seq(Addresses)
  PROVE  \/ NET_StringToAdr(p, s, answers) = << >>
         \/ \E a : NET_StringToAdr(p, s, answers) = <<a>> /\ AddressOf(a, s)
  <1> DEFINE name == NET_StringToNetAddrNoPort(p, s, answers)
  <1> SUFFICES ASSUME NET_StringToAdr(p, s, answers) # << >>
               PROVE  \E a : NET_StringToAdr(p, s, answers) = <<a>> /\ AddressOf(a, s)
    OBVIOUS
  <1>1. PICK read : read = name
    OBVIOUS
  <1>2. /\ read.len # 0
        /\ Behind(s, read.len) = << >> \/ PortGiven(Behind(s, read.len))
        /\ \/ /\ read.adr.type = "NA_LOOPBACK"
              /\ NET_StringToAdr(p, s, answers) = <<read.adr>>
           \/ /\ read.adr.type # "NA_LOOPBACK"
              /\ NET_StringToAdr(p, s, answers) =
                   <<[read.adr EXCEPT !.port = PortOf(Behind(s, read.len))]>>
    <2>1. PICK rest : rest = SubSeq(s, read.len + 1, Len(s))
      OBVIOUS
    <2>2. NET_StringToAdr(p, s, answers) =
            IF read.len = 0 \/ ~(rest = << >> \/ PortGiven(rest)) THEN << >>
            ELSE IF read.adr.type = "NA_LOOPBACK"
            THEN (IF PortOf(rest) # 27500 THEN << >> ELSE <<read.adr>>)
            ELSE <<[read.adr EXCEPT !.port = PortOf(rest)]>>
      BY <1>1, <2>1 DEF NET_StringToAdr
    <2>3. rest = Behind(s, read.len)
      BY <2>1 DEF Behind
    <2> QED
      BY <2>2, <2>3
  <1>3. NameOf(read, s)
    BY <1>1, <1>2, NameIs
  <1> HIDE DEF name
  <1>4. CASE read.adr.type = "NA_LOOPBACK"
    BY <1>2, <1>3, <1>4 DEF NameOf, AddressOf
  <1>5. CASE read.adr.type # "NA_LOOPBACK"
    <2>1. /\ read.adr \in Addresses /\ read.adr.type \in {"NA_IPV4", "NA_IPV6"}
          /\ NET_StringToIPv4(s) = 7 => read.adr.address = Quadruple(s)
          /\ read.len \in 1 .. Len(s)
          /\ read.len = Len(s) => Colon \notin ToSet(s)
      BY <1>3, <1>5 DEF NameOf
    <2>2. PICK port \in Nat :
            /\ port <= 65535 /\ port = PortOf(Behind(s, read.len))
            /\ port = IF Colon \in ToSet(s) THEN Last(s).value ELSE 27500
      <3>1. CASE PortGiven(Behind(s, read.len))
        BY <2>1, <3>1, PortIs
      <3>2. CASE ~PortGiven(Behind(s, read.len)) /\ read.len = Len(s)
        BY <2>1, <3>2, PortIs
      <3> QED
        BY <1>2, <2>1, <3>1, <3>2, PortIs
    <2>3. PICK a : a = [read.adr EXCEPT !.port = PortOf(Behind(s, read.len))]
      OBVIOUS
    <2>4. /\ a \in Addresses /\ a.port = port /\ a.type = read.adr.type
          /\ a.address = read.adr.address
      <3>1. port = PortOf(Behind(s, read.len))
        BY <2>2
      <3>2. a = [read.adr EXCEPT !.port = port]
        BY <2>3, <3>1
      <3> QED
        BY <2>1, <3>2 DEF Addresses
    <2>5. AddressOf(a, s)
      BY <2>1, <2>2, <2>4 DEF AddressOf
    <2>6. NET_StringToAdr(p, s, answers) =
            <<[read.adr EXCEPT !.port = PortOf(Behind(s, read.len))]>>
      BY <1>2, <1>5
    <2>7. NET_StringToAdr(p, s, answers) = <<a>>
      BY <2>3, <2>6
    <2> QED
      BY <2>5, <2>7
  <1> QED
    BY <1>4, <1>5

-----------------------------------------------------------------------------
(* The invariant.  Where a thread is, and what it returns to. *)

Deleting == {"delete", "join_net", "delete_mutex", "free"}
Clearing == {"clear_netqw", "set_idle", "stop", "join_client"}
Disconnecting == {"disconnect"} \cup Clearing
Quitting == {"quit", "set_quit", "destroy"}
Loop ==
  {"top", "sleep", "test", "state", "state_again", "read", "use", "flush", "mark", "leave"}
Over == {"none", "ended"}
Gone == {"none", "joined"}

AppPlace(belief, label, s) ==
  \/ /\ belief = "none"
     /\ \/ label = "idle" /\ s = << >>
        \/ label \in Disconnecting /\ s = <<"idle">>
        \/ label \in Deleting /\ s = <<"clear_netqw", "idle">>
  \/ /\ belief = "connected"
     /\ \/ label \in {"idle", "gone"} /\ s = << >>
        \/ label \in {"connect", "start", "not_started"} /\ s = <<"idle">>
        \/ label \in Deleting /\ s = <<"not_started", "idle">>
  \/ /\ belief = "quit"
     /\ \/ label \in {"idle", "gone"} /\ s = << >>
        \/ label \in Quitting /\ s = <<"idle">>
        \/ label \in Disconnecting /\ s = <<"set_quit", "idle">>
        \/ label \in Deleting /\ s = <<"clear_netqw", "set_quit", "idle">>
ClientPlace(label, s) ==
  \/ label \in Over \cup Loop /\ s = << >>
  \/ label \in Quitting /\ s = <<"ended">>
  \/ label \in Disconnecting /\ s = <<"set_quit", "ended">>
  \/ label \in Deleting /\ s = <<"clear_netqw", "set_quit", "ended">>

PlaceInv ==
  /\ DOMAIN pc = Callers /\ DOMAIN stack = Callers
  /\ AppPlace(app, pc["app"], stack["app"])
  /\ ClientPlace(pc["client"], stack["client"])

\* What there is in one NetQW: it is freed only without a thread, its address is that of
\* its host, it is connected to that, and it holds nothing that it has no use for.
Things ==
  {"systhread", "pthread", "handle", "msgport", "process", "sysmutex", "pthread_mutex",
   "critical_section", "netdata", "winsock", "library", "syssocket", "descriptor",
   "nonblocking"}
NetQW ==
  [live : BOOLEAN, thread : {"none", "running", "ended", "joined"}, quit : BOOLEAN,
   error : BOOLEAN, state : {"uninitialised", "sendchallenge", "connected"},
   host : Seq(Tokens), addr : Addresses, peer : Addresses, drops : Nat,
   held : SUBSET Things]

Reached(n) ==
  /\ platform # "null" /\ n.addr.type \in {"NA_IPV4", "NA_IPV6"}
  /\ platform = "morphos" => n.addr.type = "NA_IPV4"
  /\ \E answers \in Answers : NET_StringToAdr(platform, n.host, answers) = <<n.addr>>
Named(n) ==
  /\ n.live => n.host \in Hosts \cup {Server}
  /\ n.live /\ n.state # "uninitialised" => Reached(n)
  /\ n.live /\ n.state = "connected" => n.peer = n.addr

MayHold(n) ==
  Forgotten(n)
    \cup (IF n.thread = "none" THEN Socket(platform) \cup NetThings(platform) ELSE {})
    \cup (IF n.thread = "joined" THEN MutexThings(platform) ELSE {})
    \cup (IF n.thread \in {"running", "ended"}
          THEN MutexThings(platform) \cup ThreadThings(platform) ELSE {})
    \cup (IF n.thread = "running" /\ n.state # "uninitialised"
          THEN Socket(platform) \cup NetThings(platform) ELSE {})
Held(n) ==
  /\ n.held \subseteq MayHold(n)
  /\ n.drops = IF n.state = "connected" /\ n.thread \in {"ended", "joined"} THEN 3 ELSE 0
  /\ n.thread = "none" => n.state # "connected"
  /\ n.thread # "none" => platform # "null"

Sound(n) ==
  /\ n \in NetQW /\ Named(n) /\ Held(n)
  /\ ~n.live => n.thread \in Gone /\ n.held \subseteq Forgotten(n)

NetInv ==
  /\ platform \in Systems
  /\ net \in Seq(NetQW)
  /\ \A p \in DOMAIN net : Sound(net[p])

\* A caller in NetQW_Delete that has joined the thread, or deleted the mutex.
Hand(t) ==
  /\ ptr[t] \in 0 .. Len(net)
  /\ pc[t] \in {"delete_mutex", "free"} =>
       /\ ptr[t] # Null /\ net[ptr[t]].thread \in Gone
       /\ net[ptr[t]].held \subseteq MutexThings(platform) \cup Forgotten(net[ptr[t]])
  /\ pc[t] = "free" => net[ptr[t]].held \subseteq Forgotten(net[ptr[t]])
HandInv == DOMAIN ptr = Callers /\ \A t \in Callers : Hand(t)

\* What qwc holds.
QWC ==
  [live : BOOLEAN, netqw : Nat, thread : BOOLEAN, netdata : BOOLEAN, state : Nat,
   run_thread : BOOLEAN, quit : BOOLEAN, abort : BOOLEAN, held : SUBSET Things]
QwcInv ==
  /\ qwc \in QWC /\ qwc.netqw \in 0 .. Len(net)
  /\ qwc.held \subseteq NetThings(platform) \cup ThreadThings(platform)
  /\ ~qwc.thread => qwc.held \subseteq NetThings(platform)
  /\ ~qwc.netdata => qwc.held \subseteq ThreadThings(platform)

\* When there is no client's thread, and when all of every connection has been freed.
NoClient == ~qwc.thread /\ pc["client"] \in Over
AllFreed == \A p \in DOMAIN net : ~net[p].live
Fresh ==
  \/ pc["app"] \in {"connect", "start", "not_started"}
  \/ pc["app"] \in Deleting /\ app = "connected"
  \/ pc["app"] = "idle" /\ app = "none"
ClientInv ==
  /\ platform = "null" => pc["client"] = "none"
  /\ pc["client"] = "none" => ~qwc.thread
  /\ pc["client"] \notin Over \cup Loop => qwc.abort
  /\ Fresh => NoClient
  /\ pc["app"] = "start" => qwc.netqw # Null
  /\ ~qwc.abort /\ pc["app"] \in {"set_quit", "destroy"} => NoClient
  /\ ~qwc.abort /\ pc["app"] = "idle" /\ app = "quit" => NoClient /\ ~qwc.netdata
  /\ ~qwc.abort /\ qwc.netqw = Null /\ pc["app"] \in {"idle", "quit"} => NoClient
FreedInv ==
  /\ \A p \in DOMAIN net : net[p].live => p = Len(net) /\ qwc.netqw = p
  /\ \A t \in Callers : pc[t] \in Clearing \cup {"set_quit", "destroy"} => AllFreed
  /\ pc["app"] \in {"connect", "not_started"} => AllFreed
  /\ pc["app"] = "idle" /\ app # "connected" => AllFreed

IInv == PlaceInv /\ NetInv /\ HandInv /\ QwcInv /\ ClientInv /\ FreedInv

-----------------------------------------------------------------------------
(* Calls and returns, and what becomes of the NetQWs. *)

LEMMA Pushed ==
  ASSUME NEW S, NEW a \in S, NEW s \in Seq(S), NEW r \in Seq(S),
         Len(r) = Len(s) + 1, r[1] = a, \A i \in 1 .. Len(s) : r[i + 1] = s[i]
  PROVE  <<a>> \o s = r
  <1>1. PICK x : x = <<a>>
    OBVIOUS
  <1>2. x \in Seq(S) /\ Len(x) = 1 /\ x[1] = a
    <2>1. <<a>> \in Seq(S) /\ Len(<<a>>) = 1 /\ <<a>>[1] = a
      OBVIOUS
    <2> QED
      BY <1>1, <2>1
  <1>3. PICK n \in Nat : n = Len(s)
    BY LenProperties
  <1>4. PICK z : z = x \o s
    OBVIOUS
  <1>5. /\ z \in Seq(S) /\ Len(z) = 1 + n
        /\ \A i \in 1 .. 1 + n : z[i] = IF i <= 1 THEN x[i] ELSE s[i - 1]
    <2>1. /\ x \o s \in Seq(S) /\ Len(x \o s) = Len(x) + Len(s)
          /\ \A i \in 1 .. Len(x) + Len(s) :
               (x \o s)[i] = IF i <= Len(x) THEN x[i] ELSE s[i - Len(x)]
      BY <1>2, ConcatProperties
    <2> QED
      BY <1>2, <1>4, <1>3, <2>1
  <1>6. Len(r) = 1 + n /\ \A i \in 1 .. n : r[i + 1] = s[i]
    BY <1>3
  <1>7. ASSUME NEW i \in 1 .. 1 + n PROVE z[i] = r[i]
    <2>1. CASE i = 1
      BY <1>2, <1>5, <2>1
    <2>2. CASE i # 1
      <3>1. PICK j \in 1 .. n : i = j + 1 /\ j = i - 1
        BY <1>3, <2>2
      <3>2. ~(i <= 1)
        BY <1>3, <2>2
      <3>3. z[i] = s[j] /\ r[j + 1] = s[j]
        BY <1>5, <1>6, <3>1, <3>2
      <3> QED
        BY <3>1, <3>3
    <2> QED
      BY <2>1, <2>2
  <1> QED
    <2>1. z = r
      BY <1>5, <1>6, <1>7, SeqEqual
    <2> QED
      BY <1>1, <1>4, <2>1

LEMMA Stacks ==
  /\ \A a : Head(<<a>>) = a /\ Tail(<<a>>) = << >> /\ <<a>> \o << >> = <<a>>
  /\ \A a, b : /\ Head(<<a, b>>) = a /\ Tail(<<a, b>>) = <<b>>
               /\ <<a>> \o <<b>> = <<a, b>>
  /\ \A a, b, c : /\ Head(<<a, b, c>>) = a /\ Tail(<<a, b, c>>) = <<b, c>>
                  /\ <<a>> \o <<b, c>> = <<a, b, c>>
  <1>1. /\ \A a : Head(<<a>>) = a /\ Tail(<<a>>) = << >>
        /\ \A a, b : Head(<<a, b>>) = a /\ Tail(<<a, b>>) = <<b>>
        /\ \A a, b, c : Head(<<a, b, c>>) = a /\ Tail(<<a, b, c>>) = <<b, c>>
    OBVIOUS
  <1>2. ASSUME NEW a PROVE <<a>> \o << >> = <<a>>
    OBVIOUS
  <1>3. ASSUME NEW a, NEW b PROVE <<a>> \o <<b>> = <<a, b>>
    <2>1. /\ <<b>> \in Seq({a, b}) /\ <<a, b>> \in Seq({a, b})
          /\ Len(<<a, b>>) = Len(<<b>>) + 1 /\ <<a, b>>[1] = a
          /\ \A i \in 1 .. Len(<<b>>) : <<a, b>>[i + 1] = <<b>>[i]
      OBVIOUS
    <2> QED
      BY <2>1, Pushed
  <1>4. ASSUME NEW a, NEW b, NEW c PROVE <<a>> \o <<b, c>> = <<a, b, c>>
    <2>1. /\ <<b, c>> \in Seq({a, b, c}) /\ <<a, b, c>> \in Seq({a, b, c})
          /\ Len(<<a, b, c>>) = Len(<<b, c>>) + 1 /\ <<a, b, c>>[1] = a
          /\ \A i \in 1 .. Len(<<b, c>>) : <<a, b, c>>[i + 1] = <<b, c>>[i]
      OBVIOUS
    <2> QED
      BY <2>1, Pushed
  <1> QED
    BY <1>1, <1>2, <1>3, <1>4

LEMMA GotoIs ==
  ASSUME DOMAIN pc = Callers, DOMAIN stack = Callers,
         NEW t \in Callers, NEW label, Goto(t, label)
  PROVE  /\ DOMAIN pc' = Callers /\ pc'[t] = label /\ stack' = stack
         /\ \A u \in Callers \ {t} : pc'[u] = pc[u]
  BY DEF Goto

LEMMA CallIs ==
  ASSUME DOMAIN pc = Callers, DOMAIN stack = Callers,
         NEW t \in Callers, NEW label, NEW return, Call(t, label, return)
  PROVE  /\ DOMAIN pc' = Callers /\ pc'[t] = label
         /\ DOMAIN stack' = Callers /\ stack'[t] = <<return>> \o stack[t]
         /\ \A u \in Callers \ {t} : pc'[u] = pc[u] /\ stack'[u] = stack[u]
  BY DEF Call

LEMMA ReturnIs ==
  ASSUME DOMAIN pc = Callers, DOMAIN stack = Callers,
         NEW t \in Callers, Return(t)
  PROVE  /\ DOMAIN pc' = Callers /\ pc'[t] = Head(stack[t])
         /\ DOMAIN stack' = Callers /\ stack'[t] = Tail(stack[t])
         /\ \A u \in Callers \ {t} : pc'[u] = pc[u] /\ stack'[u] = stack[u]
  BY DEF Return

LEMMA TouchIs ==
  ASSUME net \in Seq(NetQW), NEW p \in DOMAIN net, NEW n \in NetQW,
         net' = [net EXCEPT ![p] = n]
  PROVE  /\ net' \in Seq(NetQW) /\ Len(net') = Len(net) /\ DOMAIN net' = DOMAIN net
         /\ net'[p] = n /\ \A q \in DOMAIN net : q # p => net'[q] = net[q]
  BY ExceptSeq, LenProperties

LEMMA AppendIs ==
  ASSUME net \in Seq(NetQW), NEW n \in NetQW, net' = Append(net, n)
  PROVE  /\ net' \in Seq(NetQW) /\ Len(net') = Len(net) + 1 /\ Len(net) \in Nat
         /\ DOMAIN net' = DOMAIN net \cup {Len(net) + 1} /\ net'[Len(net) + 1] = n
         /\ DOMAIN net = 1 .. Len(net) /\ \A q \in DOMAIN net : net'[q] = net[q]
  <1>1. Len(net) \in Nat /\ DOMAIN net = 1 .. Len(net)
    BY LenProperties
  <1>2. /\ net' \in Seq(NetQW) /\ Len(net') = Len(net) + 1
        /\ \A i \in 1 .. Len(net) : net'[i] = net[i]
        /\ net'[Len(net) + 1] = n
    BY AppendProperties
  <1>3. DOMAIN net' = 1 .. Len(net')
    BY <1>2, LenProperties
  <1>4. PICK k \in Nat : k = Len(net)
    BY <1>1
  <1>5. 1 .. k + 1 = (1 .. k) \cup {k + 1}
    OBVIOUS
  <1> QED
    BY <1>1, <1>2, <1>3, <1>4, <1>5

LEMMA HostsAre ==
  /\ \A host \in Hosts \cup {Server} : host \in Seq(Tokens)
  /\ \A answers \in Answers : answers \in Seq(Addresses)
  <1>1. /\ \A n \in Nat : Number(n) \in Tokens
        /\ Token("local") \in Tokens /\ Token("server") \in Tokens
        /\ Dot \in Tokens /\ Colon \in Tokens
    BY DEF Number, Token, Dot, Colon, Tokens
  <1>2. \A d \in Nat : Quad(d) \in Seq(Tokens)
    BY <1>1 DEF Quad
  <1>3. \A n \in Nat : Port(n) \in Seq(Tokens)
    <2>1. ASSUME NEW n \in Nat, NEW token \in Tokens, token = Number(n)
          PROVE  <<Colon, token>> \in Seq(Tokens)
      BY <1>1
    <2> QED
      BY <1>1, <2>1 DEF Port
  <1>4. Server \in Seq(Tokens) /\ <<Token("local")>> \in Seq(Tokens)
    BY <1>1 DEF Server
  <1>5. ASSUME NEW host \in Hosts PROVE host \in Seq(Tokens)
    <2>1. /\ Quad(1) \in Seq(Tokens) /\ Quad(256) \in Seq(Tokens)
          /\ Port(SomePort) \in Seq(Tokens) /\ Port(TooLargePort) \in Seq(Tokens)
      <3>1. SomePort \in Nat /\ TooLargePort \in Nat
        BY DEF SomePort, TooLargePort
      <3>2. Port(SomePort) \in Seq(Tokens) /\ Port(TooLargePort) \in Seq(Tokens)
        BY <1>3, <3>1
      <3>3. Quad(1) \in Seq(Tokens)
        BY <1>2
      <3>4. Quad(256) \in Seq(Tokens)
        BY <1>2
      <3> QED
        BY <3>2, <3>3, <3>4
    <2>2. /\ Quad(1) \o Port(SomePort) \in Seq(Tokens)
          /\ Quad(1) \o Port(TooLargePort) \in Seq(Tokens)
          /\ Server \o Port(SomePort) \in Seq(Tokens)
      BY <1>4, <2>1, ConcatProperties
    <2> QED
      BY <1>4, <2>1, <2>2, Zenon DEF Hosts
  <1>6. ASSUME NEW answers \in Answers PROVE answers \in Seq(Addresses)
    <2>1. <<10, 0, 0, 2>> \in Seq(Nat) /\ <<1>> \in Seq(Nat)
      OBVIOUS
    <2>2. /\ Address("NA_IPV4", <<10, 0, 0, 2>>) \in Addresses
          /\ Address("NA_IPV6", <<1>>) \in Addresses
      BY <2>1 DEF Address, Addresses
    <2>3. /\ << >> \in Seq(Addresses)
          /\ <<Address("NA_IPV4", <<10, 0, 0, 2>>)>> \in Seq(Addresses)
          /\ <<Address("NA_IPV6", <<1>>), Address("NA_IPV4", <<10, 0, 0, 2>>)>>
               \in Seq(Addresses)
      <3> HIDE DEF Address
      <3> QED
        BY <2>2
    <2> QED
      BY <2>3, Zenon DEF Answers
  <1> QED
    BY <1>4, <1>5, <1>6

\* What NetQW_Thread_Init leaves alone.
Kept(m, n) ==
  /\ n \in NetQW /\ n.live = m.live /\ n.thread = m.thread /\ n.quit = m.quit
  /\ n.error = m.error /\ n.host = m.host /\ n.peer = m.peer /\ n.drops = m.drops

LEMMA HeldIs ==
  ASSUME NEW n \in NetQW, NEW held \in SUBSET Things,
         NEW m, m = [n EXCEPT !.held = held]
  PROVE  Kept(n, m) /\ m.held = held /\ m.state = n.state /\ m.addr = n.addr
  BY DEF NetQW, Kept

LEMMA StateIs ==
  ASSUME NEW n \in NetQW, NEW state \in {"uninitialised", "sendchallenge", "connected"},
         NEW m, m = [n EXCEPT !.state = state]
  PROVE  Kept(n, m) /\ m.held = n.held /\ m.state = state /\ m.addr = n.addr
  BY DEF NetQW, Kept

LEMMA ThingsAre ==
  ASSUME platform \in Systems
  PROVE  /\ NetThings(platform) \subseteq Things /\ Socket(platform) \subseteq Things
         /\ ThreadThings(platform) \subseteq Things /\ MutexThings(platform) \subseteq Things
         /\ ThreadThings(platform) \cap NetThings(platform) = {}
         /\ (ThreadThings(platform) \cup MutexThings(platform))
              \cap (NetThings(platform) \cup Socket(platform)) = {}
         /\ "syssocket" \notin NetThings(platform) \cup {"critical_section", "descriptor"}
         /\ "syssocket" \notin ThreadThings(platform) \cup MutexThings(platform)
         /\ "systhread" \notin NetThings(platform)
         /\ platform # "null" => "syssocket" \in Socket(platform)
         /\ platform = "null" => ThreadThings(platform) = {}
  BY DEF NetThings, Socket, ThreadThings, MutexThings, Linked, Things, Systems

LEMMA ShutDownIs ==
  ASSUME platform \in Systems, NEW n \in NetQW, NEW m, m = ShutDown(n)
  PROVE  Kept(n, m) /\ m.held = n.held \ NetThings(platform)
         /\ m.state = n.state /\ m.addr = n.addr
  <1>1. m = [n EXCEPT !.held = n.held \ NetThings(platform)]
    BY GivenBack DEF ShutDown
  <1>2. n.held \ NetThings(platform) \in SUBSET Things
    BY DEF NetQW
  <1> QED
    BY <1>1, <1>2, HeldIs

LEMMA NetInitIs ==
  ASSUME platform \in Systems, NEW m \in NetQW, m.host \in Hosts \cup {Server},
         "syssocket" \notin m.held, NEW n \in NetQW_Thread_Init(m)
  PROVE  /\ Kept(m, n)
         /\ \/ /\ ~IsOpen(n) /\ n.state = m.state
               /\ n.held \subseteq
                    m.held \cup (IF platform \in {"posix", "win32"} THEN {"descriptor"} ELSE {})
            \/ /\ IsOpen(n) /\ n.state = "sendchallenge" /\ Reached(n)
               /\ n.held \subseteq m.held \cup NetThings(platform) \cup Socket(platform)
  <1>1. PICK sys \in Sys_Net_Init(platform), answers \in Answers :
          n \in Started(m, sys, NET_StringToAdr(platform, m.host, answers))
    BY DEF NetQW_Thread_Init
  <1>2. PICK adr : adr = NET_StringToAdr(platform, m.host, answers)
    OBVIOUS
  <1>3. /\ m.held \in SUBSET Things /\ m.addr \in Addresses
        /\ sys = NetThings(platform) \/ sys = {}
        /\ "netdata" \in sys => platform # "null"
    BY <1>1, NetInitOf DEF NetQW
  <1>5. CASE n = m
    BY <1>5, <1>3 DEF Kept, IsOpen
  <1>6. CASE n = ShutDown([m EXCEPT !.held = @ \cup sys])
    <2>1. PICK k : k = [m EXCEPT !.held = m.held \cup sys]
      OBVIOUS
    <2>2. m.held \cup sys \in SUBSET Things
      BY <1>3, ThingsAre
    <2>3. /\ Kept(m, k) /\ k.held = m.held \cup sys /\ k.state = m.state
          /\ k \in NetQW /\ n = ShutDown(k)
      BY <1>6, <2>1, <2>2, HeldIs DEF Kept
    <2>4. Kept(k, n) /\ n.held = k.held \ NetThings(platform) /\ n.state = k.state
      BY <2>3, ShutDownIs
    <2>5. n.held \subseteq m.held
      BY <1>3, <2>3, <2>4
    <2> QED
      BY <2>3, <2>4, <2>5 DEF Kept, IsOpen
  <1>7. ASSUME adr # << >>, "netdata" \in sys,
               NEW s \in Sys_Net_CreateSocket(platform, adr[1].type),
               n = Opened([m EXCEPT !.held = @ \cup sys \cup s, !.addr = adr[1]])
        PROVE  /\ Kept(m, n)
               /\ \/ /\ ~IsOpen(n) /\ n.state = m.state
                     /\ n.held \subseteq
                          m.held \cup (IF platform \in {"posix", "win32"}
                                       THEN {"descriptor"} ELSE {})
                  \/ /\ IsOpen(n) /\ n.state = "sendchallenge" /\ Reached(n)
                     /\ n.held \subseteq m.held \cup NetThings(platform) \cup Socket(platform)
    <2>1. PICK a : adr = <<a>> /\ a \in Addresses
      <3>1. m.host \in Seq(Tokens) /\ answers \in Seq(Addresses)
        BY HostsAre
      <3>2. PICK b : NET_StringToAdr(platform, m.host, answers) = <<b>> /\ AddressOf(b, m.host)
        BY <1>2, <1>7, <3>1, AddressIs
      <3> QED
        BY <1>2, <3>2 DEF AddressOf
    <2>2. PICK k : k = [m EXCEPT !.held = m.held \cup sys \cup s, !.addr = a]
      OBVIOUS
    <2>3. n = Opened(k) /\ s \in Sys_Net_CreateSocket(platform, a.type)
      BY <1>7, <2>1, <2>2
    <2>4. \/ /\ s = Socket(platform) /\ platform # "null" /\ a.type \in {"NA_IPV4", "NA_IPV6"}
             /\ platform = "morphos" => a.type = "NA_IPV4"
          \/ s \subseteq (IF platform \in {"posix", "win32"} THEN {"descriptor"} ELSE {})
      BY <2>3, SocketsOf
    <2>5. m.held \cup sys \cup s \in SUBSET Things
      <3>1. s \in SUBSET Things
        BY <2>4, ThingsAre DEF Things
      <3>2. sys \in SUBSET Things
        BY <1>3, ThingsAre
      <3> QED
        BY <1>3, <3>1, <3>2
    <2>6. /\ Kept(m, k) /\ k.held = m.held \cup sys \cup s /\ k.state = m.state
          /\ k.addr = a /\ k \in NetQW
      <3>1. PICK h \in SUBSET Things : h = m.held \cup sys \cup s
        BY <2>5
      <3>2. k = [m EXCEPT !.held = h, !.addr = a]
        BY <2>2, <3>1
      <3>3. Kept(m, k) /\ k.held = h /\ k.state = m.state /\ k.addr = a
        BY <2>1, <3>2 DEF NetQW, Kept
      <3> QED
        BY <3>1, <3>3 DEF Kept
    <2>7. CASE IsOpen(k)
      <3>1. s = Socket(platform) /\ platform # "null" /\ a.type \in {"NA_IPV4", "NA_IPV6"}
            /\ (platform = "morphos" => a.type = "NA_IPV4")
        BY <1>3, <2>4, <2>6, <2>7, ThingsAre DEF IsOpen
      <3>2. n = [k EXCEPT !.state = "sendchallenge"]
        BY <2>3, <2>7 DEF Opened
      <3>3. Kept(k, n) /\ n.held = k.held /\ n.state = "sendchallenge" /\ n.addr = a
        BY <2>6, <3>2, StateIs
      <3>4. n.host = m.host /\ Kept(m, n)
        BY <2>6, <3>3 DEF Kept
      <3>5. Reached(n)
        BY <1>2, <2>1, <3>1, <3>3, <3>4 DEF Reached
      <3>6. IsOpen(n)
        BY <2>7, <3>3 DEF IsOpen
      <3> QED
        BY <1>3, <2>6, <3>1, <3>3, <3>4, <3>5, <3>6
    <2>8. CASE ~IsOpen(k)
      <3>1. n = ShutDown(k)
        BY <2>3, <2>8 DEF Opened
      <3>2. Kept(k, n) /\ n.held = k.held \ NetThings(platform) /\ n.state = k.state
        BY <2>6, <3>1, ShutDownIs
      <3>3. s \subseteq (IF platform \in {"posix", "win32"} THEN {"descriptor"} ELSE {})
        BY <2>4, <2>6, <2>8, ThingsAre DEF IsOpen
      <3>4. n.held \subseteq
              m.held \cup (IF platform \in {"posix", "win32"} THEN {"descriptor"} ELSE {})
        BY <1>3, <2>6, <3>2, <3>3
      <3>5. Kept(m, n) /\ n.state = m.state
        BY <2>6, <3>2 DEF Kept
      <3>6. ~IsOpen(n)
        BY <2>8, <3>2 DEF IsOpen
      <3> QED
        BY <3>4, <3>5, <3>6
    <2> QED
      BY <2>7, <2>8
  <1>8. CASE "netdata" \in sys /\ adr # << >>
    <2>1. PICK s \in Sys_Net_CreateSocket(platform, adr[1].type) :
            n = Opened([m EXCEPT !.held = @ \cup sys \cup s, !.addr = adr[1]])
      BY <1>1, <1>2, <1>8 DEF Started
    <2> QED
      BY <1>7, <1>8, <2>1
  <1> QED
    BY <1>1, <1>2, <1>5, <1>6, <1>8 DEF Started

LEMMA DeinitIs ==
  ASSUME platform \in Systems, NEW n \in NetQW, NEW m, m = Deinit(n)
  PROVE  /\ Kept(n, m) /\ m.state = n.state /\ m.addr = n.addr
         /\ m.held = (n.held \ Socket(platform)) \ NetThings(platform)
  <1>1. PICK k : k = [n EXCEPT !.held = n.held \ Socket(platform)]
    OBVIOUS
  <1>2. n.held \ Socket(platform) \in SUBSET Things
    BY DEF NetQW
  <1>3. /\ Kept(n, k) /\ k.held = n.held \ Socket(platform) /\ k.state = n.state
        /\ k.addr = n.addr /\ k \in NetQW
    <2>1. PICK h \in SUBSET Things : h = n.held \ Socket(platform)
      BY <1>2
    <2>2. k = [n EXCEPT !.held = h]
      BY <1>1, <2>1
    <2>3. Kept(n, k) /\ k.held = h /\ k.state = n.state /\ k.addr = n.addr
      BY <2>2, HeldIs
    <2> QED
      BY <2>1, <2>3 DEF Kept
  <1>4. m = ShutDown(k)
    BY <1>1, GivenBack DEF Deinit
  <1>5. /\ Kept(k, m) /\ m.held = k.held \ NetThings(platform)
        /\ m.state = k.state /\ m.addr = k.addr
    BY <1>3, <1>4, ShutDownIs
  <1> QED
    BY <1>3, <1>5 DEF Kept

\* A server it is connected to has been told, and the socket is closed.
LEMMA GoodbyeIs ==
  ASSUME platform \in Systems, NEW n \in NetQW, n.live, Named(n), NEW m, m = Goodbye(n)
  PROVE  /\ m \in NetQW /\ m.live /\ m.thread = n.thread /\ m.host = n.host
         /\ m.state = n.state /\ m.addr = n.addr /\ m.peer = n.peer
         /\ m.held = (n.held \ Socket(platform)) \ NetThings(platform)
         /\ m.drops = IF n.state = "connected" THEN n.drops + 3 ELSE n.drops
  <1>1. n.addr \in Addresses /\ n.drops \in Nat
    BY DEF NetQW
  <1>2. n.state = "connected" => Sys_Net_Send(platform, n.addr.type, n.addr) = <<n.peer>>
    <2> SUFFICES ASSUME n.state = "connected"
                 PROVE  Sys_Net_Send(platform, n.addr.type, n.addr) = <<n.peer>>
      OBVIOUS
    <2>1. /\ n.peer = n.addr /\ platform # "null"
          /\ platform = "morphos" => n.addr.type = "NA_IPV4"
      BY DEF Named, Reached
    <2>2. [n.addr EXCEPT !.type = n.addr.type] = n.addr
      BY <1>1 DEF Addresses
    <2>3. CASE platform = "posix"
      BY <2>1, <2>2, <2>3 DEF Linked, Sys_Net_Send, PosixSend
    <2>4. CASE platform = "win32"
      BY <2>1, <2>2, <2>4 DEF Linked, Sys_Net_Send, Win32Send
    <2>5. CASE platform = "morphos"
      BY <2>1, <2>2, <2>5 DEF Linked, Sys_Net_Send, AmiTcpSend
    <2> QED
      BY <2>1, <2>3, <2>4, <2>5 DEF Systems
  <1>3. PICK drops \in Nat : drops = IF n.state = "connected" THEN n.drops + 3 ELSE n.drops
    BY <1>1
  <1>4. PICK k : k = [n EXCEPT !.drops = drops]
    OBVIOUS
  <1>5. m = Deinit(k)
    BY <1>2, <1>3, <1>4 DEF Goodbye
  <1>6. /\ k \in NetQW /\ k.live = n.live /\ k.thread = n.thread /\ k.host = n.host
        /\ k.state = n.state /\ k.addr = n.addr /\ k.peer = n.peer /\ k.held = n.held
        /\ k.drops = drops
    BY <1>4 DEF NetQW
  <1>7. /\ Kept(k, m) /\ m.state = k.state /\ m.addr = k.addr
        /\ m.held = (k.held \ Socket(platform)) \ NetThings(platform)
    BY <1>5, <1>6, DeinitIs
  <1> QED
    BY <1>3, <1>6, <1>7 DEF Kept

-----------------------------------------------------------------------------
(* Each step of each NetQW. *)

\* One without a thread, or whose thread has been joined, stays so, and gets nothing.
Settled(m, n) ==
  m.thread \in Gone => n.thread \in Gone /\ n.state = m.state /\ n.held \subseteq m.held

LEMMA StartSound ==
  ASSUME platform \in Systems, NEW m, Sound(m), m.live, m.thread = "running",
         m.state = "uninitialised", NEW n \in NetQW_Thread_Init(m),
         NEW k, k = IF IsOpen(n) THEN n ELSE [n EXCEPT !.error = TRUE, !.thread = "ended"]
  PROVE  Sound(k) /\ k.live
  <1>1. /\ m \in NetQW /\ m.host \in Hosts \cup {Server} /\ m.drops = 0
        /\ platform # "null"
        /\ m.held \subseteq Forgotten(m) \cup MutexThings(platform) \cup ThreadThings(platform)
    BY DEF Sound, Named, Held, MayHold
  <1>2. "syssocket" \notin m.held
    BY <1>1, ThingsAre DEF Forgotten
  <1>3. /\ Kept(m, n)
        /\ \/ /\ ~IsOpen(n) /\ n.state = m.state
              /\ n.held \subseteq
                   m.held \cup (IF platform \in {"posix", "win32"} THEN {"descriptor"} ELSE {})
           \/ /\ IsOpen(n) /\ n.state = "sendchallenge" /\ Reached(n)
              /\ n.held \subseteq m.held \cup NetThings(platform) \cup Socket(platform)
    BY <1>1, <1>2, NetInitIs
  <1>4. CASE IsOpen(n)
    <2>1. /\ k = n /\ n \in NetQW /\ n.live /\ n.thread = "running" /\ n.drops = 0
          /\ n.host \in Hosts \cup {Server} /\ n.state = "sendchallenge" /\ Reached(n)
      BY <1>1, <1>3, <1>4 DEF Kept
    <2>2. Forgotten(m) \subseteq Forgotten(n) \cup Socket(platform)
      BY <1>1 DEF Forgotten, Socket
    <2>3. n.held \subseteq MayHold(n)
      BY <1>1, <1>3, <1>4, <2>1, <2>2 DEF MayHold
    <2> QED
      BY <1>1, <2>1, <2>3 DEF Sound, Named, Held
  <1>5. CASE ~IsOpen(n)
    <2>1. k = [n EXCEPT !.error = TRUE, !.thread = "ended"]
      BY <1>5
    <2>2. /\ k \in NetQW /\ k.live /\ k.thread = "ended" /\ k.drops = 0
          /\ k.host \in Hosts \cup {Server} /\ k.state = "uninitialised"
          /\ k.held = n.held
      BY <1>1, <1>3, <1>5, <2>1 DEF Kept, NetQW
    <2>3. /\ Forgotten(m) = Forgotten(k)
          /\ platform \in {"posix", "win32"} => "descriptor" \in Forgotten(k)
      BY <2>2 DEF Forgotten
    <2>4. k.held \subseteq MayHold(k)
      BY <1>1, <1>3, <1>5, <2>2, <2>3 DEF MayHold
    <2> QED
      BY <1>1, <2>2, <2>4 DEF Sound, Named, Held
  <1> QED
    BY <1>4, <1>5

LEMMA ConnectsSound ==
  ASSUME platform \in Systems, NEW m, Sound(m), m.live, m.thread = "running",
         m.state = "sendchallenge", NEW from \in Senders(m.addr), NEW received \in Received,
         NEW got, got = Sys_Net_Receive(platform, m.addr.type, received, from), got.r > 0,
         NET_CompareAdr(got.address[1], m.addr),
         NEW k, k = [m EXCEPT !.state = "connected", !.peer = got.address[1]]
  PROVE  Sound(k) /\ k.live
  <1>1. /\ m \in NetQW /\ m.addr \in Addresses /\ Reached(m)
        /\ m.addr.type \in {"NA_IPV4", "NA_IPV6"} /\ platform # "null"
        /\ platform = "morphos" => m.addr.type = "NA_IPV4"
    BY DEF Sound, Named, Reached, NetQW
  <1>2. from \in Addresses
    <2>1. PICK other \in Seq(Nat) : other = <<10, 0, 0, 9>>
      <3>1. <<10, 0, 0, 9>> \in Seq(Nat)
        OBVIOUS
      <3> QED
        BY <3>1
    <2>2. PICK port \in Nat : port = 27999
      OBVIOUS
    <2>3. \/ from = m.addr
          \/ from = [m.addr EXCEPT !.port = port]
          \/ from = [m.addr EXCEPT !.address = other]
      BY <2>1, <2>2 DEF Senders
    <2> QED
      BY <1>1, <2>3 DEF Addresses
  <1>3. PICK a : a = got.address[1]
    OBVIOUS
  <1>4. a = [from EXCEPT !.type = m.addr.type]
    <2>1. \A ignored : Sign(received, ignored) > 0 => received = "data"
      BY DEF Sign, Received
    <2> USE DEF Linked, Sys_Net_Receive
    <2>2. CASE platform = "posix"
      BY <1>3, <2>1, <2>2 DEF PosixReceive
    <2>3. CASE platform = "win32"
      BY <1>3, <2>1, <2>3 DEF Win32Receive
    <2>4. CASE platform = "morphos"
      BY <1>1, <1>3, <2>1, <2>4 DEF AmiTcpReceive
    <2> QED
      BY <1>1, <2>2, <2>3, <2>4 DEF Systems
  <1>5. a = m.addr
    <2>1. /\ a.type = m.addr.type /\ a.address = m.addr.address /\ a.port = m.addr.port
          /\ a \in Addresses
      BY <1>1, <1>2, <1>3, <1>4 DEF NET_CompareAdr, Addresses
    <2> QED
      BY <1>1, <2>1 DEF Addresses
  <1>6. k = [m EXCEPT !.state = "connected", !.peer = m.addr]
    BY <1>3, <1>5
  <1>7. /\ k \in NetQW /\ k.live /\ k.thread = "running" /\ k.drops = m.drops
        /\ k.host = m.host /\ k.state = "connected" /\ k.peer = m.addr /\ k.addr = m.addr
        /\ k.held = m.held
    BY <1>1, <1>6 DEF NetQW
  <1>8. Reached(k)
    BY <1>1, <1>7 DEF Reached
  <1>9. k.held \subseteq MayHold(k)
    BY <1>7 DEF Sound, Held, MayHold, Forgotten
  <1> QED
    BY <1>7, <1>8, <1>9 DEF Sound, Named, Held

LEMMA EndsSound ==
  ASSUME platform \in Systems, NEW m, Sound(m), m.live, m.thread = "running",
         m.state # "uninitialised", NEW k, k = [Goodbye(m) EXCEPT !.thread = "ended"]
  PROVE  Sound(k) /\ k.live
  <1>1. /\ m \in NetQW /\ m.drops = 0 /\ Named(m) /\ platform # "null"
        /\ m.held \subseteq Forgotten(m) \cup MutexThings(platform) \cup ThreadThings(platform)
                              \cup Socket(platform) \cup NetThings(platform)
    BY DEF Sound, Held, MayHold
  <1>2. PICK n : n = Goodbye(m)
    OBVIOUS
  <1>3. /\ n \in NetQW /\ n.live /\ n.thread = m.thread /\ n.host = m.host
        /\ n.state = m.state /\ n.addr = m.addr /\ n.peer = m.peer
        /\ n.held = (m.held \ Socket(platform)) \ NetThings(platform)
        /\ n.drops = IF m.state = "connected" THEN m.drops + 3 ELSE m.drops
    BY <1>1, <1>2, GoodbyeIs
  <1>4. k = [n EXCEPT !.thread = "ended"]
    BY <1>2
  <1>5. /\ k \in NetQW /\ k.live /\ k.thread = "ended" /\ k.host = m.host
        /\ k.state = m.state /\ k.addr = m.addr /\ k.peer = m.peer /\ k.held = n.held
        /\ k.drops = IF m.state = "connected" THEN 3 ELSE 0
    <2>1. n.drops = IF m.state = "connected" THEN 3 ELSE 0
      BY <1>1, <1>3
    <2>2. /\ k \in NetQW /\ k.live = n.live /\ k.thread = "ended" /\ k.host = n.host
          /\ k.state = n.state /\ k.addr = n.addr /\ k.peer = n.peer /\ k.held = n.held
          /\ k.drops = n.drops
      <3>1. n \in NetQW
        BY <1>3
      <3> QED
        BY <1>4, <3>1 DEF NetQW
    <2> QED
      BY <1>3, <2>1, <2>2
  <1>6. Named(k)
    BY <1>1, <1>5 DEF Named, Reached
  <1>7. Forgotten(k) = Forgotten(m)
    BY <1>5 DEF Forgotten
  <1>8. k.held \subseteq MayHold(k)
    BY <1>1, <1>3, <1>5, <1>7 DEF MayHold
  <1> QED
    BY <1>1, <1>5, <1>6, <1>8 DEF Sound, Held

LEMMA QuitSound ==
  ASSUME NEW m, Sound(m), NEW k, k = [m EXCEPT !.quit = TRUE]
  PROVE  Sound(k) /\ k.live = m.live /\ Settled(m, k)
  <1>1. /\ k \in NetQW /\ k.live = m.live /\ k.thread = m.thread /\ k.host = m.host
        /\ k.state = m.state /\ k.addr = m.addr /\ k.peer = m.peer /\ k.held = m.held
        /\ k.drops = m.drops
    BY DEF Sound, NetQW
  <1>2. Forgotten(k) = Forgotten(m) /\ MayHold(k) = MayHold(m)
    BY <1>1 DEF Forgotten, MayHold
  <1> QED
    BY <1>1, <1>2 DEF Sound, Named, Reached, Held, Settled

\* A NetQW that NetQW_Delete has joined, or that had no thread.
LEMMA JoinSound ==
  ASSUME platform \in Systems, NEW t \in Callers, NEW m, Sound(m), m.live,
         m.thread # "joined", NEW k \in NetJoined(t, m)
  PROVE  /\ Sound(k) /\ k.live /\ Settled(m, k) /\ k.thread \in Gone
         /\ k.held \subseteq MutexThings(platform) \cup Forgotten(k)
  <1>1. m \in NetQW /\ Named(m) /\ Held(m)
    BY DEF Sound
  <1>2. CASE m.thread = "none"
    <2>1. k = Goodbye(m) /\ m.state # "connected"
      BY <1>1, <1>2 DEF NetJoined, Held
    <2>2. /\ k \in NetQW /\ k.live /\ k.thread = "none" /\ k.host = m.host
          /\ k.state = m.state /\ k.addr = m.addr /\ k.peer = m.peer
          /\ k.held = (m.held \ Socket(platform)) \ NetThings(platform)
          /\ k.drops = m.drops
      BY <1>1, <1>2, <2>1, GoodbyeIs
    <2>3. Forgotten(k) = Forgotten(m)
      BY <2>2 DEF Forgotten
    <2>4. k.held \subseteq Forgotten(k)
      BY <1>1, <1>2, <2>2, <2>3 DEF Held, MayHold
    <2>5. Named(k)
      BY <1>1, <2>2 DEF Named, Reached
    <2> QED
      BY <1>1, <1>2, <2>1, <2>2, <2>4, <2>5 DEF Sound, Held, MayHold, Settled, Gone
  <1>3. CASE m.thread # "none"
    <2>1. PICK join : join = Sys_Thread_DeleteThread(platform, t, "net", m.thread = "ended")
      OBVIOUS
    <2>2. /\ join.frees = ThreadThings(platform)
          /\ join.returns => m.thread = "ended" \/ platform = "null"
                             \/ (platform = "posix" /\ t = "net")
      <3>1. PICK ended \in BOOLEAN : ended = (m.thread = "ended")
        OBVIOUS
      <3>2. join = Sys_Thread_DeleteThread(platform, t, "net", ended)
        BY <2>1, <3>1
      <3>3. /\ join.frees = ThreadThings(platform)
            /\ join.returns => ended \/ platform = "null" \/ (platform = "posix" /\ t = "net")
        BY <3>2, Joining
      <3> QED
        BY <3>1, <3>3
    <2>3. join.returns /\ k = [m EXCEPT !.thread = "joined", !.held = m.held \ join.frees]
      BY <1>3, <2>1 DEF NetJoined
    <2>4. m.thread = "ended" /\ platform # "null"
      BY <1>1, <1>3, <2>2, <2>3 DEF Held, Callers
    <2>5. PICK h \in SUBSET Things : h = m.held \ ThreadThings(platform)
      BY <1>1 DEF NetQW
    <2>6. k = [m EXCEPT !.thread = "joined", !.held = h]
      BY <2>2, <2>3, <2>5
    <2>7. /\ k \in NetQW /\ k.live /\ k.thread = "joined" /\ k.host = m.host
          /\ k.state = m.state /\ k.addr = m.addr /\ k.peer = m.peer
          /\ k.held = h /\ k.drops = m.drops
      BY <1>1, <2>6 DEF NetQW
    <2>8. Forgotten(k) = Forgotten(m)
      BY <2>7 DEF Forgotten
    <2>9. k.held \subseteq MutexThings(platform) \cup Forgotten(k)
      BY <1>1, <2>4, <2>5, <2>7, <2>8 DEF Held, MayHold
    <2>10. Named(k)
      BY <1>1, <2>7 DEF Named, Reached
    <2> QED
      BY <1>1, <2>4, <2>7, <2>9, <2>10 DEF Sound, Held, MayHold, Settled, Gone
  <1> QED
    BY <1>2, <1>3

LEMMA MutexSound ==
  ASSUME platform \in Systems, NEW m, Sound(m), m.live, m.thread \in Gone,
         m.held \subseteq MutexThings(platform) \cup Forgotten(m),
         NEW k, k = [m EXCEPT !.held = Sys_Thread_DeleteMutex(platform, @)]
  PROVE  /\ Sound(k) /\ k.live /\ Settled(m, k) /\ k.thread \in Gone
         /\ k.held \subseteq Forgotten(k)
  <1>1. PICK h : h = Sys_Thread_DeleteMutex(platform, m.held)
    OBVIOUS
  <1>2. h \subseteq m.held /\ h \subseteq Forgotten(m)
    <2>1. h = m.held \ (MutexThings(platform)
                          \ (IF platform = "win32" THEN {"critical_section"} ELSE {}))
      BY <1>1, GivenBack
    <2>2. platform = "win32" => "critical_section" \in Forgotten(m)
      BY DEF Forgotten
    <2> QED
      BY <2>1, <2>2
  <1>3. m \in NetQW /\ h \in SUBSET Things
    BY <1>2 DEF Sound, NetQW
  <1>4. k = [m EXCEPT !.held = h]
    BY <1>1
  <1>5. Kept(m, k) /\ k.held = h /\ k.state = m.state /\ k.addr = m.addr
    BY <1>3, <1>4 DEF NetQW, Kept
  <1>6. /\ k \in NetQW /\ k.live /\ k.thread = m.thread /\ k.host = m.host
        /\ k.peer = m.peer /\ k.drops = m.drops
    BY <1>5 DEF Kept
  <1>7. Forgotten(k) = Forgotten(m)
    BY <1>5 DEF Forgotten
  <1>8. Named(k)
    BY <1>5, <1>6 DEF Sound, Named, Reached
  <1>9. k.held \subseteq MayHold(k)
    BY <1>2, <1>5, <1>7 DEF MayHold
  <1> QED
    BY <1>2, <1>5, <1>6, <1>7, <1>8, <1>9 DEF Sound, Held, Settled, Gone

LEMMA FreedSound ==
  ASSUME NEW m \in NetQW, Held(m), m.thread \in Gone, m.held \subseteq Forgotten(m),
         NEW k, k = Freed(m)
  PROVE  /\ Sound(k) /\ ~k.live /\ Settled(m, k) /\ k.thread \in Gone
         /\ k.held \subseteq Forgotten(k)
  <1>1. << >> \in Seq(Tokens) /\ NoAddress \in Addresses
    <2>1. << >> \in Seq(Tokens) /\ << >> \in Seq(Nat)
      OBVIOUS
    <2> QED
      BY <2>1 DEF NoAddress, Address, Addresses
  <1>2. /\ k \in NetQW /\ ~k.live /\ k.thread = m.thread /\ k.state = m.state
        /\ k.held = m.held /\ k.drops = m.drops
    <2> HIDE DEF NoAddress
    <2> QED
      BY <1>1 DEF Freed, NetQW
  <1>3. Forgotten(k) = Forgotten(m)
    BY <1>2 DEF Forgotten
  <1>4. Named(k)
    BY <1>2 DEF Named
  <1>5. k.held \subseteq MayHold(k)
    BY <1>2, <1>3 DEF MayHold
  <1> QED
    BY <1>2, <1>3, <1>4, <1>5 DEF Sound, Held, Settled, Gone

LEMMA NewSound ==
  ASSUME platform \in Systems, NEW host \in Hosts \cup {Server}, NEW n \in NetQW_Create(host)
  PROVE  Sound(n)
  <1>1. PICK new : new = NewNet(host)
    OBVIOUS
  <1>2. /\ new \in NetQW /\ new.live /\ new.thread = "none" /\ new.state = "uninitialised"
        /\ new.host = host /\ new.drops = 0 /\ new.held = {} /\ new.addr \in Addresses
    <2>1. NoAddress \in Addresses /\ host \in Seq(Tokens)
      <3>1. << >> \in Seq(Nat)
        OBVIOUS
      <3> QED
        BY <3>1, HostsAre DEF NoAddress, Address, Addresses
    <2> HIDE DEF NoAddress
    <2> QED
      BY <1>1, <2>1 DEF NewNet, NetQW
  <1>3. ASSUME NEW m \in NetQW, m.thread = "none", m.state # "connected", m.drops = 0,
               m.held \subseteq Forgotten(m)
        PROVE  Sound(Freed(m))
    BY <1>3, FreedSound DEF Held, MayHold, Gone
  <1>4. CASE n = Freed(new)
    BY <1>2, <1>3, <1>4
  <1>5. CASE \E mutex \in Sys_Thread_CreateMutex(platform),
                thread \in Sys_Thread_CreateThread(platform) :
               mutex # {} /\ thread # {} /\ n = WithThread(host, mutex, thread)
    <2>1. PICK mutex \in Sys_Thread_CreateMutex(platform),
               thread \in Sys_Thread_CreateThread(platform) :
                 mutex # {} /\ thread # {} /\ n = WithThread(host, mutex, thread)
      BY <1>5
    <2>2. /\ mutex = MutexThings(platform) /\ thread = ThreadThings(platform)
          /\ platform # "null"
      BY <2>1, MutexesOf, ThreadsOf, ThingsAre
    <2>3. PICK h \in SUBSET Things : h = mutex \cup thread
      BY <2>2, ThingsAre
    <2>4. n = [new EXCEPT !.thread = "running", !.held = h]
      BY <1>1, <2>1, <2>3 DEF WithThread
    <2>5. /\ n \in NetQW /\ n.live /\ n.thread = "running" /\ n.state = "uninitialised"
          /\ n.host = host /\ n.drops = 0 /\ n.held = h
      BY <1>2, <2>4 DEF NetQW
    <2> QED
      BY <2>2, <2>3, <2>5 DEF Sound, Named, Held, MayHold
  <1>6. CASE \E mutex \in Sys_Thread_CreateMutex(platform) : n \in WithoutThread(host, mutex)
    <2>1. PICK mutex \in Sys_Thread_CreateMutex(platform) : n \in WithoutThread(host, mutex)
      BY <1>6
    <2>2. PICK h : h = Sys_Thread_DeleteMutex(platform, mutex)
      OBVIOUS
    <2>3. h \subseteq Forgotten(new) /\ h \in SUBSET Things
      <3>1. h = mutex \ (MutexThings(platform)
                           \ (IF platform = "win32" THEN {"critical_section"} ELSE {}))
        BY <2>2, GivenBack
      <3>2. mutex \subseteq MutexThings(platform)
        BY MutexesOf
      <3>3. platform = "win32" => "critical_section" \in Forgotten(new)
        BY DEF Forgotten
      <3> QED
        BY <3>1, <3>2, <3>3, ThingsAre
    <2>4. PICK m : m = [new EXCEPT !.held = h]
      OBVIOUS
    <2>5. /\ m \in NetQW /\ m.live /\ m.thread = "none" /\ m.state = "uninitialised"
          /\ m.host = host /\ m.drops = 0 /\ m.held = h
      BY <1>2, <2>3, <2>4 DEF NetQW
    <2>6. Forgotten(m) = Forgotten(new) /\ "syssocket" \notin m.held
      BY <1>2, <2>3, <2>5, ThingsAre DEF Forgotten
    <2>7. PICK k \in NetQW_Thread_Init(m) : n = IF IsOpen(k) THEN k ELSE Freed(k)
      BY <1>1, <2>1, <2>2, <2>4 DEF WithoutThread
    <2>8. /\ Kept(m, k)
          /\ \/ /\ ~IsOpen(k) /\ k.state = m.state
                /\ k.held \subseteq
                     m.held \cup (IF platform \in {"posix", "win32"}
                                  THEN {"descriptor"} ELSE {})
             \/ /\ IsOpen(k) /\ k.state = "sendchallenge" /\ Reached(k)
                /\ k.held \subseteq m.held \cup NetThings(platform) \cup Socket(platform)
      BY <2>5, <2>6, NetInitIs
    <2>9. /\ k \in NetQW /\ k.live /\ k.thread = "none" /\ k.host = host /\ k.drops = 0
      BY <2>5, <2>8 DEF Kept
    <2>10. CASE IsOpen(k)
      <3>1. platform # "null"
        BY <2>8, <2>10 DEF Reached
      <3>2. Forgotten(m) \subseteq Forgotten(k) \cup Socket(platform)
        BY <2>5, <3>1 DEF Forgotten, Socket
      <3>3. k.held \subseteq MayHold(k)
        BY <2>3, <2>5, <2>6, <2>8, <2>9, <2>10, <3>2 DEF MayHold
      <3> QED
        BY <2>7, <2>8, <2>9, <2>10, <3>3 DEF Sound, Named, Held
    <2>11. CASE ~IsOpen(k)
      <3>1. k.held \subseteq Forgotten(k)
        <4>1. /\ Forgotten(k) = Forgotten(m)
              /\ platform \in {"posix", "win32"} => "descriptor" \in Forgotten(k)
          BY <2>5, <2>8, <2>11 DEF Forgotten
        <4> QED
          BY <2>3, <2>5, <2>6, <2>8, <2>11, <4>1
      <3> QED
        BY <1>3, <2>5, <2>7, <2>8, <2>9, <2>11, <3>1
    <2> QED
      BY <2>10, <2>11
  <1> QED
    BY <1>1, <1>4, <1>5, <1>6 DEF NetQW_Create

-----------------------------------------------------------------------------
(* What a step of the system leaves alone. *)

\* No NetQW goes, and what NetQW_Delete has done to one is not undone.
NetGrows ==
  /\ platform' = platform /\ Len(net') \in Nat /\ Len(net) <= Len(net')
  /\ \A p \in DOMAIN net : p \in DOMAIN net' /\ Settled(net[p], net'[p])

LEMMA NetIndices ==
  ASSUME NetInv
  PROVE  Len(net) \in Nat /\ DOMAIN net = 1 .. Len(net)
  BY LenProperties DEF NetInv

LEMMA SoundStays ==
  ASSUME platform' = platform, NEW p, NEW n, net'[p] = n, Sound(n)
  PROVE  Sound(net[p])'
  BY DEF Sound, Named, Reached, Held, MayHold, Forgotten

LEMMA Untouched ==
  ASSUME NetInv, UNCHANGED <<platform, net>>
  PROVE  NetInv' /\ NetGrows
  <1>1. NetInv'
    <2>1. \A p \in DOMAIN net : Sound(net[p])'
      BY SoundStays DEF NetInv
    <2> QED
      BY <2>1 DEF NetInv
  <1>2. \A p \in DOMAIN net : Settled(net[p], net'[p])
    BY DEF Settled
  <1> QED
    BY <1>1, <1>2, NetIndices DEF NetGrows

LEMMA Touched ==
  ASSUME NetInv, NEW p \in DOMAIN net, NEW n, net' = [net EXCEPT ![p] = n],
         Sound(n), Settled(net[p], n), platform' = platform
  PROVE  /\ NetInv' /\ NetGrows /\ Len(net') = Len(net) /\ DOMAIN net' = DOMAIN net
         /\ net'[p] = n /\ \A q \in DOMAIN net : q # p => net'[q] = net[q]
  <1>1. n \in NetQW /\ net \in Seq(NetQW)
    BY DEF Sound, NetInv
  <1>2. /\ net' \in Seq(NetQW) /\ Len(net') = Len(net) /\ DOMAIN net' = DOMAIN net
        /\ net'[p] = n /\ \A q \in DOMAIN net : q # p => net'[q] = net[q]
    BY <1>1, TouchIs
  <1>3. \A q \in DOMAIN net : Sound(net[q])'
    BY <1>2, SoundStays DEF NetInv
  <1>4. NetInv'
    BY <1>2, <1>3 DEF NetInv
  <1>5. \A q \in DOMAIN net : Settled(net[q], net'[q])
    BY <1>2 DEF Settled
  <1>6. NetGrows
    BY <1>2, <1>5, NetIndices DEF NetGrows
  <1> QED
    BY <1>2, <1>4, <1>6

LEMMA Appended ==
  ASSUME NetInv, NEW n, net' = Append(net, n), Sound(n), platform' = platform
  PROVE  /\ NetInv' /\ NetGrows /\ Len(net') = Len(net) + 1
         /\ DOMAIN net' = DOMAIN net \cup {Len(net) + 1} /\ net'[Len(net) + 1] = n
         /\ \A q \in DOMAIN net : net'[q] = net[q] /\ q # Len(net) + 1
  <1>1. n \in NetQW /\ net \in Seq(NetQW)
    BY DEF Sound, NetInv
  <1>2. /\ net' \in Seq(NetQW) /\ Len(net') = Len(net) + 1 /\ Len(net) \in Nat
        /\ DOMAIN net' = DOMAIN net \cup {Len(net) + 1} /\ net'[Len(net) + 1] = n
        /\ DOMAIN net = 1 .. Len(net) /\ \A q \in DOMAIN net : net'[q] = net[q]
    BY <1>1, AppendIs
  <1>3. \A q \in DOMAIN net' : Sound(net[q])'
    <2>1. \A q \in DOMAIN net : Sound(net[q])'
      BY <1>2, SoundStays DEF NetInv
    <2>2. PICK last : last = Len(net) + 1
      OBVIOUS
    <2>3. Sound(net[last])'
      BY <1>2, <2>2, SoundStays
    <2> QED
      BY <1>2, <2>1, <2>2, <2>3
  <1>4. NetInv'
    BY <1>2, <1>3 DEF NetInv
  <1>5. \A q \in DOMAIN net : Settled(net[q], net'[q])
    BY <1>2 DEF Settled
  <1>6. PICK k \in Nat : k = Len(net)
    BY <1>2
  <1>7. /\ k + 1 \in Nat /\ k <= k + 1
        /\ \A q \in 1 .. k : q # k + 1
    OBVIOUS
  <1>8. NetGrows
    BY <1>2, <1>5, <1>6, <1>7 DEF NetGrows
  <1> QED
    BY <1>2, <1>4, <1>6, <1>7, <1>8

LEMMA HandStays ==
  ASSUME NEW t \in Callers, NetInv, Hand(t), NetGrows, ptr'[t] = ptr[t],
         pc'[t] \in {"delete_mutex", "free"} => pc'[t] = pc[t]
  PROVE  Hand(t)'
  <1>1. ptr'[t] \in 0 .. Len(net')
    <2>1. PICK k \in Nat, l \in Nat : k = Len(net) /\ l = Len(net') /\ k <= l
      BY NetIndices DEF NetGrows
    <2>2. ptr[t] \in 0 .. k
      BY <2>1 DEF Hand
    <2> QED
      BY <2>1, <2>2
  <1>2. ptr[t] # Null => ptr[t] \in DOMAIN net
    BY NetIndices DEF Hand, Null
  <1>3. ASSUME pc'[t] \in {"delete_mutex", "free"}
        PROVE  /\ net'[ptr[t]].thread \in Gone
               /\ net'[ptr[t]].held \subseteq net[ptr[t]].held
               /\ net'[ptr[t]].state = net[ptr[t]].state
    BY <1>2, <1>3 DEF Hand, NetGrows, Settled
  <1> QED
    BY <1>1, <1>3 DEF Hand, Forgotten, NetGrows

\* A step that ends in a fault, and one that changes nothing at all.
LEMMA Unchanged ==
  ASSUME IInv, UNCHANGED <<platform, qwc, net, pc, stack, ptr, app>>
  PROVE  IInv'
  <1>1. NetInv' /\ NetGrows
    BY Untouched DEF IInv
  <1>2. HandInv'
    BY <1>1, HandStays DEF IInv, HandInv
  <1>3. PlaceInv' /\ QwcInv' /\ ClientInv' /\ FreedInv'
    BY DEF IInv, PlaceInv, QwcInv, ClientInv, Fresh, NoClient, FreedInv, AllFreed
  <1> QED
    BY <1>1, <1>2, <1>3 DEF IInv

-----------------------------------------------------------------------------
(* Every step preserves the invariant: the net thread. *)

LEMMA NetThreadStep ==
  ASSUME IInv, NEW p \in DOMAIN net, NetThread(p)
  PROVE  IInv'
  <1> USE DEF IInv
  <1>1. /\ platform \in Systems /\ Sound(net[p])
        /\ net[p].live /\ net[p].thread = "running"
    BY DEF NetInv, NetThread
  <1>2. PICK n : /\ NetChange(p, n) /\ Sound(n) /\ n.live
    <2>1. CASE NetStart(p)
      <3>1. PICK m \in NetQW_Thread_Init(net[p]) :
              NetChange(p, IF IsOpen(m) THEN m
                           ELSE [m EXCEPT !.error = TRUE, !.thread = "ended"])
        BY <2>1 DEF NetStart
      <3>2. net[p].state = "uninitialised"
        BY <2>1 DEF NetStart
      <3> QED
        BY <1>1, <3>1, <3>2, StartSound
    <2>2. CASE NetConnects(p)
      <3>1. PICK from \in Senders(net[p].addr), received \in Received :
              LET got == Sys_Net_Receive(platform, net[p].addr.type, received, from)
              IN  /\ got.r > 0 /\ NET_CompareAdr(got.address[1], net[p].addr)
                  /\ NetChange(p, [net[p] EXCEPT !.state = "connected",
                                                 !.peer = got.address[1]])
        BY <2>2 DEF NetConnects
      <3>2. net[p].state = "sendchallenge"
        BY <2>2 DEF NetConnects
      <3> QED
        BY <1>1, <3>1, <3>2, ConnectsSound
    <2>3. CASE NetEnds(p)
      <3>1. /\ NetChange(p, [Goodbye(net[p]) EXCEPT !.thread = "ended"])
            /\ net[p].state # "uninitialised"
        BY <2>3 DEF NetEnds
      <3> QED
        BY <1>1, <3>1, EndsSound
    <2> QED
      BY <2>1, <2>2, <2>3 DEF NetThread
  <1>3. /\ net' = [net EXCEPT ![p] = n]
        /\ UNCHANGED <<platform, qwc, pc, stack, ptr, app>>
    BY <1>2 DEF NetChange
  <1>4. Settled(net[p], n)
    BY <1>1 DEF Settled, Gone
  <1>5. /\ NetInv' /\ NetGrows /\ Len(net') = Len(net) /\ DOMAIN net' = DOMAIN net
        /\ net'[p] = n /\ \A q \in DOMAIN net : q # p => net'[q] = net[q]
    BY <1>2, <1>3, <1>4, Touched
  <1>6. HandInv'
    BY <1>3, <1>5, HandStays DEF HandInv
  <1>7. \A q \in DOMAIN net : net'[q].live <=> net[q].live
    BY <1>1, <1>2, <1>5
  <1>8. FreedInv'
    BY <1>3, <1>5, <1>7 DEF FreedInv, AllFreed
  <1>9. PlaceInv' /\ QwcInv' /\ ClientInv'
    BY <1>3, <1>5 DEF PlaceInv, QwcInv, ClientInv, Fresh, NoClient
  <1> QED
    BY <1>5, <1>6, <1>8, <1>9

-----------------------------------------------------------------------------
(* The loop of the client's thread. *)

\* Nothing about the application's place changes when the client's thread goes on.
LEMMA ClientMoves ==
  ASSUME IInv, NEW label \in Loop \cup {"ended"}, pc["client"] \in Loop, ClientGoto(label)
  PROVE  IInv'
  <1> USE DEF IInv
  <1>1. /\ DOMAIN pc' = Callers /\ pc'["client"] = label /\ stack' = stack
        /\ pc'["app"] = pc["app"] /\ UNCHANGED <<platform, qwc, net, ptr, app>>
    BY GotoIs DEF ClientGoto, PlaceInv, Callers
  <1>2. NetInv' /\ NetGrows
    BY <1>1, Untouched
  <1>3. HandInv'
    BY <1>1, <1>2, HandStays DEF HandInv, Callers, Loop
  <1>4. PlaceInv'
    BY <1>1 DEF PlaceInv, ClientPlace, Loop, Over, Quitting, Disconnecting, Clearing, Deleting
  <1>5. QwcInv'
    BY <1>1 DEF QwcInv
  <1>6. ClientInv'
    BY <1>1 DEF ClientInv, Fresh, NoClient, Loop, Over
  <1>7. FreedInv'
    BY <1>1 DEF FreedInv, AllFreed, Callers, Loop, Clearing
  <1> QED
    BY <1>2, <1>3, <1>4, <1>5, <1>6, <1>7

LEMMA ClientAssigns ==
  ASSUME IInv, NEW label \in Loop, NEW from \in Loop, NEW field, NEW value,
         \/ field = "state" /\ value \in Nat
         \/ field = "abort" /\ value = TRUE,
         Assign("client", from, field, value, label)
  PROVE  IInv'
  <1> USE DEF IInv
  <1>1. /\ DOMAIN pc' = Callers /\ pc'["client"] = label /\ stack' = stack
        /\ pc'["app"] = pc["app"] /\ UNCHANGED <<platform, net, ptr, app>>
        /\ pc["client"] \in Loop
    BY GotoIs DEF Assign, At, PlaceInv, Callers
  <1>2. NetInv' /\ NetGrows
    BY <1>1, Untouched
  <1>3. HandInv'
    BY <1>1, <1>2, HandStays DEF HandInv, Callers, Loop
  <1>4. PlaceInv'
    BY <1>1 DEF PlaceInv, ClientPlace, Loop, Over, Quitting, Disconnecting, Clearing, Deleting
  <1>5. /\ qwc' \in QWC /\ qwc'.netqw = qwc.netqw /\ qwc'.thread = qwc.thread
        /\ qwc'.netdata = qwc.netdata /\ qwc'.held = qwc.held
        /\ qwc.abort => qwc'.abort
    BY DEF QwcInv, QWC, Assign, Set
  <1>6. QwcInv'
    BY <1>1, <1>5 DEF QwcInv
  <1>7. ClientInv'
    BY <1>1, <1>5 DEF ClientInv, Fresh, NoClient, Loop, Over
  <1>8. FreedInv'
    BY <1>1, <1>5 DEF FreedInv, AllFreed, Callers, Loop, Clearing
  <1> QED
    BY <1>2, <1>3, <1>4, <1>6, <1>7, <1>8

LEMMA LeaveStep ==
  ASSUME IInv, At("client", "leave"), qwc.abort, Call("client", "quit", "ended"),
         UNCHANGED <<platform, qwc, net, ptr, app>>
  PROVE  IInv'
  <1> USE DEF IInv
  <1>1. /\ DOMAIN pc' = Callers /\ pc'["client"] = "quit" /\ pc["client"] = "leave"
        /\ DOMAIN stack' = Callers /\ stack'["client"] = <<"ended">> \o stack["client"]
        /\ pc'["app"] = pc["app"] /\ stack'["app"] = stack["app"]
    BY CallIs DEF At, PlaceInv, Callers
  <1>2. NetInv' /\ NetGrows
    BY <1>1, Untouched
  <1>3. HandInv'
    BY <1>1, <1>2, HandStays DEF HandInv, Callers
  <1>4. PlaceInv'
    <2>1. stack["client"] = << >>
      BY <1>1 DEF PlaceInv, ClientPlace, Loop, Over, Quitting, Disconnecting, Clearing,
                  Deleting
    <2>2. stack'["client"] = <<"ended">>
      BY <1>1, <2>1, Stacks
    <2> QED
      BY <1>1, <2>2 DEF PlaceInv, ClientPlace, Quitting
  <1>5. QwcInv'
    BY <1>1 DEF QwcInv
  <1>6. ClientInv'
    BY <1>1 DEF ClientInv, Fresh, NoClient, Loop, Over
  <1>7. FreedInv'
    BY <1>1 DEF FreedInv, AllFreed, Callers, Clearing
  <1> QED
    BY <1>2, <1>3, <1>4, <1>5, <1>6, <1>7

LEMMA ClientLoop ==
  ASSUME IInv,
         \/ Top \/ Sleep_Sleep \/ TestNet \/ GetState \/ GetStateAgain \/ ReadPackets
         \/ UseNet \/ MarkConnected \/ Leave \/ UseFreedConnection
  PROVE  IInv'
  <1>1. \A what : Broken(what) => IInv'
    BY Unchanged DEF Broken
  <1>2. \A from \in Loop, label \in Loop \cup {"ended"} :
          At("client", from) /\ ClientGoto(label) => IInv'
    BY ClientMoves DEF At
  <1>3. \A from \in Loop, label \in Loop, value \in Nat :
          Assign("client", from, "state", value, label) => IInv'
    BY ClientAssigns
  <1>4. CASE Top
    BY <1>2, <1>4 DEF Top, Loop
  <1>5. CASE Sleep_Sleep
    BY <1>2, <1>5 DEF Sleep_Sleep, Loop
  <1>6. CASE TestNet
    BY <1>2, <1>3, <1>6 DEF TestNet, Loop, qwc_state_idle
  <1>7. CASE GetState
    BY <1>1, <1>2, <1>7 DEF GetState, Loop
  <1>8. CASE GetStateAgain
    BY <1>1, <1>2, <1>3, <1>8 DEF GetStateAgain, Loop, qwc_state_connecting
  <1>9. CASE ReadPackets
    BY <1>1, <1>2, <1>9 DEF ReadPackets, Loop
  <1>10. CASE UseNet
    <2>1. Assign("client", "use", "abort", TRUE, "read") => IInv'
      BY ClientAssigns DEF Loop
    <2> QED
      BY <1>1, <1>2, <1>10, <2>1 DEF UseNet, Loop
  <1>11. CASE MarkConnected
    BY <1>3, <1>11 DEF MarkConnected, Loop, qwc_state_connected
  <1>12. CASE Leave
    BY <1>2, <1>12, LeaveStep DEF Leave, Loop
  <1>13. CASE UseFreedConnection
    BY <1>1, <1>13 DEF UseFreedConnection
  <1> QED
    BY <1>4, <1>5, <1>6, <1>7, <1>8, <1>9, <1>10, <1>11, <1>12, <1>13

-----------------------------------------------------------------------------
(* Where the steps of NetQW_Delete, QWC_Disconnect and QWC_Quit lead. *)

LEMMA PlaceMoves ==
  ASSUME PlaceInv, NEW t \in Callers, NEW label, Goto(t, label), app' = app,
         \/ pc[t] \in Deleting /\ label \in Deleting
         \/ pc[t] \in Disconnecting /\ label \in Disconnecting
         \/ pc[t] \in Quitting /\ label \in Quitting
  PROVE  /\ PlaceInv' /\ pc'[t] = label
         /\ \A u \in Callers \ {t} : pc'[u] = pc[u]
  <1>1. /\ DOMAIN pc' = Callers /\ pc'[t] = label /\ stack' = stack
        /\ \A u \in Callers \ {t} : pc'[u] = pc[u]
    BY GotoIs DEF PlaceInv
  <1>2. CASE t = "app"
    BY <1>1, <1>2
       DEF PlaceInv, AppPlace, Callers, Quitting, Disconnecting, Clearing, Deleting
  <1>3. CASE t = "client"
    BY <1>1, <1>3
       DEF PlaceInv, ClientPlace, Callers, Quitting, Disconnecting, Clearing, Deleting,
           Loop, Over
  <1> QED
    BY <1>1, <1>2, <1>3 DEF Callers

LEMMA PlaceDeletes ==
  ASSUME PlaceInv, NEW t \in Callers, pc[t] = "disconnect", app' = app,
         Call(t, "delete", "clear_netqw")
  PROVE  /\ PlaceInv' /\ pc'[t] = "delete"
         /\ \A u \in Callers \ {t} : pc'[u] = pc[u]
         /\ t = "app" => app # "connected"
  <1>1. /\ DOMAIN pc' = Callers /\ pc'[t] = "delete"
        /\ DOMAIN stack' = Callers /\ stack'[t] = <<"clear_netqw">> \o stack[t]
        /\ \A u \in Callers \ {t} : pc'[u] = pc[u] /\ stack'[u] = stack[u]
    BY CallIs DEF PlaceInv
  <1>2. CASE t = "app"
    <2>1. \/ app = "none" /\ stack[t] = <<"idle">>
          \/ app = "quit" /\ stack[t] = <<"set_quit", "idle">>
      BY <1>2
         DEF PlaceInv, AppPlace, Callers, Quitting, Disconnecting, Clearing, Deleting
    <2>2. \/ app = "none" /\ stack'[t] = <<"clear_netqw", "idle">>
          \/ app = "quit" /\ stack'[t] = <<"clear_netqw", "set_quit", "idle">>
      <3>1. /\ <<"clear_netqw">> \o <<"idle">> = <<"clear_netqw", "idle">>
            /\ <<"clear_netqw">> \o <<"set_quit", "idle">> = <<"clear_netqw", "set_quit", "idle">>
        BY Stacks
      <3> QED
        BY <1>1, <2>1, <3>1
    <2> QED
      BY <1>1, <1>2, <2>2 DEF PlaceInv, AppPlace, Callers, Deleting
  <1>3. CASE t = "client"
    <2>1. stack[t] = <<"set_quit", "ended">>
      BY <1>3
         DEF PlaceInv, ClientPlace, Callers, Quitting, Disconnecting, Clearing, Deleting,
             Loop, Over
    <2>2. stack'[t] = <<"clear_netqw", "set_quit", "ended">>
      BY <1>1, <2>1, Stacks
    <2> QED
      BY <1>1, <1>3, <2>2 DEF PlaceInv, ClientPlace, Callers, Deleting
  <1> QED
    BY <1>2, <1>3 DEF Callers

\* NetQW_Delete returns to where NetQW is to be cleared, or to QWC_Connect.
LEMMA PlaceFreed ==
  ASSUME PlaceInv, NEW t \in Callers, pc[t] = "free", app' = app, Return(t)
  PROVE  /\ PlaceInv'
         /\ \/ pc'[t] = "clear_netqw"
            \/ t = "app" /\ app = "connected" /\ pc'[t] = "not_started"
         /\ \A u \in Callers \ {t} : pc'[u] = pc[u]
  <1>1. /\ DOMAIN pc' = Callers /\ pc'[t] = Head(stack[t])
        /\ DOMAIN stack' = Callers /\ stack'[t] = Tail(stack[t])
        /\ \A u \in Callers \ {t} : pc'[u] = pc[u] /\ stack'[u] = stack[u]
    BY ReturnIs DEF PlaceInv
  <1>2. CASE t = "app"
    <2>1. \/ app = "none" /\ stack[t] = <<"clear_netqw", "idle">>
          \/ app = "connected" /\ stack[t] = <<"not_started", "idle">>
          \/ app = "quit" /\ stack[t] = <<"clear_netqw", "set_quit", "idle">>
      BY <1>2
         DEF PlaceInv, AppPlace, Callers, Quitting, Disconnecting, Clearing, Deleting
    <2>2. \/ app = "none" /\ pc'[t] = "clear_netqw" /\ stack'[t] = <<"idle">>
          \/ app = "connected" /\ pc'[t] = "not_started" /\ stack'[t] = <<"idle">>
          \/ app = "quit" /\ pc'[t] = "clear_netqw" /\ stack'[t] = <<"set_quit", "idle">>
      <3>1. /\ Head(<<"clear_netqw", "idle">>) = "clear_netqw"
            /\ Tail(<<"clear_netqw", "idle">>) = <<"idle">>
            /\ Head(<<"not_started", "idle">>) = "not_started"
            /\ Tail(<<"not_started", "idle">>) = <<"idle">>
            /\ Head(<<"clear_netqw", "set_quit", "idle">>) = "clear_netqw"
            /\ Tail(<<"clear_netqw", "set_quit", "idle">>) = <<"set_quit", "idle">>
        BY Stacks
      <3> QED
        BY <1>1, <2>1, <3>1
    <2> QED
      BY <1>1, <1>2, <2>2 DEF PlaceInv, AppPlace, Callers, Disconnecting, Clearing
  <1>3. CASE t = "client"
    <2>1. stack[t] = <<"clear_netqw", "set_quit", "ended">>
      BY <1>3
         DEF PlaceInv, ClientPlace, Callers, Quitting, Disconnecting, Clearing, Deleting,
             Loop, Over
    <2>2. pc'[t] = "clear_netqw" /\ stack'[t] = <<"set_quit", "ended">>
      BY <1>1, <2>1, Stacks
    <2> QED
      BY <1>1, <1>3, <2>2 DEF PlaceInv, ClientPlace, Callers, Disconnecting, Clearing
  <1> QED
    BY <1>2, <1>3 DEF Callers

\* QWC_Disconnect returns to the application, or to QWC_Quit.
LEMMA PlaceDisconnected ==
  ASSUME PlaceInv, NEW t \in Callers, pc[t] = "join_client", app' = app, Return(t)
  PROVE  /\ PlaceInv'
         /\ \/ pc'[t] = "set_quit"
            \/ t = "app" /\ app = "none" /\ pc'[t] = "idle"
         /\ \A u \in Callers \ {t} : pc'[u] = pc[u]
  <1>1. /\ DOMAIN pc' = Callers /\ pc'[t] = Head(stack[t])
        /\ DOMAIN stack' = Callers /\ stack'[t] = Tail(stack[t])
        /\ \A u \in Callers \ {t} : pc'[u] = pc[u] /\ stack'[u] = stack[u]
    BY ReturnIs DEF PlaceInv
  <1>2. CASE t = "app"
    <2>1. \/ app = "none" /\ stack[t] = <<"idle">>
          \/ app = "quit" /\ stack[t] = <<"set_quit", "idle">>
      BY <1>2
         DEF PlaceInv, AppPlace, Callers, Quitting, Disconnecting, Clearing, Deleting
    <2>2. \/ app = "none" /\ pc'[t] = "idle" /\ stack'[t] = << >>
          \/ app = "quit" /\ pc'[t] = "set_quit" /\ stack'[t] = <<"idle">>
      <3>1. /\ Head(<<"idle">>) = "idle" /\ Tail(<<"idle">>) = << >>
            /\ Head(<<"set_quit", "idle">>) = "set_quit"
            /\ Tail(<<"set_quit", "idle">>) = <<"idle">>
        BY Stacks
      <3> QED
        BY <1>1, <2>1, <3>1
    <2> QED
      BY <1>1, <1>2, <2>2 DEF PlaceInv, AppPlace, Callers, Quitting
  <1>3. CASE t = "client"
    <2>1. stack[t] = <<"set_quit", "ended">>
      BY <1>3
         DEF PlaceInv, ClientPlace, Callers, Quitting, Disconnecting, Clearing, Deleting,
             Loop, Over
    <2>2. pc'[t] = "set_quit" /\ stack'[t] = <<"ended">>
      BY <1>1, <2>1, Stacks
    <2> QED
      BY <1>1, <1>3, <2>2 DEF PlaceInv, ClientPlace, Callers, Quitting
  <1> QED
    BY <1>2, <1>3 DEF Callers

LEMMA PlaceQuits ==
  ASSUME PlaceInv, NEW t \in Callers, pc[t] = "quit", app' = app,
         Call(t, "disconnect", "set_quit")
  PROVE  /\ PlaceInv' /\ pc'[t] = "disconnect"
         /\ \A u \in Callers \ {t} : pc'[u] = pc[u]
  <1>1. /\ DOMAIN pc' = Callers /\ pc'[t] = "disconnect"
        /\ DOMAIN stack' = Callers /\ stack'[t] = <<"set_quit">> \o stack[t]
        /\ \A u \in Callers \ {t} : pc'[u] = pc[u] /\ stack'[u] = stack[u]
    BY CallIs DEF PlaceInv
  <1>2. CASE t = "app"
    <2>1. app = "quit" /\ stack[t] = <<"idle">>
      BY <1>2
         DEF PlaceInv, AppPlace, Callers, Quitting, Disconnecting, Clearing, Deleting
    <2>2. stack'[t] = <<"set_quit", "idle">>
      BY <1>1, <2>1, Stacks
    <2> QED
      BY <1>1, <1>2, <2>1, <2>2 DEF PlaceInv, AppPlace, Callers, Disconnecting
  <1>3. CASE t = "client"
    <2>1. stack[t] = <<"ended">>
      BY <1>3
         DEF PlaceInv, ClientPlace, Callers, Quitting, Disconnecting, Clearing, Deleting,
             Loop, Over
    <2>2. stack'[t] = <<"set_quit", "ended">>
      BY <1>1, <2>1, Stacks
    <2> QED
      BY <1>1, <1>3, <2>2 DEF PlaceInv, ClientPlace, Callers, Disconnecting
  <1> QED
    BY <1>2, <1>3 DEF Callers

\* QWC_Quit returns to the application, or the client's thread ends.
LEMMA PlaceDestroyed ==
  ASSUME PlaceInv, NEW t \in Callers, pc[t] = "destroy", app' = app, Return(t)
  PROVE  /\ PlaceInv'
         /\ \/ t = "client" /\ pc'[t] = "ended"
            \/ t = "app" /\ app = "quit" /\ pc'[t] = "idle"
         /\ \A u \in Callers \ {t} : pc'[u] = pc[u]
  <1>1. /\ DOMAIN pc' = Callers /\ pc'[t] = Head(stack[t])
        /\ DOMAIN stack' = Callers /\ stack'[t] = Tail(stack[t])
        /\ \A u \in Callers \ {t} : pc'[u] = pc[u] /\ stack'[u] = stack[u]
    BY ReturnIs DEF PlaceInv
  <1>2. CASE t = "app"
    <2>1. app = "quit" /\ stack[t] = <<"idle">>
      BY <1>2
         DEF PlaceInv, AppPlace, Callers, Quitting, Disconnecting, Clearing, Deleting
    <2>2. pc'[t] = "idle" /\ stack'[t] = << >>
      BY <1>1, <2>1, Stacks
    <2> QED
      BY <1>1, <1>2, <2>1, <2>2 DEF PlaceInv, AppPlace, Callers
  <1>3. CASE t = "client"
    <2>1. stack[t] = <<"ended">>
      BY <1>3
         DEF PlaceInv, ClientPlace, Callers, Quitting, Disconnecting, Clearing, Deleting,
             Loop, Over
    <2>2. pc'[t] = "ended" /\ stack'[t] = << >>
      BY <1>1, <2>1, Stacks
    <2> QED
      BY <1>1, <1>3, <2>2 DEF PlaceInv, ClientPlace, Callers, Over
  <1> QED
    BY <1>2, <1>3 DEF Callers

-----------------------------------------------------------------------------
(* NetQW_Delete. *)

LEMMA ValidIs ==
  ASSUME IInv, NEW p \in 0 .. Len(net), Valid(p)
  PROVE  p \in DOMAIN net /\ Sound(net[p]) /\ net[p].live /\ p = Len(net)
  <1>1. p \in DOMAIN net
    BY NetIndices DEF Valid, Null, IInv
  <1> QED
    BY <1>1 DEF Valid, IInv, NetInv, FreedInv

\* A step of it before NetQW is freed.
LEMMA DeleteGoesOn ==
  ASSUME IInv, NEW t \in Callers, pc[t] \in Deleting, NEW label \in Deleting, Goto(t, label),
         NEW n, Valid(ptr[t]), net' = [net EXCEPT ![ptr[t]] = n],
         Sound(n), n.live, Settled(net[ptr[t]], n),
         label \in {"delete_mutex", "free"} =>
           /\ n.thread \in Gone /\ n.held \subseteq MutexThings(platform) \cup Forgotten(n),
         label = "free" => n.held \subseteq Forgotten(n),
         UNCHANGED <<platform, qwc, ptr, app>>
  PROVE  IInv'
  <1> USE DEF IInv
  <1>1. ptr[t] \in DOMAIN net /\ net[ptr[t]].live /\ ptr[t] # Null
    BY ValidIs DEF HandInv, Hand, Valid
  <1>2. /\ NetInv' /\ NetGrows /\ Len(net') = Len(net) /\ DOMAIN net' = DOMAIN net
        /\ net'[ptr[t]] = n
        /\ \A q \in DOMAIN net : q # ptr[t] => net'[q] = net[q]
    BY <1>1, Touched
  <1>3. PlaceInv' /\ pc'[t] = label /\ \A u \in Callers \ {t} : pc'[u] = pc[u]
    BY PlaceMoves
  <1>4. Hand(t)'
    BY <1>1, <1>2, <1>3 DEF Hand, HandInv, Forgotten
  <1>5. \A u \in Callers \ {t} : Hand(u)'
    BY <1>2, <1>3, HandStays DEF HandInv
  <1>6. HandInv'
    BY <1>4, <1>5 DEF HandInv
  <1>7. QwcInv'
    BY <1>2 DEF QwcInv
  <1>8. ClientInv'
    BY <1>3 DEF ClientInv, Fresh, NoClient, Callers, Deleting, Loop, Over
  <1>9. \A q \in DOMAIN net : net'[q].live <=> net[q].live
    BY <1>1, <1>2
  <1>10. FreedInv'
    BY <1>2, <1>3, <1>9 DEF FreedInv, AllFreed, Callers, Deleting, Clearing
  <1> QED
    BY <1>2, <1>3, <1>6, <1>7, <1>8, <1>10

LEMMA AskToQuitStep ==
  ASSUME IInv, NEW t \in Callers, AskToQuit(t)
  PROVE  IInv'
  <1>1. CASE ~Valid(ptr[t])
    BY <1>1, Unchanged DEF AskToQuit, Broken
  <1>2. CASE Valid(ptr[t])
    <2>1. ptr[t] \in DOMAIN net /\ Sound(net[ptr[t]]) /\ net[ptr[t]].live
      BY <1>2, ValidIs DEF IInv, HandInv, Hand
    <2>2. PICK n : n = [net[ptr[t]] EXCEPT !.quit = TRUE]
      OBVIOUS
    <2>3. Sound(n) /\ (n.live <=> net[ptr[t]].live) /\ Settled(net[ptr[t]], n)
      BY <2>1, <2>2, QuitSound
    <2>4. /\ net' = [net EXCEPT ![ptr[t]] = n] /\ pc[t] = "delete" /\ Goto(t, "join_net")
          /\ UNCHANGED <<platform, qwc, ptr, app>>
      BY <1>2, <2>2 DEF AskToQuit, At
    <2> QED
      BY <1>2, <2>1, <2>3, <2>4, DeleteGoesOn DEF Deleting
  <1> QED
    BY <1>1, <1>2

LEMMA JoinNetStep ==
  ASSUME IInv, NEW t \in Callers, JoinNet(t)
  PROVE  IInv'
  <1>1. \A what : Broken(what) => IInv'
    BY Unchanged DEF Broken
  <1>2. CASE Valid(ptr[t]) /\ net[ptr[t]].thread # "joined"
    <2>1. /\ ptr[t] \in DOMAIN net /\ Sound(net[ptr[t]]) /\ net[ptr[t]].live
          /\ platform \in Systems
      BY <1>2, ValidIs DEF IInv, HandInv, Hand, NetInv
    <2>2. PICK n \in NetJoined(t, net[ptr[t]]) :
            /\ net' = [net EXCEPT ![ptr[t]] = n] /\ Goto(t, "delete_mutex")
            /\ UNCHANGED <<platform, qwc, ptr, app>>
      BY <1>2 DEF JoinNet
    <2>3. /\ Sound(n) /\ n.live /\ Settled(net[ptr[t]], n) /\ n.thread \in Gone
          /\ n.held \subseteq MutexThings(platform) \cup Forgotten(n)
      BY <1>2, <2>1, <2>2, JoinSound
    <2>4. pc[t] = "join_net"
      BY DEF JoinNet, At
    <2> QED
      BY <1>2, <2>2, <2>3, <2>4, DeleteGoesOn DEF Deleting
  <1> QED
    BY <1>1, <1>2 DEF JoinNet

LEMMA DeleteMutexStep ==
  ASSUME IInv, NEW t \in Callers, DeleteMutex(t)
  PROVE  IInv'
  <1>1. CASE ~Valid(ptr[t])
    BY <1>1, Unchanged DEF DeleteMutex, Broken
  <1>2. CASE Valid(ptr[t])
    <2>1. /\ ptr[t] \in DOMAIN net /\ Sound(net[ptr[t]]) /\ net[ptr[t]].live
          /\ platform \in Systems /\ pc[t] = "delete_mutex"
      BY <1>2, ValidIs DEF IInv, HandInv, Hand, NetInv, DeleteMutex, At
    <2>2. /\ net[ptr[t]].thread \in Gone
          /\ net[ptr[t]].held \subseteq MutexThings(platform) \cup Forgotten(net[ptr[t]])
      BY <2>1 DEF IInv, HandInv, Hand
    <2>3. PICK n : n = [net[ptr[t]] EXCEPT !.held = Sys_Thread_DeleteMutex(platform, @)]
      OBVIOUS
    <2>4. /\ Sound(n) /\ n.live /\ Settled(net[ptr[t]], n) /\ n.thread \in Gone
          /\ n.held \subseteq Forgotten(n)
      BY <2>1, <2>2, <2>3, MutexSound
    <2>5. /\ net' = [net EXCEPT ![ptr[t]] = n] /\ Goto(t, "free")
          /\ UNCHANGED <<platform, qwc, ptr, app>>
      BY <1>2, <2>3 DEF DeleteMutex
    <2> QED
      BY <1>2, <2>1, <2>4, <2>5, DeleteGoesOn DEF Deleting
  <1> QED
    BY <1>1, <1>2

LEMMA FreeNetStep ==
  ASSUME IInv, NEW t \in Callers, FreeNet(t)
  PROVE  IInv'
  <1> USE DEF IInv
  <1>1. CASE ~Valid(ptr[t])
    BY <1>1, Unchanged DEF FreeNet, Broken
  <1>2. CASE Valid(ptr[t])
    <2>1. /\ ptr[t] \in DOMAIN net /\ Sound(net[ptr[t]]) /\ net[ptr[t]].live
          /\ ptr[t] = Len(net) /\ platform \in Systems /\ pc[t] = "free"
      BY <1>2, ValidIs DEF HandInv, Hand, NetInv, FreeNet, At
    <2>2. net[ptr[t]].thread \in Gone /\ net[ptr[t]].held \subseteq Forgotten(net[ptr[t]])
      BY <2>1 DEF HandInv, Hand
    <2>3. PICK n : n = Freed(net[ptr[t]])
      OBVIOUS
    <2>4. Sound(n) /\ ~n.live /\ Settled(net[ptr[t]], n)
      BY <2>1, <2>2, <2>3, FreedSound DEF Sound
    <2>5. /\ net' = [net EXCEPT ![ptr[t]] = n] /\ Return(t)
          /\ UNCHANGED <<platform, qwc, ptr, app>>
      BY <1>2, <2>3 DEF FreeNet
    <2>6. /\ NetInv' /\ NetGrows /\ Len(net') = Len(net) /\ DOMAIN net' = DOMAIN net
          /\ net'[ptr[t]] = n
          /\ \A q \in DOMAIN net : q # ptr[t] => net'[q] = net[q]
      BY <2>1, <2>4, <2>5, Touched
    <2>7. /\ PlaceInv'
          /\ \/ pc'[t] = "clear_netqw"
             \/ t = "app" /\ app = "connected" /\ pc'[t] = "not_started"
          /\ \A u \in Callers \ {t} : pc'[u] = pc[u]
      BY <2>1, <2>5, PlaceFreed
    <2>8. HandInv'
      <3>1. \A u \in Callers :
              pc'[u] \in {"delete_mutex", "free"} => pc'[u] = pc[u]
        BY <2>7
      <3> QED
        BY <2>5, <2>6, <3>1, HandStays DEF HandInv
    <2>9. QwcInv'
      BY <2>5, <2>6 DEF QwcInv
    <2>10. ClientInv'
      BY <2>1, <2>5, <2>7 DEF ClientInv, Fresh, NoClient, Callers, Deleting, Loop, Over
    <2>11. AllFreed'
      BY <2>1, <2>4, <2>6 DEF AllFreed, FreedInv
    <2>12. FreedInv'
      BY <2>6, <2>11 DEF FreedInv, AllFreed
    <2> QED
      BY <2>6, <2>7, <2>8, <2>9, <2>10, <2>12
  <1> QED
    BY <1>1, <1>2

-----------------------------------------------------------------------------
(* QWC_Disconnect and QWC_Quit. *)

LEMMA CallDeleteStep ==
  ASSUME IInv, NEW t \in Callers, CallDelete(t)
  PROVE  IInv'
  <1> USE DEF IInv
  <1>1. /\ pc[t] = "disconnect" /\ ptr' = [ptr EXCEPT ![t] = qwc.netqw]
        /\ Call(t, "delete", "clear_netqw") /\ UNCHANGED <<platform, qwc, net, app>>
    BY DEF CallDelete, At
  <1>2. /\ PlaceInv' /\ pc'[t] = "delete" /\ \A u \in Callers \ {t} : pc'[u] = pc[u]
        /\ t = "app" => app # "connected"
    BY <1>1, PlaceDeletes
  <1>3. NetInv' /\ NetGrows
    BY <1>1, Untouched
  <1>4. DOMAIN ptr' = Callers /\ Hand(t)'
    BY <1>1, <1>2 DEF HandInv, Hand, QwcInv
  <1>5. ASSUME NEW u \in Callers, u # t PROVE Hand(u)'
    <2>1. ptr'[u] = ptr[u] /\ pc'[u] = pc[u]
      BY <1>1, <1>2, <1>5 DEF HandInv
    <2> QED
      BY <1>3, <2>1, HandStays DEF HandInv
  <1>6. HandInv'
    BY <1>4, <1>5 DEF HandInv
  <1>7. QwcInv'
    BY <1>1 DEF QwcInv
  <1>8. ClientInv'
    BY <1>1, <1>2 DEF ClientInv, Fresh, NoClient, Callers, Deleting, Loop, Over
  <1>9. FreedInv'
    BY <1>1, <1>2 DEF FreedInv, AllFreed, Callers, Clearing
  <1> QED
    BY <1>2, <1>3, <1>6, <1>7, <1>8, <1>9

\* The assignments of QWC_Disconnect and QWC_Quit.
LEMMA AssignStep ==
  ASSUME IInv, NEW t \in Callers, NEW label, NEW from, NEW field, NEW value,
         \/ from = "clear_netqw" /\ field = "netqw" /\ value = Null /\ label = "set_idle"
         \/ from = "set_idle" /\ field = "state" /\ value = qwc_state_idle /\ label = "stop"
         \/ from = "stop" /\ field = "run_thread" /\ value = FALSE /\ label = "join_client"
         \/ from = "set_quit" /\ field = "quit" /\ value = TRUE /\ label = "destroy",
         Assign(t, from, field, value, label)
  PROVE  IInv'
  <1> USE DEF IInv
  <1>1. /\ pc[t] = from /\ Set(field, value) /\ Goto(t, label)
        /\ UNCHANGED <<platform, net, ptr, app>>
    BY DEF Assign, At
  <1>2. PlaceInv' /\ pc'[t] = label /\ \A u \in Callers \ {t} : pc'[u] = pc[u]
    BY <1>1, PlaceMoves DEF Disconnecting, Clearing, Quitting
  <1>3. NetInv' /\ NetGrows
    BY <1>1, Untouched
  <1>4. HandInv'
    <2>1. \A u \in Callers : pc'[u] \in {"delete_mutex", "free"} => pc'[u] = pc[u]
      BY <1>2
    <2> QED
      BY <1>1, <1>3, <2>1, HandStays DEF HandInv
  <1>5. /\ qwc' \in QWC /\ qwc'.thread = qwc.thread
        /\ qwc'.netdata = qwc.netdata /\ qwc'.held = qwc.held
        /\ qwc'.abort = qwc.abort
        /\ qwc'.netqw = IF field = "netqw" THEN Null ELSE qwc.netqw
    <2>1. qwc \in QWC /\ qwc' = [qwc EXCEPT ![field] = value]
      BY <1>1 DEF QwcInv, Set
    <2>2. CASE field = "netqw" /\ value = Null
      BY <2>1, <2>2 DEF QWC, Null
    <2>3. CASE field = "state" /\ value = qwc_state_idle
      BY <2>1, <2>3 DEF QWC, qwc_state_idle
    <2>4. CASE field = "run_thread" /\ value = FALSE
      BY <2>1, <2>4 DEF QWC
    <2>5. CASE field = "quit" /\ value = TRUE
      BY <2>1, <2>5 DEF QWC
    <2> QED
      BY <2>2, <2>3, <2>4, <2>5
  <1>6. QwcInv'
    <2>1. 0 \in 0 .. Len(net)
      BY NetIndices
    <2> QED
      BY <1>1, <1>5, <2>1 DEF QwcInv, Null
  <1>7. AllFreed /\ (AllFreed)'
    BY <1>1 DEF FreedInv, AllFreed, Clearing
  <1>8. ClientInv'
    BY <1>1, <1>2, <1>5 DEF ClientInv, Fresh, NoClient, Callers, Deleting, Loop, Over
  <1>9. FreedInv'
    BY <1>7 DEF FreedInv, AllFreed
  <1> QED
    BY <1>2, <1>3, <1>4, <1>6, <1>8, <1>9

LEMMA JoinClientStep ==
  ASSUME IInv, NEW t \in Callers, JoinClient(t)
  PROVE  IInv'
  <1> USE DEF IInv
  <1>1. CASE ~qwc.thread /\ platform # "null"
    BY <1>1, Unchanged DEF JoinClient, Broken
  <1>2. CASE ~(~qwc.thread /\ platform # "null")
    <2>1. PICK ended \in BOOLEAN : ended <=> pc["client"] = "ended"
      OBVIOUS
    <2>2. PICK join : join = Sys_Thread_DeleteThread(platform, t, "client", ended)
      OBVIOUS
    <2>3. ended = (pc["client"] = "ended")
      BY <2>1
    <2>4. /\ pc[t] = "join_client" /\ join.returns
          /\ qwc' = [qwc EXCEPT !.thread = FALSE, !.held = @ \ join.frees]
          /\ Return(t) /\ UNCHANGED <<platform, net, ptr, app>>
      BY <1>2, <2>2, <2>3 DEF JoinClient, At
    <2>5. /\ ended \/ platform = "null" \/ t = "client"
          /\ join.frees = ThreadThings(platform)
      BY <2>2, <2>4, Joining DEF NetInv
    <2>6. /\ PlaceInv'
          /\ \/ pc'[t] = "set_quit"
             \/ t = "app" /\ app = "none" /\ pc'[t] = "idle"
          /\ \A u \in Callers \ {t} : pc'[u] = pc[u]
      BY <2>4, PlaceDisconnected
    <2>7. NetInv' /\ NetGrows
      BY <2>4, Untouched
    <2>8. HandInv'
      <3>1. \A u \in Callers : pc'[u] \in {"delete_mutex", "free"} => pc'[u] = pc[u]
        BY <2>6
      <3> QED
        BY <2>4, <2>7, <3>1, HandStays DEF HandInv
    <2>9. PICK held \in SUBSET Things : held = qwc.held \ ThreadThings(platform)
      BY DEF QwcInv, QWC
    <2>10. qwc' = [qwc EXCEPT !.thread = FALSE, !.held = held]
      BY <2>4, <2>5, <2>9
    <2>11. /\ qwc' \in QWC /\ ~qwc'.thread
           /\ qwc'.netdata = qwc.netdata /\ qwc'.held = held
           /\ qwc'.abort = qwc.abort /\ qwc'.netqw = qwc.netqw
      BY <2>10 DEF QwcInv, QWC
    <2>12. QwcInv'
      BY <2>4, <2>9, <2>11 DEF QwcInv
    <2>13. AllFreed /\ (AllFreed)'
      BY <2>4 DEF FreedInv, AllFreed, Clearing
    <2>14. t = "app" => pc["client"] \in Over
      BY <2>1, <2>5 DEF ClientInv, Over
    <2>15. ClientInv'
      <3>1. CASE t = "app"
        <4>1. NoClient'
          BY <2>6, <2>11, <2>14, <3>1 DEF NoClient, Callers
        <4> QED
          BY <2>4, <2>6, <2>11, <2>14, <3>1, <4>1
             DEF ClientInv, Fresh, Callers, Deleting, Loop, Over
      <3>2. CASE t = "client"
        BY <2>4, <2>6, <2>11, <3>2
           DEF ClientInv, Fresh, NoClient, Callers, Deleting, Loop, Over
      <3> QED
        BY <3>1, <3>2 DEF Callers
    <2>16. FreedInv'
      BY <2>13 DEF FreedInv, AllFreed
    <2> QED
      BY <2>6, <2>7, <2>8, <2>12, <2>15, <2>16
  <1> QED
    BY <1>1, <1>2

LEMMA QuitDisconnectsStep ==
  ASSUME IInv, NEW t \in Callers, QuitDisconnects(t)
  PROVE  IInv'
  <1> USE DEF IInv
  <1>1. pc[t] = "quit" /\ UNCHANGED <<platform, qwc, net, ptr, app>>
    BY DEF QuitDisconnects, At
  <1>2. NetInv' /\ NetGrows
    BY <1>1, Untouched
  <1>3. QwcInv'
    BY <1>1 DEF QwcInv
  <1>4. CASE qwc.netqw # Null
    <2>1. PlaceInv' /\ pc'[t] = "disconnect" /\ \A u \in Callers \ {t} : pc'[u] = pc[u]
      BY <1>1, <1>4, PlaceQuits DEF QuitDisconnects
    <2>2. HandInv'
      <3>1. \A u \in Callers : pc'[u] \in {"delete_mutex", "free"} => pc'[u] = pc[u]
        BY <2>1
      <3> QED
        BY <1>1, <1>2, <3>1, HandStays DEF HandInv
    <2>3. ClientInv'
      BY <1>1, <2>1 DEF ClientInv, Fresh, NoClient, Callers, Deleting, Loop, Over
    <2>4. FreedInv'
      BY <1>1, <2>1 DEF FreedInv, AllFreed, Callers, Clearing
    <2> QED
      BY <1>2, <1>3, <2>1, <2>2, <2>3, <2>4
  <1>5. CASE qwc.netqw = Null
    <2>1. PlaceInv' /\ pc'[t] = "set_quit" /\ \A u \in Callers \ {t} : pc'[u] = pc[u]
      <3>1. Goto(t, "set_quit")
        BY <1>5 DEF QuitDisconnects
      <3> QED
        BY <1>1, <3>1, PlaceMoves DEF Quitting
    <2>2. HandInv'
      <3>1. \A u \in Callers : pc'[u] \in {"delete_mutex", "free"} => pc'[u] = pc[u]
        BY <2>1
      <3> QED
        BY <1>1, <1>2, <3>1, HandStays DEF HandInv
    <2>3. AllFreed
      <3>1. \A p \in DOMAIN net : p # Null
        BY NetIndices DEF Null
      <3> QED
        BY <1>5, <3>1 DEF AllFreed, FreedInv
    <2>4. (AllFreed)'
      BY <1>1, <2>3 DEF AllFreed
    <2>5. ClientInv'
      BY <1>1, <1>5, <2>1 DEF ClientInv, Fresh, NoClient, Callers, Deleting, Loop, Over
    <2>6. FreedInv'
      BY <2>4 DEF FreedInv, AllFreed
    <2> QED
      BY <1>2, <1>3, <2>1, <2>2, <2>5, <2>6
  <1> QED
    BY <1>4, <1>5

LEMMA DestroyStep ==
  ASSUME IInv, NEW t \in Callers, Destroy(t)
  PROVE  IInv'
  <1> USE DEF IInv
  <1>1. CASE NET_ShutdownFault(t) # NoFault
    BY <1>1, Unchanged DEF Destroy, Broken
  <1>2. CASE NET_ShutdownFault(t) = NoFault
    <2>1. /\ pc[t] = "destroy" /\ qwc' = [NET_Shutdown EXCEPT !.run_thread = FALSE]
          /\ Return(t) /\ UNCHANGED <<platform, net, ptr, app>>
      BY <1>2 DEF Destroy, At
    <2>2. /\ PlaceInv'
          /\ \/ t = "client" /\ pc'[t] = "ended"
             \/ t = "app" /\ app = "quit" /\ pc'[t] = "idle"
          /\ \A u \in Callers \ {t} : pc'[u] = pc[u]
      BY <2>1, PlaceDestroyed
    <2>3. NetInv' /\ NetGrows
      BY <2>1, Untouched
    <2>4. HandInv'
      <3>1. \A u \in Callers : pc'[u] \in {"delete_mutex", "free"} => pc'[u] = pc[u]
        BY <2>2
      <3> QED
        BY <2>1, <2>3, <3>1, HandStays DEF HandInv
    <2>5. PICK held \in SUBSET Things : held = qwc.held \ NetThings(platform)
      BY DEF QwcInv, QWC
    <2>6. /\ qwc' \in QWC /\ ~qwc'.netdata
          /\ qwc'.thread = qwc.thread /\ qwc'.held = held
          /\ qwc'.abort = qwc.abort /\ qwc'.netqw = qwc.netqw
      <3>1. qwc.held \ Sys_Net_Shutdown(platform).frees = held
        BY <2>5, GivenBack DEF NetInv
      <3>2. PICK gone : gone = [qwc EXCEPT !.netdata = FALSE, !.held = held]
        OBVIOUS
      <3>3. qwc' = [gone EXCEPT !.run_thread = FALSE]
        BY <2>1, <3>1, <3>2 DEF NET_Shutdown
      <3> QED
        BY <3>2, <3>3 DEF QwcInv, QWC
    <2>7. QwcInv'
      BY <2>1, <2>5, <2>6 DEF QwcInv
    <2>8. AllFreed /\ (AllFreed)'
      BY <2>1 DEF FreedInv, AllFreed, Clearing
    <2>9. ClientInv'
      BY <2>1, <2>2, <2>6 DEF ClientInv, Fresh, NoClient, Callers, Deleting, Loop, Over
    <2>10. FreedInv'
      BY <2>8 DEF FreedInv, AllFreed
    <2> QED
      BY <2>2, <2>3, <2>4, <2>7, <2>9, <2>10
  <1> QED
    BY <1>1, <1>2

LEMMA ProceduresStep ==
  ASSUME IInv, NEW t \in Callers, Procedures(t)
  PROVE  IInv'
  <1>1. CASE ClearPointers(t)
    BY <1>1, AssignStep DEF ClearPointers
  <1>2. CASE SetQuit(t)
    BY <1>2, AssignStep DEF SetQuit
  <1> QED
    BY <1>1, <1>2, AskToQuitStep, JoinNetStep, DeleteMutexStep, FreeNetStep,
       CallDeleteStep, JoinClientStep, QuitDisconnectsStep, DestroyStep DEF Procedures

-----------------------------------------------------------------------------
(* The application. *)

LEMMA CreateNetStep ==
  ASSUME IInv, CreateNet
  PROVE  IInv'
  <1> USE DEF IInv
  <1>1. /\ pc["app"] = "connect" /\ UNCHANGED <<platform, ptr, app>>
        /\ platform \in Systems
    BY DEF CreateNet, At, NetInv
  <1>2. PICK host \in Hosts \cup {Server} :
          \E n \in NetQW_Create(host) :
            /\ net' = Append(net, n)
            /\ Set("netqw", IF n.live THEN Len(net) + 1 ELSE Null)
            /\ IF n.live THEN Goto("app", "start") ELSE Return("app")
    BY DEF CreateNet
  <1>3. PICK n \in NetQW_Create(host) :
          /\ net' = Append(net, n)
          /\ Set("netqw", IF n.live THEN Len(net) + 1 ELSE Null)
          /\ IF n.live THEN Goto("app", "start") ELSE Return("app")
    BY <1>2
  <1>4. Sound(n)
    BY <1>1, NewSound
  <1>5. /\ NetInv' /\ NetGrows /\ Len(net') = Len(net) + 1
        /\ DOMAIN net' = DOMAIN net \cup {Len(net) + 1} /\ net'[Len(net) + 1] = n
        /\ \A q \in DOMAIN net : net'[q] = net[q] /\ q # Len(net) + 1
    BY <1>1, <1>3, <1>4, Appended
  <1>6. PICK new \in Nat : new = Len(net) + 1 /\ new # 0 /\ new \in 0 .. new /\ 0 \in 0 .. new
    <2>1. PICK k \in Nat : k = Len(net)
      BY NetIndices
    <2>2. k + 1 \in Nat /\ k + 1 # 0 /\ k + 1 \in 0 .. k + 1 /\ 0 \in 0 .. k + 1
      OBVIOUS
    <2> QED
      BY <2>1, <2>2
  <1>7. app = "connected" /\ stack["app"] = <<"idle">>
    BY <1>1 DEF PlaceInv, AppPlace, Disconnecting, Clearing, Deleting, Quitting
  <1>8. /\ pc'["client"] = pc["client"] /\ stack'["client"] = stack["client"]
        /\ DOMAIN pc' = Callers /\ DOMAIN stack' = Callers
        /\ \/ n.live /\ pc'["app"] = "start" /\ stack'["app"] = <<"idle">>
           \/ ~n.live /\ pc'["app"] = "idle" /\ stack'["app"] = << >>
    <2>1. CASE n.live
      BY <1>3, <1>7, <2>1, GotoIs DEF PlaceInv, Callers
    <2>2. CASE ~n.live
      <3>1. Return("app") /\ Head(<<"idle">>) = "idle" /\ Tail(<<"idle">>) = << >>
        BY <1>3, <2>2, Stacks
      <3> QED
        BY <1>7, <2>2, <3>1, ReturnIs DEF PlaceInv, Callers
    <2> QED
      BY <2>1, <2>2
  <1>9. PlaceInv'
    BY <1>1, <1>7, <1>8 DEF PlaceInv, AppPlace
  <1>10. HandInv'
    <2>1. \A u \in Callers : pc'[u] \in {"delete_mutex", "free"} => pc'[u] = pc[u]
      BY <1>8 DEF Callers
    <2> QED
      BY <1>1, <1>5, <2>1, HandStays DEF HandInv
  <1>11. /\ qwc' \in QWC /\ qwc'.thread = qwc.thread
         /\ qwc'.netdata = qwc.netdata /\ qwc'.held = qwc.held
         /\ qwc'.abort = qwc.abort /\ qwc'.netqw = IF n.live THEN new ELSE 0
    BY <1>3, <1>6 DEF QwcInv, QWC, Set, Null
  <1>12. QwcInv'
    BY <1>1, <1>5, <1>6, <1>11 DEF QwcInv
  <1>13. NoClient /\ NoClient'
    BY <1>1, <1>8, <1>11 DEF ClientInv, Fresh, NoClient
  <1>14. ClientInv'
    BY <1>1, <1>6, <1>7, <1>8, <1>11, <1>13
       DEF ClientInv, NoClient, Null, Over, Loop
  <1>15. FreedInv'
    <2>1. \A p \in DOMAIN net : ~net[p].live
      BY <1>1 DEF FreedInv, AllFreed
    <2>2. \A p \in DOMAIN net' : net'[p].live => p = new /\ n.live
      BY <1>5, <1>6, <2>1
    <2>3. ~n.live => (AllFreed)'
      BY <2>2 DEF AllFreed
    <2>4. pc'["client"] \notin Clearing \cup {"set_quit", "destroy"}
      BY <1>8, <1>13 DEF NoClient, Over, Clearing
    <2> QED
      BY <1>5, <1>6, <1>7, <1>8, <1>11, <2>2, <2>3, <2>4, <1>1
         DEF FreedInv, Callers, Clearing
  <1> QED
    BY <1>5, <1>9, <1>10, <1>12, <1>14, <1>15

LEMMA StartClientStep ==
  ASSUME IInv, StartClient
  PROVE  IInv'
  <1> USE DEF IInv
  <1>1. /\ pc["app"] = "start" /\ UNCHANGED <<platform, net, app>>
        /\ platform \in Systems
    BY DEF StartClient, At, NetInv
  <1>2. PICK thread \in Sys_Thread_CreateThread(platform) :
          /\ qwc' = [qwc EXCEPT !.state = QWC_CONNECTING, !.run_thread = TRUE,
                                !.thread = (thread # {}), !.held = @ \cup thread]
          /\ IF thread # {}
             THEN /\ pc' = [pc EXCEPT !["app"] = Head(stack["app"]), !["client"] = "top"]
                  /\ stack' = [stack EXCEPT !["app"] = Tail(@)]
                  /\ UNCHANGED ptr
             ELSE /\ ptr' = [ptr EXCEPT !["app"] = qwc.netqw]
                  /\ Call("app", "delete", "not_started")
    BY DEF StartClient
  <1>3. thread = ThreadThings(platform) \/ thread = {}
    BY <1>1, <1>2, ThreadsOf
  <1>4. NetInv' /\ NetGrows
    BY <1>1, Untouched
  <1>5. /\ app = "connected" /\ stack["app"] = <<"idle">>
        /\ NoClient /\ stack["client"] = << >> /\ qwc.netqw # Null
    <2>1. app = "connected" /\ stack["app"] = <<"idle">> /\ NoClient /\ qwc.netqw # Null
      BY <1>1 DEF PlaceInv, AppPlace, Disconnecting, Clearing, Deleting, Quitting,
                  ClientInv, Fresh
    <2> QED
      BY <2>1 DEF NoClient, PlaceInv, ClientPlace, Disconnecting, Clearing, Deleting,
                  Quitting, Over
  <1>6. PICK held \in SUBSET Things : held = qwc.held \cup thread
    BY <1>1, <1>3, ThingsAre DEF QwcInv, QWC
  <1>7. PICK got \in BOOLEAN : got <=> thread # {}
    OBVIOUS
  <1>8. /\ qwc' \in QWC /\ (qwc'.thread <=> thread # {})
        /\ qwc'.netdata = qwc.netdata /\ qwc'.held = held
        /\ qwc'.abort = qwc.abort /\ qwc'.netqw = qwc.netqw
    <2>1. qwc' = [qwc EXCEPT !.state = QWC_CONNECTING, !.run_thread = TRUE,
                             !.thread = got, !.held = held]
      <3>1. got = (thread # {})
        BY <1>7
      <3> QED
        BY <1>2, <1>6, <3>1
    <2> QED
      BY <1>7, <2>1 DEF QwcInv, QWC, QWC_CONNECTING
  <1>9. QwcInv'
    <2>1. qwc.held \subseteq NetThings(platform)
      BY <1>5 DEF QwcInv, NoClient
    <2> QED
      BY <1>1, <1>3, <1>6, <1>8, <2>1 DEF QwcInv
  <1>10. CASE thread # {}
    <2>1. /\ DOMAIN pc' = Callers /\ pc'["app"] = "idle" /\ pc'["client"] = "top"
          /\ DOMAIN stack' = Callers /\ stack'["app"] = << >> /\ stack'["client"] = << >>
          /\ ptr' = ptr
      <3>1. Head(<<"idle">>) = "idle" /\ Tail(<<"idle">>) = << >>
        BY Stacks
      <3> QED
        BY <1>2, <1>5, <1>10, <3>1 DEF PlaceInv, Callers
    <2>2. PlaceInv'
      BY <1>1, <1>5, <2>1 DEF PlaceInv, AppPlace, ClientPlace, Loop
    <2>3. HandInv'
      <3>1. \A u \in Callers : pc'[u] \in {"delete_mutex", "free"} => pc'[u] = pc[u]
        BY <2>1 DEF Callers
      <3> QED
        BY <1>4, <2>1, <3>1, HandStays DEF HandInv
    <2>4. platform # "null"
      BY <1>1, <1>3, <1>10, ThingsAre
    <2>5. ClientInv'
      BY <1>1, <1>5, <1>8, <2>1, <2>4 DEF ClientInv, Fresh, Deleting, Loop, Over
    <2>6. FreedInv'
      BY <1>1, <1>5, <1>8, <2>1 DEF FreedInv, AllFreed, Callers, Clearing
    <2> QED
      BY <1>4, <1>9, <2>2, <2>3, <2>5, <2>6
  <1>11. CASE thread = {}
    <2>1. /\ DOMAIN pc' = Callers /\ pc'["app"] = "delete" /\ pc'["client"] = pc["client"]
          /\ DOMAIN stack' = Callers /\ stack'["app"] = <<"not_started", "idle">>
          /\ stack'["client"] = stack["client"]
      <3>1. <<"not_started">> \o <<"idle">> = <<"not_started", "idle">>
        BY Stacks
      <3> QED
        BY <1>2, <1>5, <1>11, <3>1, CallIs DEF PlaceInv, Callers
    <2>2. PlaceInv'
      BY <1>1, <1>5, <2>1 DEF PlaceInv, AppPlace, Deleting
    <2>3. ptr' = [ptr EXCEPT !["app"] = qwc.netqw]
      BY <1>2, <1>11
    <2>4. HandInv'
      <3>1. DOMAIN ptr' = Callers /\ Hand("app")'
        BY <1>1, <2>1, <2>3 DEF HandInv, Hand, QwcInv, Callers
      <3>2. ptr'["client"] = ptr["client"]
        BY <2>3 DEF HandInv, Callers
      <3>3. Hand("client")'
        BY <1>4, <2>1, <3>2, HandStays DEF HandInv, Callers
      <3> QED
        BY <3>1, <3>3 DEF HandInv, Callers
    <2>5. NoClient'
      BY <1>5, <1>8, <1>11, <2>1 DEF NoClient
    <2>6. ClientInv'
      BY <1>1, <1>5, <1>8, <1>11, <2>1, <2>5 DEF ClientInv, NoClient, Over, Loop
    <2>7. FreedInv'
      BY <1>1, <1>5, <1>8, <2>1 DEF FreedInv, AllFreed, Callers, Clearing
    <2> QED
      BY <1>4, <1>9, <2>2, <2>4, <2>6, <2>7
  <1> QED
    BY <1>10, <1>11

LEMMA NotStartedStep ==
  ASSUME IInv, NotStarted
  PROVE  IInv'
  <1> USE DEF IInv
  <1>1. /\ pc["app"] = "not_started" /\ Set("state", QWC_IDLE) /\ Return("app")
        /\ UNCHANGED <<platform, net, ptr, app>>
    BY DEF NotStarted, At
  <1>2. app = "connected" /\ stack["app"] = <<"idle">>
    BY <1>1 DEF PlaceInv, AppPlace, Disconnecting, Clearing, Deleting, Quitting
  <1>3. /\ DOMAIN pc' = Callers /\ pc'["app"] = "idle" /\ pc'["client"] = pc["client"]
        /\ DOMAIN stack' = Callers /\ stack'["app"] = << >>
        /\ stack'["client"] = stack["client"]
    <2>1. Head(<<"idle">>) = "idle" /\ Tail(<<"idle">>) = << >>
      BY Stacks
    <2> QED
      BY <1>1, <1>2, <2>1, ReturnIs DEF PlaceInv, Callers
  <1>4. PlaceInv'
    BY <1>1, <1>2, <1>3 DEF PlaceInv, AppPlace
  <1>5. NetInv' /\ NetGrows
    BY <1>1, Untouched
  <1>6. HandInv'
    <2>1. \A u \in Callers : pc'[u] \in {"delete_mutex", "free"} => pc'[u] = pc[u]
      BY <1>3 DEF Callers
    <2> QED
      BY <1>1, <1>5, <2>1, HandStays DEF HandInv
  <1>7. /\ qwc' \in QWC /\ qwc'.netqw = qwc.netqw /\ qwc'.thread = qwc.thread
        /\ qwc'.netdata = qwc.netdata /\ qwc'.held = qwc.held /\ qwc'.abort = qwc.abort
    BY <1>1 DEF QwcInv, QWC, Set, QWC_IDLE
  <1>8. QwcInv'
    BY <1>1, <1>7 DEF QwcInv
  <1>9. NoClient /\ NoClient'
    BY <1>1, <1>3, <1>7 DEF ClientInv, Fresh, NoClient
  <1>10. ClientInv'
    BY <1>1, <1>2, <1>3, <1>7, <1>9 DEF ClientInv, Fresh, NoClient, Deleting, Over, Loop
  <1>11. FreedInv'
    BY <1>1, <1>2, <1>3, <1>7 DEF FreedInv, AllFreed, Callers, Clearing
  <1> QED
    BY <1>4, <1>5, <1>6, <1>8, <1>10, <1>11

\* The application calls QWC_Connect, QWC_Disconnect or QWC_Quit.
LEMMA AppCallsStep ==
  ASSUME IInv, NEW label, NEW belief, pc["app"] = "idle", AppCalls(label, belief),
         \/ label = "connect" /\ belief = "connected" /\ app = "none"
         \/ label = "disconnect" /\ belief = "none" /\ app = "connected"
         \/ label = "quit" /\ belief = "quit" /\ app # "quit"
  PROVE  IInv'
  <1> USE DEF IInv
  <1>1. Call("app", label, "idle") /\ app' = belief /\ UNCHANGED <<platform, qwc, net, ptr>>
    BY DEF AppCalls
  <1>2. stack["app"] = << >> /\ app \in {"none", "connected", "quit"}
    BY DEF PlaceInv, AppPlace, Disconnecting, Clearing, Deleting, Quitting
  <1>3. /\ DOMAIN pc' = Callers /\ pc'["app"] = label /\ pc'["client"] = pc["client"]
        /\ DOMAIN stack' = Callers /\ stack'["app"] = <<"idle">>
        /\ stack'["client"] = stack["client"]
    <2>1. <<"idle">> \o << >> = <<"idle">>
      BY Stacks
    <2> QED
      BY <1>1, <1>2, <2>1, CallIs DEF PlaceInv, Callers
  <1>4. PlaceInv'
    BY <1>1, <1>3 DEF PlaceInv, AppPlace, Disconnecting, Quitting
  <1>5. NetInv' /\ NetGrows
    BY <1>1, Untouched
  <1>6. HandInv'
    <2>1. \A u \in Callers : pc'[u] \in {"delete_mutex", "free"} => pc'[u] = pc[u]
      BY <1>3 DEF Callers
    <2> QED
      BY <1>1, <1>5, <2>1, HandStays DEF HandInv
  <1>7. QwcInv'
    BY <1>1 DEF QwcInv
  <1>8. ClientInv'
    BY <1>1, <1>3 DEF ClientInv, Fresh, NoClient, Deleting, Over, Loop
  <1>9. FreedInv'
    BY <1>1, <1>3 DEF FreedInv, AllFreed, Callers, Clearing
  <1> QED
    BY <1>4, <1>5, <1>6, <1>7, <1>8, <1>9

LEMMA AppFreeStep ==
  ASSUME IInv, AppFree
  PROVE  IInv'
  <1> USE DEF IInv
  <1>1. /\ pc["app"] = "idle" /\ app # "none" /\ Set("live", FALSE) /\ Goto("app", "gone")
        /\ UNCHANGED <<platform, net, ptr, app>>
    BY DEF AppFree, At
  <1>2. /\ DOMAIN pc' = Callers /\ pc'["app"] = "gone" /\ pc'["client"] = pc["client"]
        /\ stack' = stack
    BY <1>1, GotoIs DEF PlaceInv, Callers
  <1>3. PlaceInv'
    BY <1>1, <1>2 DEF PlaceInv, AppPlace, Disconnecting, Clearing, Deleting, Quitting
  <1>4. NetInv' /\ NetGrows
    BY <1>1, Untouched
  <1>5. HandInv'
    <2>1. \A u \in Callers : pc'[u] \in {"delete_mutex", "free"} => pc'[u] = pc[u]
      BY <1>2 DEF Callers
    <2> QED
      BY <1>1, <1>4, <2>1, HandStays DEF HandInv
  <1>6. /\ qwc' \in QWC /\ qwc'.netqw = qwc.netqw /\ qwc'.thread = qwc.thread
        /\ qwc'.netdata = qwc.netdata /\ qwc'.held = qwc.held /\ qwc'.abort = qwc.abort
    BY <1>1 DEF QwcInv, QWC, Set
  <1>7. QwcInv'
    BY <1>1, <1>6 DEF QwcInv
  <1>8. ClientInv'
    BY <1>1, <1>2, <1>6 DEF ClientInv, Fresh, NoClient, Deleting, Over, Loop
  <1>9. FreedInv'
    BY <1>1, <1>2, <1>6 DEF FreedInv, AllFreed, Callers, Clearing
  <1> QED
    BY <1>3, <1>4, <1>5, <1>7, <1>8, <1>9

-----------------------------------------------------------------------------
(* The invariant holds in every state. *)

LEMMA InitInv == Init => IInv
  <1> SUFFICES ASSUME Init PROVE IInv
    OBVIOUS
  <1>1. platform \in Systems
    BY DEF Init, Systems
  <1>2. PICK held \in Sys_Net_Init(platform) :
          qwc = [live |-> TRUE, netqw |-> Null, thread |-> FALSE, netdata |-> TRUE,
                 state |-> qwc_state_idle, run_thread |-> FALSE,
                 quit |-> FALSE, abort |-> FALSE, held |-> held]
    BY DEF Init, NET_Init
  <1>3. held \subseteq NetThings(platform) /\ held \in SUBSET Things
    BY <1>1, <1>2, NetInitOf, ThingsAre
  <1>4. /\ net = << >> /\ net \in Seq(NetQW) /\ Len(net) = 0 /\ DOMAIN net = {}
        /\ 0 \in 0 .. Len(net)
    BY DEF Init
  <1>5. PlaceInv
    BY DEF Init, PlaceInv, AppPlace, ClientPlace, Callers, Over
  <1>6. NetInv
    BY <1>1, <1>4 DEF NetInv
  <1>7. HandInv
    BY <1>4 DEF Init, HandInv, Hand, Callers, Null
  <1>8. QwcInv
    BY <1>2, <1>3, <1>4 DEF QwcInv, QWC, Null, qwc_state_idle
  <1>9. ClientInv
    BY <1>2 DEF Init, ClientInv, NoClient, Callers, Over, Loop
  <1>10. FreedInv
    BY <1>4 DEF Init, FreedInv, AllFreed, Callers, Clearing
  <1> QED
    BY <1>5, <1>6, <1>7, <1>8, <1>9, <1>10 DEF IInv

LEMMA NextInv == IInv /\ [Next]_vars => IInv'
  <1> SUFFICES ASSUME IInv, [Next]_vars PROVE IInv'
    OBVIOUS
  <1>1. CASE UNCHANGED vars
    BY <1>1, Unchanged DEF vars
  <1>2. CASE AppConnect \/ AppDisconnect \/ AppQuit
    <2>1. CASE AppConnect
      BY <2>1, AppCallsStep DEF AppConnect, At
    <2>2. CASE AppDisconnect
      BY <2>2, AppCallsStep DEF AppDisconnect, At
    <2>3. CASE AppQuit
      BY <2>3, AppCallsStep DEF AppQuit, At
    <2> QED
      BY <1>2, <2>1, <2>2, <2>3
  <1>3. CASE AppSay
    BY <1>3, Unchanged DEF AppSay, Broken
  <1>4. CASE AppFree
    BY <1>4, AppFreeStep
  <1>5. CASE AppInCall
    BY <1>5, CreateNetStep, StartClientStep, NotStartedStep, ProceduresStep
       DEF AppInCall, Callers
  <1>6. CASE ClientThread
    BY <1>6, ClientLoop, ProceduresStep DEF ClientThread, Callers
  <1>7. CASE \E p \in DOMAIN net : NetThread(p)
    BY <1>7, NetThreadStep
  <1> QED
    BY <1>1, <1>2, <1>3, <1>4, <1>5, <1>6, <1>7 DEF Next

(* What there is in qwc and in every NetQW, where the two callers of           *)
(* NetQW_Delete, QWC_Disconnect and QWC_Quit are, and what has been freed by    *)
(* then: on every port, for any number of connections (main.c:932-1123,        *)
(* netqw.c:279-319, 954-1109).                                                 *)
THEOREM Invariance == Spec => []IInv
  <1> QED
    BY InitInv, NextInv, PTL DEF Spec

(* No NetQW is freed under its net thread (netqw.c:1071-1109).                 *)
THEOREM NetThreadOutlivedAlways == Spec => []NetThreadOutlived
  <1>1. IInv => NetThreadOutlived
    BY DEF IInv, NetInv, Sound, Gone, NetThreadOutlived
  <1> QED
    BY <1>1, Invariance, PTL

Joined(q, r) == q \o r

LEMMA JoinedIs ==
  ASSUME NEW q \in Seq(Tokens), NEW r \in Seq(Tokens)
  PROVE  /\ Len(Joined(q, r)) = Len(q) + Len(r)
         /\ \A i \in 1 .. Len(q) : Joined(q, r)[i] = q[i]
         /\ \A i \in 1 .. Len(r) : Joined(q, r)[Len(q) + i] = r[i]
         /\ Len(q) # 0 => Head(Joined(q, r)) = q[1]
  <1>1. PICK s \in Seq(Tokens), m \in Nat, n \in Nat :
          /\ s = Joined(q, r) /\ m = Len(q) /\ n = Len(r) /\ Len(s) = m + n
          /\ \A i \in 1 .. m + n : s[i] = IF i <= m THEN q[i] ELSE r[i - m]
    <2>1. q \o r \in Seq(Tokens) /\ Len(q) \in Nat /\ Len(r) \in Nat
      BY ConcatProperties, LenProperties
    <2>2. PICK s \in Seq(Tokens) : s = q \o r
      BY <2>1
    <2>3. /\ Len(s) = Len(q) + Len(r)
          /\ \A i \in 1 .. Len(q) + Len(r) :
               s[i] = IF i <= Len(q) THEN q[i] ELSE r[i - Len(q)]
      BY <2>2, ConcatProperties
    <2> QED
      BY <2>1, <2>2, <2>3 DEF Joined
  <1>2. \A i \in 1 .. m : s[i] = q[i]
    BY <1>1
  <1>3. \A i \in 1 .. n : s[m + i] = r[i]
    <2>1. ASSUME NEW i \in 1 .. n PROVE s[m + i] = r[i]
      <3>1. m + i \in 1 .. m + n /\ ~(m + i <= m) /\ (m + i) - m = i
        OBVIOUS
      <3> QED
        BY <1>1, <3>1
    <2> QED
      BY <2>1
  <1>4. m # 0 => Head(s) = q[1]
    <2>1. m # 0 => Len(s) # 0 /\ 1 \in 1 .. m
      BY <1>1
    <2>2. Len(s) # 0 => Head(s) = s[1]
      BY <1>1, HeadTailProperties
    <2> QED
      BY <1>2, <2>1, <2>2
  <1> QED
    BY <1>1, <1>2, <1>3, <1>4

\* A host that begins with a number is four of them with dots between.
LEMMA NumbersAre ==
  ASSUME NEW host \in Hosts \cup {Server}, Head(host).kind = "number"
  PROVE  /\ Len(host) >= 7
         /\ \A i \in {1, 3, 5, 7} : host[i].kind = "number"
         /\ \A i \in {2, 4, 6} : host[i].kind = "."
         /\ Len(host) = 7 \/ (Len(host) >= 8 /\ host[8].kind = ":")
  <1> DEFINE Shape(s) == /\ \A i \in {1, 3, 5, 7} : s[i].kind = "number"
                         /\ \A i \in {2, 4, 6} : s[i].kind = "."
  <1>1. /\ \A n : Number(n).kind = "number"
        /\ Dot.kind = "." /\ Colon.kind = ":"
        /\ Token("local").kind # "number" /\ Token("server").kind # "number"
        /\ \A n \in Nat : Number(n) \in Tokens
        /\ Dot \in Tokens /\ Colon \in Tokens /\ Token("server") \in Tokens
    BY DEF Number, Dot, Colon, Token, Tokens
  <1>2. ASSUME NEW d \in Nat
        PROVE  Quad(d) \in Seq(Tokens) /\ Len(Quad(d)) = 7 /\ Shape(Quad(d))
    <2>1. PICK ten \in Tokens, zero \in Tokens, last \in Tokens :
            /\ ten = Number(10) /\ zero = Number(0) /\ last = Number(d)
            /\ ten.kind = "number" /\ zero.kind = "number" /\ last.kind = "number"
      BY <1>1
    <2>2. Quad(d) = <<ten, Dot, zero, Dot, zero, Dot, last>>
      BY <2>1 DEF Quad
    <2>3. <<ten, Dot, zero, Dot, zero, Dot, last>> \in Seq(Tokens)
      BY <1>1, <2>1
    <2>4. /\ Len(<<ten, Dot, zero, Dot, zero, Dot, last>>) = 7
          /\ Shape(<<ten, Dot, zero, Dot, zero, Dot, last>>)
      BY <1>1, <2>1
    <2> HIDE DEF Shape
    <2> QED
      BY <2>2, <2>3, <2>4
  <1>3. ASSUME NEW n \in Nat
        PROVE  Port(n) \in Seq(Tokens) /\ Len(Port(n)) = 2 /\ Port(n)[1].kind = ":"
    <2>1. PICK number \in Tokens : number = Number(n)
      BY <1>1
    <2>2. Port(n) = <<Colon, number>>
      BY <2>1 DEF Port
    <2> QED
      BY <1>1, <2>2
  <1>4. ASSUME NEW n \in Nat, NEW s, s = Quad(1) \o Port(n)
        PROVE  Len(s) = 9 /\ Shape(s) /\ s[8].kind = ":"
    <2>1. PICK q \in Seq(Tokens), r \in Seq(Tokens) :
            /\ q = Quad(1) /\ r = Port(n) /\ Len(q) = 7 /\ Len(r) = 2
            /\ Shape(q) /\ r[1].kind = ":"
      <3>1. 1 \in Nat
        OBVIOUS
      <3> HIDE DEF Shape
      <3> QED
        BY <1>2, <1>3, <3>1
    <2>2. s = Joined(q, r) /\ Len(q) = 7 /\ Len(r) = 2
      <3> HIDE DEF Shape
      <3> QED
        BY <1>4, <2>1 DEF Joined
    <2>3. /\ Len(s) = 9
          /\ \A i \in {1, 2, 3, 4, 5, 6, 7} : s[i] = q[i]
          /\ s[8] = r[1]
      <3>1. /\ Len(s) = Len(q) + Len(r)
            /\ \A i \in 1 .. Len(q) : s[i] = q[i]
            /\ \A i \in 1 .. Len(r) : s[Len(q) + i] = r[i]
        BY <2>2, JoinedIs
      <3>2. PICK m \in Nat, k \in Nat : m = 7 /\ k = 2 /\ m = Len(q) /\ k = Len(r)
        BY <2>2
      <3>3. /\ Len(s) = m + k
            /\ \A i \in 1 .. m : s[i] = q[i]
            /\ \A i \in 1 .. k : s[m + i] = r[i]
        BY <3>1, <3>2
      <3>4. Len(s) = 9
        <4>1. m + k = 9
          BY <3>2
        <4> QED
          BY <3>3, <4>1
      <3>5. \A i \in 1 .. 7 : s[i] = q[i]
        BY <3>2, <3>3
      <3>6. s[m + 1] = r[1] /\ m + 1 = 8
        <4>1. 1 \in 1 .. k /\ m + 1 = 8
          BY <3>2
        <4> QED
          BY <3>3, <4>1
      <3> QED
        BY <3>4, <3>5, <3>6
    <2> QED
      BY <2>1, <2>3
  <1>5. ASSUME NEW n \in Nat PROVE Head(Server \o Port(n)).kind # "number"
    <2>1. Server \in Seq(Tokens) /\ Len(Server) = 1 /\ Server[1].kind # "number"
      BY <1>1 DEF Server
    <2>2. PICK q \in Seq(Tokens), r \in Seq(Tokens) :
            /\ q = Server /\ r = Port(n) /\ Len(q) = 1 /\ Len(r) = 2 /\ q[1].kind # "number"
      BY <1>3, <2>1
    <2>3. Server \o Port(n) = Joined(q, r)
      BY <2>2 DEF Joined
    <2>4. Head(Joined(q, r)) = q[1]
      BY <2>2, JoinedIs
    <2> QED
      BY <2>2, <2>3, <2>4
  <1>6. Head(Server).kind # "number" /\ Head(<<Token("local")>>).kind # "number"
    <2>1. \A a : Head(<<a>>) = a
      BY Stacks
    <2> QED
      BY <1>1, <2>1 DEF Server
  <1>7. SomePort \in Nat /\ TooLargePort \in Nat
    BY DEF SomePort, TooLargePort
  <1>8. \/ \E d \in Nat : host = Quad(d)
        \/ \E n \in Nat : host = Quad(1) \o Port(n)
    <2>1. \/ host \in {Quad(1), Quad(256)}
          \/ host \in {Quad(1) \o Port(SomePort), Quad(1) \o Port(TooLargePort)}
          \/ host \in {<<Token("local")>>, Server, Server \o Port(SomePort)}
      BY Zenon DEF Hosts
    <2>2. host \notin {<<Token("local")>>, Server, Server \o Port(SomePort)}
      BY <1>5, <1>6, <1>7
    <2>3. 1 \in Nat /\ 256 \in Nat
      OBVIOUS
    <2> QED
      BY <1>7, <2>1, <2>2, <2>3
  <1>9. CASE \E d \in Nat : host = Quad(d)
    <2>1. Len(host) = 7 /\ Shape(host)
      BY <1>2, <1>9
    <2> QED
      BY <2>1
  <1>10. CASE \E n \in Nat : host = Quad(1) \o Port(n)
    <2>1. Len(host) = 9 /\ Shape(host) /\ host[8].kind = ":"
      BY <1>4, <1>10
    <2> QED
      BY <2>1
  <1> QED
    BY <1>8, <1>9, <1>10

(* Whatever the resolver answers, a connection is with the address the         *)
(* application named (net.c:232-357, netqw.c:524).                             *)
THEOREM ConnectedAsNamedAlways == Spec => []ConnectedAsNamed
  <1>1. ASSUME IInv, NEW p \in DOMAIN net, net[p].state = "connected", net[p].live
        PROVE  LET host == net[p].host
                   peer == net[p].peer
                   number == [i \in 1 .. 4 |-> host[2 * i - 1].value]
               IN  /\ peer.port = IF Colon \in ToSet(host) THEN Last(host).value ELSE 27500
                   /\ peer.port <= 65535
                   /\ Head(host).kind = "number" /\ (\A i \in 1 .. 4 : number[i] <= 255) =>
                        peer.address = number
    <2>1. PICK host \in Hosts \cup {Server} : host = net[p].host
      BY <1>1 DEF IInv, NetInv, Sound, Named
    <2>2. PICK peer : peer = net[p].peer /\ peer = net[p].addr
      BY <1>1 DEF IInv, NetInv, Sound, Named
    <2>3. Reached(net[p]) /\ platform \in Systems
      BY <1>1 DEF IInv, NetInv, Sound, Named
    <2>4. PICK answers \in Answers : NET_StringToAdr(platform, host, answers) = <<peer>>
      BY <2>1, <2>2, <2>3 DEF Reached
    <2>5. AddressOf(peer, host) /\ peer.type # "NA_LOOPBACK" /\ host \in Seq(Tokens)
      <3>1. host \in Seq(Tokens) /\ answers \in Seq(Addresses)
        BY HostsAre
      <3>2. PICK a : NET_StringToAdr(platform, host, answers) = <<a>> /\ AddressOf(a, host)
        <4>1. <<peer>> # << >>
          OBVIOUS
        <4>2. NET_StringToAdr(platform, host, answers) # << >>
          BY <2>4, <4>1
        <4> QED
          BY <2>1, <2>2, <2>3, <3>1, <4>2, AddressIs
      <3>3. a = peer
        BY <2>4, <3>2
      <3> QED
        BY <2>1, <2>2, <2>3, <3>1, <3>2, <3>3 DEF Reached
    <2>6. /\ peer.port = IF Colon \in ToSet(host) THEN Last(host).value ELSE 27500
          /\ peer.port <= 65535
          /\ NET_StringToIPv4(host) = 7 => peer.address = Quadruple(host)
      BY <2>5 DEF AddressOf
    <2>7. ASSUME Head(host).kind = "number", \A i \in 1 .. 4 : Quadruple(host)[i] <= 255
          PROVE  NET_StringToIPv4(host) = 7
      <3>1. /\ Quadruple(host)[1] = host[1].value /\ Quadruple(host)[2] = host[3].value
            /\ Quadruple(host)[3] = host[5].value /\ Quadruple(host)[4] = host[7].value
        BY DEF Quadruple
      <3>2. \A i \in {1, 3, 5, 7} : host[i].value <= 255
        BY <2>7, <3>1
      <3> QED
        BY <2>5, <2>7, <3>2, NumbersAre, QuadIs
    <2>8. Quadruple(host) = [i \in 1 .. 4 |-> host[2 * i - 1].value]
      BY DEF Quadruple
    <2> QED
      BY <2>1, <2>2, <2>3, <2>6, <2>7, <2>8
  <1>2. IInv => ConnectedAsNamed
    BY <1>1 DEF ConnectedAsNamed
  <1> QED
    BY <1>2, Invariance, PTL

(* When QWC_Disconnect has returned, or QWC_Quit while the client's thread     *)
(* does not quit itself, nothing is left of any connection but what two ports  *)
(* never give back (netqw.c:279-319, 954, 1019-1083).                          *)
THEOREM CleanAfterDisconnectAlways == Spec => []CleanAfterDisconnect
  <1>1. ASSUME IInv, pc["app"] = "idle", app = "none" \/ (app = "quit" /\ ~qwc.abort)
        PROVE  /\ pc["client"] \in {"none", "ended"} /\ ~qwc.thread
               /\ "systhread" \notin qwc.held /\ (app = "quit" => qwc.held = {})
               /\ \A p \in DOMAIN net :
                    /\ ~net[p].live /\ net[p].thread \in {"none", "joined"}
                    /\ net[p].held \subseteq Forgotten(net[p])
                    /\ net[p].drops = IF net[p].state = "connected" THEN 3 ELSE 0
    <2>1. NoClient /\ AllFreed /\ (app = "quit" => ~qwc.netdata)
      BY <1>1 DEF IInv, ClientInv, FreedInv, Fresh
    <2>2. "systhread" \notin qwc.held
      <3>1. qwc.held \subseteq NetThings(platform) /\ platform \in Systems
        BY <1>1, <2>1 DEF IInv, NetInv, QwcInv, NoClient
      <3> QED
        BY <3>1, ThingsAre
    <2>3. app = "quit" => qwc.held = {}
      BY <1>1, <2>1, ThingsAre DEF IInv, NetInv, QwcInv, NoClient
    <2>4. ASSUME NEW p \in DOMAIN net
          PROVE  /\ ~net[p].live /\ net[p].thread \in {"none", "joined"}
                 /\ net[p].held \subseteq Forgotten(net[p])
                 /\ net[p].drops = IF net[p].state = "connected" THEN 3 ELSE 0
      <3>1. ~net[p].live /\ Sound(net[p])
        BY <1>1, <2>1 DEF AllFreed, IInv, NetInv
      <3> QED
        BY <3>1 DEF Sound, Held, Gone
    <2> QED
      BY <2>1, <2>2, <2>3, <2>4 DEF NoClient, Over
  <1>2. IInv => CleanAfterDisconnect
    BY <1>1 DEF CleanAfterDisconnect
  <1> QED
    BY <1>2, Invariance, PTL

-----------------------------------------------------------------------------
(* Who uses what has been freed.  As long as everything could be created and  *)
(* no message has set abort, the application has at hand all that its next    *)
(* step uses, and so has the client's thread but for a while.                 *)

There(p) == p \in DOMAIN net /\ net[p].live
Lockable(p) == There(p) /\ MutexThings(platform) \subseteq net[p].held
Up(p) == Lockable(p) /\ net[p].thread \in {"running", "ended"}

\* What both look at, ...
SharedInv ==
  /\ qwc.live <=> pc["app"] # "gone"
  /\ qwc.quit => app = "quit"
  /\ qwc.netdata => NetThings(platform) \subseteq qwc.held
  /\ ~qwc.netdata => app = "quit" /\ pc["app"] \in {"idle", "gone"}
  /\ pc["app"] = "gone" => app = "quit" /\ pc["client"] \in Over

\* ... and what is there for each step of the application.
ReadyInv ==
  /\ pc["app"] = "idle" /\ app = "none" => qwc.netqw = Null
  /\ pc["app"] = "start" => Up(qwc.netqw)
  /\ pc["app"] # "not_started" /\ (pc["app"] \in Deleting => app # "connected")
  /\ pc["app"] = "idle" /\ app = "connected" =>
       Up(qwc.netqw) /\ qwc.thread /\ qwc.state # qwc_state_idle
  /\ pc["app"] = "quit" => qwc.netqw = Null \/ (Up(qwc.netqw) /\ qwc.thread)
  /\ pc["app"] = "disconnect" => Up(qwc.netqw) /\ qwc.thread
  /\ pc["app"] \in Deleting => ptr["app"] = qwc.netqw /\ qwc.thread
  /\ pc["app"] \in {"delete", "join_net"} => Up(qwc.netqw)
  /\ pc["app"] = "delete_mutex" => Lockable(qwc.netqw)
  /\ pc["app"] = "free" => There(qwc.netqw)
  /\ pc["app"] \in Clearing => qwc.thread
  /\ pc["app"] \in {"set_idle", "stop", "join_client"} => qwc.netqw = Null

Ok == fault = NoFault /\ ~failed /\ ~qwc.abort
RaceInv == OnlyClientRaces /\ (Ok => SharedInv /\ ReadyInv)

LEMMA LocksAre ==
  ASSUME platform \in Systems
  PROVE  /\ MutexThings(platform)
              \cap (NetThings(platform) \cup Socket(platform) \cup ThreadThings(platform)) = {}
         /\ \A held : MutexThings(platform) \subseteq held =>
                        Sys_Thread_LockMutex(platform, held)
         /\ Sys_Net_Shutdown(platform).needs \subseteq NetThings(platform)
  <1>1. MutexThings(platform)
          \cap (NetThings(platform) \cup Socket(platform) \cup ThreadThings(platform)) = {}
    BY DEF MutexThings, NetThings, Socket, ThreadThings, Linked, Systems
  <1>2. ASSUME NEW held, MutexThings(platform) \subseteq held
        PROVE  Sys_Thread_LockMutex(platform, held)
    BY <1>2 DEF MutexThings, Linked, Systems, Sys_Thread_LockMutex, PosixLockMutex,
                Win32LockMutex, MorphosLockMutex, NullLockMutex
  <1>3. Sys_Net_Shutdown(platform).needs \subseteq NetThings(platform)
    BY DEF NetThings, Linked, Systems, Sys_Net_Shutdown, PosixNetShutdown, Win32NetShutdown,
           AmiTcpNetShutdown, NullNetShutdown
  <1> QED
    BY <1>1, <1>2, <1>3

LEMMA InitKeepsMutex ==
  ASSUME platform \in Systems, NEW m \in NetQW, NEW n \in NetQW_Thread_Init(m)
  PROVE  m.held \ NetThings(platform) \subseteq n.held
  <1>1. PICK sys \in Sys_Net_Init(platform), answers \in Answers :
          n \in Started(m, sys, NET_StringToAdr(platform, m.host, answers))
    BY DEF NetQW_Thread_Init
  <1>2. PICK adr : adr = NET_StringToAdr(platform, m.host, answers)
    OBVIOUS
  <1>3. CASE n = m
    BY <1>3
  <1>4. CASE n = ShutDown([m EXCEPT !.held = @ \cup sys])
    <2>1. PICK k : k = [m EXCEPT !.held = m.held \cup sys] /\ n = ShutDown(k)
      BY <1>4
    <2>2. n.held = k.held \ NetThings(platform) /\ k.held = m.held \cup sys
      BY <2>1, GivenBack DEF ShutDown, NetQW
    <2> QED
      BY <2>2
  <1>5. ASSUME NEW s, n = Opened([m EXCEPT !.held = @ \cup sys \cup s, !.addr = adr[1]])
        PROVE  m.held \ NetThings(platform) \subseteq n.held
    <2>1. PICK k : /\ k = [m EXCEPT !.held = m.held \cup sys \cup s, !.addr = adr[1]]
                   /\ n = Opened(k)
      BY <1>5
    <2>2. m.held \subseteq k.held
      BY <2>1 DEF NetQW
    <2>3. CASE IsOpen(k)
      <3>1. n = [k EXCEPT !.state = "sendchallenge"]
        BY <2>1, <2>3 DEF Opened
      <3>2. n.held = k.held
        BY <2>1, <3>1 DEF NetQW
      <3> QED
        BY <2>2, <3>2
    <2>4. CASE ~IsOpen(k)
      <3>1. n = ShutDown(k)
        BY <2>1, <2>4 DEF Opened
      <3>2. n.held = k.held \ NetThings(platform)
        BY <2>1, <3>1, GivenBack DEF ShutDown, NetQW
      <3> QED
        BY <2>2, <3>2
    <2> QED
      BY <2>3, <2>4
  <1>6. CASE "netdata" \in sys /\ adr # << >>
    <2>1. PICK s \in Sys_Net_CreateSocket(platform, adr[1].type) :
            n = Opened([m EXCEPT !.held = @ \cup sys \cup s, !.addr = adr[1]])
      BY <1>1, <1>2, <1>6 DEF Started
    <2> QED
      BY <1>5, <2>1
  <1> QED
    BY <1>1, <1>2, <1>3, <1>4, <1>6 DEF Started

\* A NetQW with a thread has a mutex when it is created.
LEMMA CreatedUp ==
  ASSUME platform \in Systems, NEW host \in Hosts \cup {Server}, NEW n \in NetQW_Create(host),
         n.thread # "none"
  PROVE  n.live /\ n.thread = "running" /\ MutexThings(platform) \subseteq n.held
  <1>1. PICK new : new = NewNet(host)
    OBVIOUS
  <1>2. new.thread = "none" /\ new.live /\ new.held = {} /\ new \in NetQW /\ new.host = host
    <2>1. NoAddress \in Addresses /\ host \in Seq(Tokens)
      <3>1. << >> \in Seq(Nat)
        OBVIOUS
      <3> QED
        BY <3>1, HostsAre DEF NoAddress, Address, Addresses
    <2> HIDE DEF NoAddress
    <2> QED
      BY <1>1, <2>1 DEF NewNet, NetQW
  <1>3. n # Freed(new)
    BY <1>2 DEF Freed, NetQW
  <1>4. CASE \E mutex \in Sys_Thread_CreateMutex(platform),
                thread \in Sys_Thread_CreateThread(platform) :
               mutex # {} /\ thread # {} /\ n = WithThread(host, mutex, thread)
    <2>1. PICK mutex \in Sys_Thread_CreateMutex(platform),
               thread \in Sys_Thread_CreateThread(platform) :
                 mutex # {} /\ thread # {} /\ n = WithThread(host, mutex, thread)
      BY <1>4
    <2>2. mutex = MutexThings(platform)
      BY <2>1, MutexesOf
    <2>3. n = [new EXCEPT !.thread = "running", !.held = mutex \cup thread]
      BY <1>1, <2>1 DEF WithThread
    <2>4. n.live /\ n.thread = "running" /\ n.held = mutex \cup thread
      BY <1>2, <2>3 DEF NetQW
    <2> QED
      BY <2>2, <2>4
  <1>5. ASSUME NEW mutex \in Sys_Thread_CreateMutex(platform), n \in WithoutThread(host, mutex)
        PROVE  FALSE
    <2>1. PICK h : h = Sys_Thread_DeleteMutex(platform, mutex)
      OBVIOUS
    <2>2. h \in SUBSET Things /\ "syssocket" \notin h
      <3>1. h \subseteq mutex
        BY <2>1, GivenBack
      <3>2. mutex \subseteq MutexThings(platform)
        BY MutexesOf
      <3> QED
        BY <3>1, <3>2, ThingsAre
    <2>3. PICK m : m = [new EXCEPT !.held = h]
      OBVIOUS
    <2>4. m \in NetQW /\ m.held = h /\ m.thread = "none" /\ m.host = host
      BY <1>2, <2>2, <2>3 DEF NetQW
    <2>5. PICK k \in NetQW_Thread_Init(m) : n = IF IsOpen(k) THEN k ELSE Freed(k)
      BY <1>1, <1>5, <2>1, <2>3 DEF WithoutThread
    <2>6. k \in NetQW /\ k.thread = "none"
      BY <2>2, <2>4, <2>5, NetInitIs DEF Kept
    <2> QED
      BY <2>5, <2>6 DEF Freed, NetQW
  <1> QED
    BY <1>1, <1>3, <1>4, <1>5 DEF NetQW_Create

LEMMA ThereIsValid ==
  ASSUME NetInv, NEW p, There(p)
  PROVE  Valid(p) /\ p \in DOMAIN net /\ p # Null /\ Sound(net[p])
  BY NetIndices DEF There, Valid, Null, NetInv

LEMMA LockableHasMutex ==
  ASSUME NetInv, NEW p, Lockable(p)
  PROVE  Valid(p) /\ HasMutex(p)
  <1>1. platform \in Systems /\ There(p) /\ MutexThings(platform) \subseteq net[p].held
    BY DEF NetInv, Lockable
  <1> QED
    BY <1>1, LocksAre, ThereIsValid DEF HasMutex

\* A NetQW that gets no worse keeps what is ready.
Kind(m, n) ==
  /\ m.live => n.live
  /\ m.thread \in {"running", "ended"} => n.thread \in {"running", "ended"}
  /\ MutexThings(platform) \subseteq m.held => MutexThings(platform) \subseteq n.held

LEMMA ReadyStays ==
  ASSUME DOMAIN net' = DOMAIN net, \A p \in DOMAIN net : Kind(net[p], net'[p]),
         platform' = platform, NEW p
  PROVE  /\ There(p) => There(p)'
         /\ Lockable(p) => Lockable(p)'
         /\ Up(p) => Up(p)'
  BY DEF There, Lockable, Up, Kind

LEMMA NetThreadKind ==
  ASSUME IInv, NEW p \in DOMAIN net, NetThread(p)
  PROVE  /\ \A q \in DOMAIN net : Kind(net[q], net'[q])
         /\ DOMAIN net' = DOMAIN net
         /\ UNCHANGED <<platform, qwc, pc, stack, ptr, app, failed, fault>>
  <1> USE DEF IInv
  <1>1. /\ platform \in Systems /\ Sound(net[p]) /\ net[p] \in NetQW /\ Named(net[p])
        /\ net[p].live /\ net[p].thread = "running"
    BY DEF NetInv, NetThread, Sound
  <1>2. PICK n : NetChange(p, n) /\ Kind(net[p], n)
    <2>1. CASE NetStart(p)
      <3>1. PICK m \in NetQW_Thread_Init(net[p]) :
              NetChange(p, IF IsOpen(m) THEN m
                           ELSE [m EXCEPT !.error = TRUE, !.thread = "ended"])
        BY <2>1 DEF NetStart
      <3>2. net[p].host \in Hosts \cup {Server} /\ "syssocket" \notin net[p].held
        <4>1. net[p].state = "uninitialised"
          BY <2>1 DEF NetStart
        <4> QED
          BY <1>1, <4>1, ThingsAre DEF Named, Sound, Held, MayHold, Forgotten
      <3>3. m \in NetQW /\ m.live /\ m.thread = "running"
        BY <1>1, <3>2, NetInitIs DEF Kept
      <3>4. net[p].held \ NetThings(platform) \subseteq m.held
        BY <1>1, InitKeepsMutex
      <3>5. PICK n : n = IF IsOpen(m) THEN m
                         ELSE [m EXCEPT !.error = TRUE, !.thread = "ended"]
        OBVIOUS
      <3>6. n.live /\ n.thread \in {"running", "ended"} /\ n.held = m.held
        BY <3>3, <3>5 DEF NetQW
      <3>7. Kind(net[p], n)
        BY <1>1, <3>4, <3>6, LocksAre DEF Kind
      <3> QED
        BY <3>1, <3>5, <3>7
    <2>2. CASE NetConnects(p)
      <3>1. PICK peer : NetChange(p, [net[p] EXCEPT !.state = "connected", !.peer = peer])
        BY <2>2 DEF NetConnects
      <3>2. PICK n : n = [net[p] EXCEPT !.state = "connected", !.peer = peer]
        OBVIOUS
      <3>3. n.live = net[p].live /\ n.thread = net[p].thread /\ n.held = net[p].held
        BY <1>1, <3>2 DEF NetQW
      <3> QED
        BY <3>1, <3>2, <3>3 DEF Kind
    <2>3. CASE NetEnds(p)
      <3>1. PICK m : m = Goodbye(net[p])
        OBVIOUS
      <3>2. /\ m \in NetQW /\ m.live
            /\ m.held = (net[p].held \ Socket(platform)) \ NetThings(platform)
        BY <1>1, <3>1, GoodbyeIs
      <3>3. PICK n : n = [m EXCEPT !.thread = "ended"]
        OBVIOUS
      <3>4. n.live /\ n.thread = "ended" /\ n.held = m.held
        BY <3>2, <3>3 DEF NetQW
      <3>5. Kind(net[p], n)
        BY <1>1, <3>2, <3>4, LocksAre DEF Kind
      <3>6. NetChange(p, n)
        BY <2>3, <3>1, <3>3 DEF NetEnds
      <3> QED
        BY <3>5, <3>6
    <2> QED
      BY <2>1, <2>2, <2>3 DEF NetThread
  <1>3. /\ net' = [net EXCEPT ![p] = n]
        /\ UNCHANGED <<platform, qwc, pc, stack, ptr, app, failed, fault>>
    BY <1>2 DEF NetChange
  <1>4. net \in Seq(NetQW) /\ DOMAIN net = 1 .. Len(net)
    BY NetIndices DEF NetInv
  <1>5. DOMAIN net' = DOMAIN net /\ net'[p] = n /\ \A q \in DOMAIN net : q # p => net'[q] = net[q]
    BY <1>3, <1>4
  <1>6. \A q \in DOMAIN net : Kind(net[q], net'[q])
    BY <1>2, <1>5 DEF Kind
  <1> QED
    BY <1>3, <1>5, <1>6

LEMMA NetThreadRaces ==
  ASSUME IInv, RaceInv, NEW p \in DOMAIN net, NetThread(p)
  PROVE  RaceInv'
  <1>1. /\ \A q \in DOMAIN net : Kind(net[q], net'[q])
        /\ DOMAIN net' = DOMAIN net
        /\ UNCHANGED <<platform, qwc, pc, stack, ptr, app, failed, fault>>
    BY NetThreadKind
  <1>2. OnlyClientRaces'
    BY <1>1 DEF OnlyClientRaces, RaceInv
  <1>3. ASSUME Ok' PROVE SharedInv' /\ ReadyInv'
    <2>1. SharedInv /\ ReadyInv
      BY <1>1, <1>3 DEF RaceInv, Ok
    <2>2. PICK q : q = qwc.netqw
      OBVIOUS
    <2>3. /\ There(q) => There(q)'
          /\ Lockable(q) => Lockable(q)'
          /\ Up(q) => Up(q)'
      BY <1>1, ReadyStays
    <2>4. /\ There(qwc.netqw) => There(qwc.netqw)'
          /\ Lockable(qwc.netqw) => Lockable(qwc.netqw)'
          /\ Up(qwc.netqw) => Up(qwc.netqw)'
      BY <1>1, <2>2, <2>3 DEF There, Lockable, Up
    <2>5. SharedInv'
      BY <1>1, <2>1 DEF SharedInv
    <2>6. ReadyInv'
      BY <1>1, <2>1, <2>4 DEF ReadyInv
    <2> QED
      BY <2>5, <2>6
  <1> QED
    BY <1>2, <1>3 DEF RaceInv

\* The client's thread is there only while the application has a NetQW, or is about to
\* wait for the thread to end.
LEMMA ClientMeets ==
  ASSUME IInv, SharedInv, ReadyInv, ~qwc.abort, pc["client"] \notin Over
  PROVE  /\ qwc.live /\ qwc.netdata
         /\ pc["app"] \in Clearing \/ There(qwc.netqw)
         /\ pc["app"] \in Clearing \cup {"free"} \/ Lockable(qwc.netqw)
  <1>1. ~NoClient
    BY DEF NoClient
  <1>2. ~Fresh /\ pc["app"] \notin {"set_quit", "destroy", "gone"}
        /\ ~(pc["app"] = "idle" /\ app = "quit")
        /\ ~(pc["app"] = "quit" /\ qwc.netqw = Null)
    BY <1>1 DEF IInv, ClientInv, SharedInv
  <1>3. \/ pc["app"] = "idle" /\ app = "connected"
        \/ pc["app"] \in {"quit", "disconnect"} \cup Deleting \cup Clearing
    BY <1>2 DEF IInv, PlaceInv, AppPlace, Fresh, Quitting, Disconnecting
  <1>4. qwc.live /\ qwc.netdata
    BY <1>2 DEF SharedInv
  <1>5. Up(qwc.netqw) => Lockable(qwc.netqw)
    BY DEF Up
  <1>6. Lockable(qwc.netqw) => There(qwc.netqw)
    BY DEF Lockable
  <1>7. pc["app"] \in Clearing \cup {"free"} \/ Lockable(qwc.netqw)
    BY <1>2, <1>3, <1>5 DEF ReadyInv, Deleting
  <1>8. pc["app"] \in Clearing \/ There(qwc.netqw)
    BY <1>6, <1>7 DEF ReadyInv
  <1> QED
    BY <1>4, <1>7, <1>8

\* An access that breaks: with all that could be created, and without abort, it has to be
\* the client's.
LEMMA FaultRaces ==
  ASSUME RaceInv, fault = NoFault, NEW what, Broken(what),
         Ok => /\ what[1] = "client"
               /\ what[2] \in {"locked no mutex", "used freed netqw", "used null"}
               /\ pc["app"] \in {"free"} \cup Clearing
  PROVE  RaceInv'
  <1>1. fault' = what /\ UNCHANGED <<platform, qwc, net, pc, stack, ptr, app, failed>>
    BY DEF Broken
  <1>2. OnlyClientRaces'
    BY <1>1 DEF OnlyClientRaces, Ok, Clearing
  <1>3. Ok' => Ok
    BY <1>1 DEF Ok
  <1>4. SharedInv /\ ReadyInv => SharedInv' /\ ReadyInv'
    BY <1>1 DEF SharedInv, ReadyInv, There, Lockable, Up
  <1> QED
    BY <1>2, <1>3, <1>4 DEF RaceInv

\* A step that breaks nothing.
LEMMA NoFaultRaces ==
  ASSUME fault' = NoFault, Ok' => SharedInv' /\ ReadyInv'
  PROVE  RaceInv'
  BY DEF RaceInv, OnlyClientRaces

LEMMA ClientMovesRaces ==
  ASSUME IInv, RaceInv, NEW from, At("client", from), NEW label, ClientGoto(label)
  PROVE  RaceInv'
  <1>1. /\ fault = NoFault /\ qwc.live /\ pc'["app"] = pc["app"]
        /\ UNCHANGED <<platform, qwc, net, ptr, app, failed, fault>>
    BY GotoIs DEF At, ClientGoto, IInv, PlaceInv, Callers
  <1>2. Ok' => Ok
    BY <1>1 DEF Ok
  <1>3. SharedInv => SharedInv'
    BY <1>1 DEF SharedInv
  <1>4. ReadyInv => ReadyInv'
    BY <1>1 DEF ReadyInv, There, Lockable, Up
  <1> QED
    BY <1>1, <1>2, <1>3, <1>4, NoFaultRaces DEF RaceInv

LEMMA ClientAssignsRaces ==
  ASSUME IInv, RaceInv, NEW from, NEW label, NEW field, NEW value,
         \/ /\ field = "state" /\ value \in Nat
            /\ value # qwc_state_idle \/ qwc.netqw = Null \/ qwc.quit
         \/ field = "abort" /\ value = TRUE,
         Assign("client", from, field, value, label)
  PROVE  RaceInv'
  <1>1. /\ fault = NoFault /\ qwc.live /\ pc'["app"] = pc["app"]
        /\ UNCHANGED <<platform, net, ptr, app, failed, fault>>
        /\ qwc \in QWC /\ qwc' = [qwc EXCEPT ![field] = value]
    BY GotoIs DEF At, Assign, Set, IInv, PlaceInv, QwcInv, Callers
  <1>2. CASE field = "abort" /\ value = TRUE
    <2>1. qwc'.abort
      BY <1>1, <1>2 DEF QWC
    <2> QED
      BY <1>1, <2>1, NoFaultRaces DEF Ok
  <1>3. CASE /\ field = "state" /\ value \in Nat
             /\ value # qwc_state_idle \/ qwc.netqw = Null \/ qwc.quit
    <2>1. /\ qwc'.live = qwc.live /\ qwc'.netqw = qwc.netqw /\ qwc'.thread = qwc.thread
          /\ qwc'.netdata = qwc.netdata /\ qwc'.quit = qwc.quit
          /\ qwc'.abort = qwc.abort /\ qwc'.held = qwc.held /\ qwc'.state = value
      BY <1>1, <1>3 DEF QWC
    <2>2. Ok' => Ok
      BY <1>1, <2>1 DEF Ok
    <2>3. SharedInv => SharedInv'
      BY <1>1, <2>1 DEF SharedInv
    <2>4. /\ There(qwc.netqw) <=> There(qwc.netqw)'
          /\ Lockable(qwc.netqw) <=> Lockable(qwc.netqw)'
          /\ Up(qwc.netqw) <=> Up(qwc.netqw)'
      BY <1>1, <2>1 DEF There, Lockable, Up
    <2>5. SharedInv /\ pc["app"] = "idle" /\ app = "connected" /\ Up(qwc.netqw) =>
            value # qwc_state_idle
      <3>1. Up(qwc.netqw) => qwc.netqw # Null
        BY ThereIsValid DEF Up, Lockable, IInv
      <3> QED
        BY <1>3, <3>1 DEF SharedInv
    <2>6. SharedInv /\ ReadyInv => ReadyInv'
      BY <1>1, <2>1, <2>4, <2>5 DEF ReadyInv
    <2> QED
      BY <1>1, <2>2, <2>3, <2>6, NoFaultRaces DEF RaceInv
  <1> QED
    BY <1>2, <1>3

LEMMA ClientRaces ==
  ASSUME IInv, RaceInv,
         \/ Top \/ Sleep_Sleep \/ TestNet \/ GetState \/ GetStateAgain \/ ReadPackets
         \/ UseNet \/ MarkConnected \/ Leave \/ UseFreedConnection
  PROVE  RaceInv'
  <1>1. \A from, label : At("client", from) /\ ClientGoto(label) => RaceInv'
    BY ClientMovesRaces
  <1>2. ASSUME NEW from, NEW label, NEW value \in Nat,
               value # qwc_state_idle \/ qwc.netqw = Null \/ qwc.quit,
               Assign("client", from, "state", value, label)
        PROVE  RaceInv'
    BY <1>2, ClientAssignsRaces
  <1>3. qwc_state_connecting # qwc_state_idle /\ qwc_state_connected # qwc_state_idle
        /\ qwc_state_connecting \in Nat /\ qwc_state_connected \in Nat
        /\ qwc_state_idle \in Nat
    BY DEF qwc_state_connecting, qwc_state_connected, qwc_state_idle
  <1>4. ASSUME NEW from \in Loop, At("client", from), Ok
        PROVE  /\ qwc.netdata
               /\ qwc.netqw = Null \/ Valid(qwc.netqw) \/ pc["app"] \in Clearing
               /\ Valid(qwc.netqw) \/ pc["app"] \in Clearing
               /\ HasMutex(qwc.netqw) \/ pc["app"] \in Clearing \cup {"free"}
    <2>1. SharedInv /\ ReadyInv /\ ~qwc.abort /\ pc["client"] \notin Over
      BY <1>4 DEF RaceInv, Ok, At, Loop, Over
    <2>2. /\ qwc.netdata
          /\ pc["app"] \in Clearing \/ There(qwc.netqw)
          /\ pc["app"] \in Clearing \cup {"free"} \/ Lockable(qwc.netqw)
      BY <2>1, ClientMeets
    <2> QED
      BY <2>2, ThereIsValid, LockableHasMutex DEF IInv
  <1>5. ASSUME NEW p, Broken(BadPointer("client", p)), fault = NoFault,
               Ok => pc["app"] \in Clearing
        PROVE  RaceInv'
    <2>1. PICK what : what = BadPointer("client", p)
      OBVIOUS
    <2>2. what[1] = "client" /\ what[2] \in {"used freed netqw", "used null"}
      BY <2>1 DEF BadPointer
    <2> QED
      BY <1>5, <2>1, <2>2, FaultRaces
  <1>6. CASE Top
    BY <1>1, <1>6 DEF Top
  <1>7. CASE Sleep_Sleep
    BY <1>1, <1>7 DEF Sleep_Sleep
  <1>8. CASE TestNet
    BY <1>1, <1>2, <1>3, <1>8 DEF TestNet
  <1>9. CASE GetState
    <2>1. At("client", "state") /\ "state" \in Loop /\ fault = NoFault
      BY <1>9 DEF GetState, At, Loop
    <2> QED
      BY <1>1, <1>4, <1>5, <1>9, <2>1 DEF GetState
  <1>10. CASE GetStateAgain
    <2>1. At("client", "state_again") /\ "state_again" \in Loop /\ fault = NoFault
      BY <1>10 DEF GetStateAgain, At, Loop
    <2> QED
      BY <1>1, <1>2, <1>3, <1>4, <1>5, <1>10, <2>1 DEF GetStateAgain
  <1>11. CASE ReadPackets
    <2>1. At("client", "read") /\ "read" \in Loop /\ fault = NoFault
      BY <1>11 DEF ReadPackets, At, Loop
    <2>2. ~qwc.netdata /\ Broken(<<"client", "read after the shutdown">>) => RaceInv'
      BY <1>4, <2>1, FaultRaces
    <2> QED
      BY <1>1, <1>11, <2>1, <2>2 DEF ReadPackets
  <1>12. CASE UseNet
    <2>1. At("client", "use") /\ "use" \in Loop /\ fault = NoFault
      BY <1>12 DEF UseNet, At, Loop
    <2>2. CASE ~Valid(qwc.netqw)
      BY <1>4, <1>5, <1>12, <2>1, <2>2 DEF UseNet
    <2>3. CASE Valid(qwc.netqw) /\ ~HasMutex(qwc.netqw)
      <3>1. PICK what : what = <<"client", "locked no mutex">>
        OBVIOUS
      <3>2. what[1] = "client" /\ what[2] = "locked no mutex"
        BY <3>1
      <3>3. Broken(what)
        BY <1>12, <2>3, <3>1 DEF UseNet
      <3> QED
        BY <1>4, <2>1, <2>3, <3>2, <3>3, FaultRaces
    <2>4. CASE Valid(qwc.netqw) /\ HasMutex(qwc.netqw)
      <3>1. Assign("client", "use", "abort", TRUE, "read") => RaceInv'
        BY ClientAssignsRaces
      <3> QED
        BY <1>1, <1>12, <2>1, <2>4, <3>1 DEF UseNet
    <2> QED
      BY <2>2, <2>3, <2>4
  <1>13. CASE MarkConnected
    BY <1>2, <1>3, <1>13 DEF MarkConnected
  <1>14. CASE Leave
    <2>1. At("client", "leave") /\ fault = NoFault
      BY <1>14 DEF Leave, At
    <2>2. CASE qwc.abort
      <3>1. fault' = fault /\ qwc' = qwc
        BY <1>14, <2>2 DEF Leave
      <3> QED
        BY <2>1, <2>2, <3>1, NoFaultRaces DEF Ok
    <2>3. CASE ~qwc.abort
      BY <1>1, <1>14, <2>1, <2>3 DEF Leave
    <2> QED
      BY <2>2, <2>3
  <1>15. CASE UseFreedConnection
    <2>1. /\ fault = NoFault /\ ~qwc.live /\ pc["client"] \notin Over
          /\ Broken(<<"client", "used freed qwc">>)
      BY <1>15 DEF UseFreedConnection, Over
    <2>2. ~Ok
      BY <2>1 DEF RaceInv, SharedInv
    <2> QED
      BY <2>1, <2>2, FaultRaces
  <1> QED
    BY <1>6, <1>7, <1>8, <1>9, <1>10, <1>11, <1>12, <1>13, <1>14, <1>15

\* What was refused once stays so, and so does abort.
LEMMA LostRaces ==
  ASSUME fault = NoFault, ~Ok, failed => failed', qwc.abort => qwc'.abort
  PROVE  RaceInv'
  BY DEF Ok, RaceInv, OnlyClientRaces

LEMMA AbortStays ==
  ASSUME IInv, NEW t \in Callers, Procedures(t)
  PROVE  fault = NoFault /\ (failed => failed') /\ (qwc.abort => qwc'.abort)
  <1>1. qwc \in QWC
    BY DEF IInv, QwcInv
  <1>2. \A what : Broken(what) => (failed => failed') /\ (qwc.abort => qwc'.abort)
    BY DEF Broken
  <1>3. ASSUME NEW label, NEW field, NEW value, NEW next, field \in {"netqw", "state", "quit",
               "run_thread"}, Assign(t, label, field, value, next)
        PROVE  (failed => failed') /\ (qwc.abort => qwc'.abort)
    BY <1>1, <1>3 DEF Assign, Set, QWC
  <1>4. fault = NoFault
    BY DEF Procedures, AskToQuit, JoinNet, DeleteMutex, FreeNet, CallDelete, ClearPointers,
           JoinClient, QuitDisconnects, SetQuit, Destroy, Assign, At
  <1>5. CASE AskToQuit(t) \/ JoinNet(t) \/ DeleteMutex(t) \/ FreeNet(t) \/ CallDelete(t)
               \/ QuitDisconnects(t)
    <2>1. CASE AskToQuit(t) \/ DeleteMutex(t) \/ FreeNet(t)
      BY <1>2, <1>4, <2>1 DEF AskToQuit, DeleteMutex, FreeNet
    <2>2. CASE JoinNet(t)
      BY <1>2, <1>4, <2>2, Zenon DEF JoinNet
    <2>3. CASE CallDelete(t) \/ QuitDisconnects(t)
      BY <1>4, <2>3 DEF CallDelete, QuitDisconnects
    <2> QED
      BY <1>5, <2>1, <2>2, <2>3
  <1>6. CASE ClearPointers(t) \/ SetQuit(t)
    <2>1. \A label, value, next :
            \/ Assign(t, label, "netqw", value, next) \/ Assign(t, label, "state", value, next)
            \/ Assign(t, label, "quit", value, next) \/ Assign(t, label, "run_thread", value, next)
            => (failed => failed') /\ (qwc.abort => qwc'.abort)
      BY <1>3
    <2> QED
      BY <1>4, <1>6, <2>1, Zenon DEF ClearPointers, SetQuit
  <1>7. CASE JoinClient(t)
    <2>1. \A held : [qwc EXCEPT !.thread = FALSE, !.held = held].abort = qwc.abort
      BY <1>1 DEF QWC
    <2> QED
      BY <1>2, <1>4, <1>7, <2>1 DEF JoinClient
  <1>8. CASE Destroy(t)
    <2>1. \A held : [[qwc EXCEPT !.netdata = FALSE, !.held = held]
                       EXCEPT !.run_thread = FALSE].abort = qwc.abort
      BY <1>1 DEF QWC
    <2> QED
      BY <1>2, <1>4, <1>8, <2>1 DEF Destroy, NET_Shutdown
  <1> QED
    BY <1>4, <1>5, <1>6, <1>7, <1>8 DEF Procedures

\* The client's thread quits only when abort is set.
LEMMA ClientQuitsRaces ==
  ASSUME IInv, Procedures("client")
  PROVE  RaceInv'
  <1>1. pc["client"] \notin Over \cup Loop
    BY DEF Procedures, AskToQuit, JoinNet, DeleteMutex, FreeNet, CallDelete, ClearPointers,
           JoinClient, QuitDisconnects, SetQuit, Destroy, Assign, At, Over, Loop
  <1>2. qwc.abort
    BY <1>1 DEF IInv, ClientInv
  <1> QED
    BY <1>2, AbortStays, LostRaces DEF Ok, Callers

LEMMA AppAsksRaces ==
  ASSUME IInv, Ok, SharedInv, ReadyInv, AskToQuit("app") \/ JoinNet("app") \/ DeleteMutex("app")
  PROVE  RaceInv'
  <1> DEFINE p == ptr["app"]
  <1>1. NetInv /\ platform \in Systems /\ pc["app"] \in {"delete", "join_net", "delete_mutex"}
    BY DEF IInv, NetInv, AskToQuit, JoinNet, DeleteMutex, At
  <1>2. p = qwc.netqw /\ qwc.thread /\ Lockable(p)
    BY <1>1 DEF ReadyInv, Up, Deleting
  <1>3. /\ Valid(p) /\ p \in DOMAIN net /\ net[p] \in NetQW /\ net[p].live
        /\ MutexThings(platform) \subseteq net[p].held
    BY <1>1, <1>2, ThereIsValid DEF Lockable, There, Sound
  <1>4. pc["app"] # "delete_mutex" => net[p].thread \in {"running", "ended"}
    BY <1>1, <1>2 DEF ReadyInv, Up
  <1>5. PICK n, label :
          /\ net' = [net EXCEPT ![p] = n] /\ Goto("app", label) /\ n.live
          /\ UNCHANGED <<platform, qwc, ptr, app, failed, fault>>
          /\ label \in {"join_net", "delete_mutex"} => MutexThings(platform) \subseteq n.held
          /\ label = "join_net" => n.thread \in {"running", "ended"}
          /\ label \in {"join_net", "delete_mutex", "free"}
    <2>1. CASE AskToQuit("app")
      <3>1. PICK n : n = [net[p] EXCEPT !.quit = TRUE]
        OBVIOUS
      <3>2. n.live /\ n.thread = net[p].thread /\ n.held = net[p].held
        BY <1>3, <3>1 DEF NetQW
      <3>3. /\ net' = [net EXCEPT ![p] = n] /\ Goto("app", "join_net")
            /\ UNCHANGED <<platform, qwc, ptr, app, failed, fault>>
        BY <1>3, <2>1, <3>1 DEF AskToQuit
      <3>4. pc["app"] # "delete_mutex"
        BY <2>1 DEF AskToQuit, At
      <3> QED
        BY <1>3, <1>4, <3>2, <3>3, <3>4
    <2>2. CASE JoinNet("app")
      <3>1. pc["app"] # "delete_mutex"
        BY <2>2 DEF JoinNet, At
      <3>2. PICK n \in NetJoined("app", net[p]) :
              /\ net' = [net EXCEPT ![p] = n] /\ Goto("app", "delete_mutex")
              /\ UNCHANGED <<platform, qwc, ptr, app, failed, fault>>
        BY <1>3, <1>4, <2>2, <3>1 DEF JoinNet
      <3>3. PICK ended \in BOOLEAN : ended = (net[p].thread = "ended")
        OBVIOUS
      <3>4. PICK join : join = Sys_Thread_DeleteThread(platform, "app", "net", ended)
        OBVIOUS
      <3>5. join.frees = ThreadThings(platform)
        BY <1>1, <3>4, Joining
      <3>6. n = [net[p] EXCEPT !.thread = "joined", !.held = net[p].held \ join.frees]
        BY <1>4, <3>1, <3>2, <3>3, <3>4 DEF NetJoined
      <3>7. n.live /\ n.held = net[p].held \ ThreadThings(platform)
        BY <1>3, <3>5, <3>6 DEF NetQW
      <3>8. MutexThings(platform) \subseteq n.held
        BY <1>1, <1>3, <3>7, LocksAre
      <3> QED
        BY <3>2, <3>7, <3>8
    <2>3. CASE DeleteMutex("app")
      <3>1. PICK n : n = [net[p] EXCEPT !.held = Sys_Thread_DeleteMutex(platform, @)]
        OBVIOUS
      <3>2. n.live
        BY <1>3, <3>1 DEF NetQW
      <3>3. /\ net' = [net EXCEPT ![p] = n] /\ Goto("app", "free")
            /\ UNCHANGED <<platform, qwc, ptr, app, failed, fault>>
        BY <1>3, <2>3, <3>1 DEF DeleteMutex
      <3> QED
        BY <3>2, <3>3
    <2> QED
      BY <2>1, <2>2, <2>3
  <1>6. pc'["app"] = label /\ pc'["client"] = pc["client"]
    BY <1>5, GotoIs DEF IInv, PlaceInv, Callers
  <1>7. p \in DOMAIN net' /\ net'[p] = n
    <2>1. net \in Seq(NetQW) /\ DOMAIN net = 1 .. Len(net)
      BY <1>1, NetIndices DEF NetInv
    <2> QED
      BY <1>3, <1>5, <2>1
  <1>8. qwc'.netqw = p /\ ptr'["app"] = p /\ platform' = platform
    BY <1>2, <1>5
  <1>9. /\ There(qwc.netqw)'
        /\ label \in {"join_net", "delete_mutex"} => Lockable(qwc.netqw)'
        /\ label = "join_net" => Up(qwc.netqw)'
    <2> HIDE DEF p
    <2> QED
      BY <1>5, <1>7, <1>8 DEF There, Lockable, Up
  <1>10. fault' = NoFault
    BY <1>5 DEF Ok
  <1>11. SharedInv'
    BY <1>1, <1>5, <1>6 DEF SharedInv
  <1>12. app' # "connected"
    BY <1>1, <1>5 DEF ReadyInv, Deleting
  <1>13. ReadyInv'
    BY <1>2, <1>5, <1>6, <1>8, <1>9, <1>12 DEF ReadyInv, Deleting, Clearing
  <1> QED
    BY <1>10, <1>11, <1>13, NoFaultRaces

LEMMA AppFreesRaces ==
  ASSUME IInv, Ok, SharedInv, ReadyInv, FreeNet("app") \/ CallDelete("app")
  PROVE  RaceInv'
  <1>1. PlaceInv /\ NetInv /\ "app" \in Callers /\ "client" \in Callers
    BY DEF IInv, Callers
  <1>2. CASE FreeNet("app")
    <2>1. pc["app"] = "free" /\ There(qwc.netqw) /\ ptr["app"] = qwc.netqw /\ qwc.thread
          /\ app # "connected" /\ fault = NoFault /\ qwc.live
      BY <1>2 DEF FreeNet, At, ReadyInv, Deleting
    <2>2. Valid(ptr["app"])
      BY <1>1, <2>1, ThereIsValid
    <2>3. Return("app") /\ UNCHANGED <<platform, qwc, ptr, app, failed, fault>>
      BY <1>2, <2>2 DEF FreeNet
    <2>4. pc'["app"] = "clear_netqw" /\ pc'["client"] = pc["client"]
      BY <1>1, <2>1, <2>3, PlaceFreed DEF Callers
    <2>5. SharedInv'
      BY <2>1, <2>3, <2>4 DEF SharedInv
    <2>6. ReadyInv'
      BY <2>1, <2>3, <2>4 DEF ReadyInv, Deleting, Clearing
    <2> QED
      BY <2>1, <2>3, <2>5, <2>6, NoFaultRaces
  <1>3. CASE CallDelete("app")
    <2>1. pc["app"] = "disconnect" /\ Up(qwc.netqw) /\ qwc.thread
          /\ ptr' = [ptr EXCEPT !["app"] = qwc.netqw] /\ Call("app", "delete", "clear_netqw")
          /\ UNCHANGED <<platform, qwc, net, app, failed, fault>> /\ fault = NoFault
      BY <1>3 DEF CallDelete, At, ReadyInv
    <2>2. pc'["app"] = "delete" /\ pc'["client"] = pc["client"] /\ app # "connected"
      BY <1>1, <2>1, PlaceDeletes DEF Callers
    <2>3. ptr'["app"] = qwc'.netqw /\ Up(qwc.netqw)'
      BY <1>1, <2>1 DEF Up, Lockable, There, IInv, HandInv
    <2>4. SharedInv'
      BY <2>1, <2>2 DEF SharedInv
    <2>5. ReadyInv'
      BY <2>1, <2>2, <2>3 DEF ReadyInv, Deleting, Clearing
    <2> QED
      BY <2>1, <2>4, <2>5, NoFaultRaces
  <1> QED
    BY <1>2, <1>3

LEMMA AppClearsRaces ==
  ASSUME IInv, Ok, SharedInv, ReadyInv, ClearPointers("app") \/ SetQuit("app")
  PROVE  RaceInv'
  <1>1. /\ PlaceInv /\ "app" \in Callers /\ "client" \in Callers /\ qwc \in QWC
        /\ \A label : Goto("app", label) =>
             pc'["app"] = label /\ pc'["client"] = pc["client"]
    BY GotoIs DEF IInv, Callers, PlaceInv, QwcInv
  <1>2. PICK label, field, value, next :
          /\ Assign("app", label, field, value, next)
          /\ \/ label = "clear_netqw" /\ field = "netqw" /\ value = Null /\ next = "set_idle"
             \/ label = "set_idle" /\ field = "state" /\ value = qwc_state_idle /\ next = "stop"
             \/ label = "stop" /\ field = "run_thread" /\ value = FALSE /\ next = "join_client"
             \/ label = "set_quit" /\ field = "quit" /\ value = TRUE /\ next = "destroy"
    BY Zenon DEF ClearPointers, SetQuit
  <1>3. /\ fault = NoFault /\ pc["app"] = label /\ qwc' = [qwc EXCEPT ![field] = value]
        /\ pc'["app"] = next /\ pc'["client"] = pc["client"]
        /\ UNCHANGED <<platform, net, ptr, app, failed, fault>>
    BY <1>1, <1>2 DEF Assign, At, Set
  <1>4. /\ qwc'.live = qwc.live /\ qwc'.thread = qwc.thread /\ qwc'.netdata = qwc.netdata
        /\ qwc'.held = qwc.held
        /\ label # "set_quit" => qwc'.quit = qwc.quit
        /\ label = "clear_netqw" => qwc'.netqw = Null
        /\ label # "clear_netqw" => qwc'.netqw = qwc.netqw
    BY <1>1, <1>2, <1>3 DEF QWC
  <1>5. label = "set_quit" => app = "quit"
    BY <1>1, <1>3 DEF PlaceInv, AppPlace, Disconnecting, Clearing, Deleting, Quitting
  <1>6. SharedInv'
    BY <1>2, <1>3, <1>4, <1>5 DEF SharedInv
  <1>7. label \in Clearing => qwc.thread
    BY <1>3 DEF ReadyInv
  <1>8. label \in {"set_idle", "stop"} => qwc.netqw = Null
    BY <1>3 DEF ReadyInv
  <1>9. ReadyInv'
    BY <1>2, <1>3, <1>4, <1>7, <1>8 DEF ReadyInv, Deleting, Clearing
  <1> QED
    BY <1>3, <1>6, <1>9, NoFaultRaces

LEMMA AppJoinsRaces ==
  ASSUME IInv, Ok, SharedInv, ReadyInv, JoinClient("app")
  PROVE  RaceInv'
  <1>1. /\ PlaceInv /\ "app" \in Callers /\ "client" \in Callers /\ qwc \in QWC
        /\ platform \in Systems
    BY DEF IInv, Callers, QwcInv, NetInv
  <1>2. pc["app"] = "join_client" /\ qwc.thread /\ qwc.netqw = Null /\ fault = NoFault
        /\ qwc.live
    BY DEF JoinClient, At, ReadyInv, Clearing
  <1>3. PICK ended \in BOOLEAN : ended = (pc["client"] = "ended")
    OBVIOUS
  <1>4. PICK join : join = Sys_Thread_DeleteThread(platform, "app", "client", ended)
    OBVIOUS
  <1>5. /\ qwc' = [qwc EXCEPT !.thread = FALSE, !.held = @ \ join.frees]
        /\ Return("app") /\ UNCHANGED <<platform, net, ptr, app, failed, fault>>
    BY <1>2, <1>3, <1>4 DEF JoinClient
  <1>6. /\ qwc'.live = qwc.live /\ qwc'.netdata = qwc.netdata /\ qwc'.quit = qwc.quit
        /\ qwc'.netqw = Null /\ qwc'.held = qwc.held \ ThreadThings(platform)
    <2>1. join.frees = ThreadThings(platform)
      BY <1>1, <1>4, Joining
    <2>2. PICK held : held = qwc.held \ ThreadThings(platform)
      OBVIOUS
    <2>3. qwc' = [qwc EXCEPT !.thread = FALSE, !.held = held]
      BY <1>5, <2>1, <2>2
    <2> QED
      BY <1>1, <1>2, <2>2, <2>3 DEF QWC
  <1>7. /\ \/ pc'["app"] = "set_quit"
           \/ app = "none" /\ pc'["app"] = "idle"
        /\ pc'["client"] = pc["client"]
    BY <1>1, <1>2, <1>5, PlaceDisconnected DEF Callers
  <1>8. NetThings(platform) \subseteq qwc.held => NetThings(platform) \subseteq qwc'.held
    BY <1>1, <1>6, ThingsAre
  <1>9. SharedInv'
    BY <1>2, <1>5, <1>6, <1>7, <1>8 DEF SharedInv
  <1>10. ReadyInv'
    BY <1>2, <1>5, <1>6, <1>7 DEF ReadyInv, Deleting, Clearing
  <1> QED
    BY <1>2, <1>5, <1>9, <1>10, NoFaultRaces

LEMMA AppQuitsRaces ==
  ASSUME IInv, Ok, SharedInv, ReadyInv, QuitDisconnects("app")
  PROVE  RaceInv'
  <1>1. /\ PlaceInv /\ "app" \in Callers /\ "client" \in Callers
        /\ pc["app"] = "quit" /\ fault = NoFault /\ qwc.live
        /\ UNCHANGED <<platform, qwc, net, ptr, app, failed, fault>>
    BY DEF IInv, Callers, QuitDisconnects, At
  <1>2. /\ pc'["client"] = pc["client"]
        /\ \/ pc'["app"] = "disconnect" /\ qwc.netqw # Null
           \/ pc'["app"] = "set_quit"
    <2>1. CASE qwc.netqw # Null
      BY <1>1, <2>1, PlaceQuits DEF QuitDisconnects, Callers
    <2>2. CASE qwc.netqw = Null
      BY <1>1, <2>2, GotoIs DEF QuitDisconnects, Callers, PlaceInv
    <2> QED
      BY <2>1, <2>2
  <1>3. pc'["app"] = "disconnect" => Up(qwc.netqw)' /\ qwc.thread
    BY <1>1, <1>2 DEF ReadyInv, Up, Lockable, There
  <1>4. SharedInv'
    BY <1>1, <1>2 DEF SharedInv
  <1>5. ReadyInv'
    BY <1>1, <1>2, <1>3 DEF ReadyInv, Deleting, Clearing
  <1> QED
    BY <1>1, <1>4, <1>5, NoFaultRaces

LEMMA AppDestroysRaces ==
  ASSUME IInv, Ok, SharedInv, ReadyInv, Destroy("app")
  PROVE  RaceInv'
  <1>1. /\ PlaceInv /\ "app" \in Callers /\ "client" \in Callers /\ qwc \in QWC
        /\ platform \in Systems
        /\ pc["app"] = "destroy" /\ fault = NoFault /\ qwc.live
    BY DEF IInv, Callers, QwcInv, NetInv, Destroy, At
  <1>2. qwc.netdata /\ NetThings(platform) \subseteq qwc.held
    BY <1>1 DEF SharedInv
  <1>3. NET_ShutdownFault("app") = NoFault
    BY <1>1, <1>2, LocksAre DEF NET_ShutdownFault
  <1>4. /\ qwc' = [NET_Shutdown EXCEPT !.run_thread = FALSE]
        /\ Return("app") /\ UNCHANGED <<platform, net, ptr, app, failed, fault>>
    BY <1>3 DEF Destroy
  <1>5. qwc'.live = qwc.live /\ ~qwc'.netdata
    <2>1. PICK held : held = qwc.held \ Sys_Net_Shutdown(platform).frees
      OBVIOUS
    <2>2. PICK gone : gone = [qwc EXCEPT !.netdata = FALSE, !.held = held]
      OBVIOUS
    <2>3. qwc' = [gone EXCEPT !.run_thread = FALSE]
      BY <1>4, <2>1, <2>2 DEF NET_Shutdown
    <2> QED
      BY <1>1, <2>2, <2>3 DEF QWC
  <1>6. pc'["app"] = "idle" /\ app = "quit" /\ pc'["client"] = pc["client"]
    BY <1>1, <1>4, PlaceDestroyed DEF Callers
  <1>7. SharedInv'
    BY <1>1, <1>4, <1>5, <1>6 DEF SharedInv
  <1>8. ReadyInv'
    BY <1>4, <1>6 DEF ReadyInv, Deleting, Clearing
  <1> QED
    BY <1>1, <1>4, <1>7, <1>8, NoFaultRaces

LEMMA AppProceduresRaces ==
  ASSUME IInv, RaceInv, Procedures("app")
  PROVE  RaceInv'
  <1>1. CASE ~Ok
    BY <1>1, AbortStays, LostRaces DEF Callers
  <1>2. CASE Ok
    <2>1. SharedInv /\ ReadyInv
      BY <1>2 DEF RaceInv
    <2> QED
      BY <1>2, <2>1, AppAsksRaces, AppFreesRaces, AppClearsRaces, AppJoinsRaces,
         AppQuitsRaces, AppDestroysRaces DEF Procedures
  <1> QED
    BY <1>1, <1>2

LEMMA AppCreatesRaces ==
  ASSUME IInv, Ok, SharedInv, ReadyInv, CreateNet
  PROVE  RaceInv'
  <1>1. /\ PlaceInv /\ NetInv /\ "app" \in Callers /\ "client" \in Callers /\ qwc \in QWC
        /\ platform \in Systems /\ pc["app"] = "connect" /\ fault = NoFault /\ qwc.live
        /\ UNCHANGED <<platform, ptr, app, fault>>
    BY DEF IInv, Callers, QwcInv, NetInv, CreateNet, At
  <1>2. PICK host \in Hosts \cup {Server} :
          \E n \in NetQW_Create(host) :
            /\ net' = Append(net, n)
            /\ Set("netqw", IF n.live THEN Len(net) + 1 ELSE Null)
            /\ IF n.live THEN Goto("app", "start") ELSE Return("app")
            /\ failed' = (failed \/ n.thread = "none")
    BY DEF CreateNet
  <1>3. PICK n \in NetQW_Create(host) :
          /\ net' = Append(net, n)
          /\ Set("netqw", IF n.live THEN Len(net) + 1 ELSE Null)
          /\ IF n.live THEN Goto("app", "start") ELSE Return("app")
          /\ failed' = (failed \/ n.thread = "none")
    BY <1>2
  <1>4. CASE n.thread = "none"
    BY <1>1, <1>3, <1>4, NoFaultRaces DEF Ok
  <1>5. CASE n.thread # "none"
    <2>1. n.live /\ n.thread = "running" /\ MutexThings(platform) \subseteq n.held
      BY <1>1, <1>5, CreatedUp
    <2>2. pc'["app"] = "start" /\ pc'["client"] = pc["client"]
      BY <1>1, <1>3, <2>1, GotoIs DEF PlaceInv, Callers
    <2>3. PICK new \in Nat : new = Len(net) + 1
      BY NetIndices DEF IInv
    <2>4. /\ qwc'.netqw = new /\ qwc'.live = qwc.live /\ qwc'.quit = qwc.quit
          /\ qwc'.netdata = qwc.netdata /\ qwc'.held = qwc.held
      BY <1>1, <1>3, <2>1, <2>3 DEF QWC, Set
    <2>5. Sound(n)
      BY <1>1, NewSound
    <2>6. new \in DOMAIN net' /\ net'[new] = n
      BY <1>1, <1>3, <2>3, <2>5, Appended
    <2>7. Up(qwc.netqw)'
      BY <1>1, <2>1, <2>4, <2>6 DEF Up, Lockable, There
    <2>8. SharedInv'
      BY <1>1, <2>2, <2>4 DEF SharedInv
    <2>9. ReadyInv'
      BY <2>2, <2>7 DEF ReadyInv, Deleting, Clearing
    <2> QED
      BY <1>1, <2>8, <2>9, NoFaultRaces
  <1> QED
    BY <1>4, <1>5

LEMMA AppStartsRaces ==
  ASSUME IInv, Ok, SharedInv, ReadyInv, StartClient \/ NotStarted
  PROVE  RaceInv'
  <1>1. ~NotStarted
    BY DEF ReadyInv, NotStarted, At
  <1>2. /\ PlaceInv /\ qwc \in QWC /\ pc["app"] = "start" /\ fault = NoFault /\ qwc.live
        /\ UNCHANGED <<platform, net, app, fault>>
    BY <1>1 DEF IInv, QwcInv, StartClient, At
  <1>3. PICK thread \in Sys_Thread_CreateThread(platform) :
          /\ qwc' = [qwc EXCEPT !.state = QWC_CONNECTING, !.run_thread = TRUE,
                                !.thread = (thread # {}), !.held = @ \cup thread]
          /\ IF thread # {}
             THEN /\ pc' = [pc EXCEPT !["app"] = Head(stack["app"]), !["client"] = "top"]
                  /\ stack' = [stack EXCEPT !["app"] = Tail(@)]
                  /\ UNCHANGED <<ptr, failed>>
             ELSE /\ ptr' = [ptr EXCEPT !["app"] = qwc.netqw]
                  /\ Call("app", "delete", "not_started")
                  /\ failed' = TRUE
    BY <1>1 DEF StartClient
  <1>4. CASE thread = {}
    BY <1>2, <1>3, <1>4, NoFaultRaces DEF Ok
  <1>5. CASE thread # {}
    <2>1. app = "connected" /\ stack["app"] = <<"idle">>
      BY <1>2 DEF PlaceInv, AppPlace, Disconnecting, Clearing, Deleting, Quitting
    <2>2. pc'["app"] = "idle"
      <3>1. Head(<<"idle">>) = "idle"
        BY Stacks
      <3> QED
        BY <1>2, <1>3, <1>5, <2>1, <3>1 DEF PlaceInv, Callers
    <2>3. PICK held : held = qwc.held \cup thread
      OBVIOUS
    <2>4. PICK got \in BOOLEAN : got <=> thread # {}
      OBVIOUS
    <2>5. qwc' = [qwc EXCEPT !.state = QWC_CONNECTING, !.run_thread = TRUE,
                             !.thread = got, !.held = held]
      <3>1. got = (thread # {})
        BY <2>4
      <3> QED
        BY <1>3, <2>3, <3>1
    <2>6. /\ qwc'.live = qwc.live /\ qwc'.netdata = qwc.netdata /\ qwc'.quit = qwc.quit
          /\ qwc'.netqw = qwc.netqw /\ qwc'.held = qwc.held \cup thread
          /\ qwc'.thread /\ qwc'.state = QWC_CONNECTING
      BY <1>2, <1>5, <2>3, <2>4, <2>5 DEF QWC
    <2>7. SharedInv'
      BY <1>2, <2>2, <2>6 DEF SharedInv
    <2>8. Up(qwc.netqw)'
      BY <1>2, <2>6 DEF ReadyInv, Up, Lockable, There
    <2>9. ReadyInv'
      BY <1>2, <2>1, <2>2, <2>6, <2>8
         DEF ReadyInv, Deleting, Clearing, QWC_CONNECTING, qwc_state_idle
    <2> QED
      BY <1>2, <2>7, <2>9, NoFaultRaces
  <1> QED
    BY <1>4, <1>5

\* The application calls QWC_Connect, QWC_Disconnect or QWC_Quit.
LEMMA AppCallsRaces ==
  ASSUME IInv, Ok, SharedInv, ReadyInv, NEW label, NEW belief,
         At("app", "idle"), AppCalls(label, belief),
         \/ label = "connect" /\ belief = "connected" /\ app = "none" /\ ~qwc.quit
         \/ label = "disconnect" /\ belief = "none" /\ app = "connected"
         \/ label = "quit" /\ belief = "quit" /\ app # "quit"
  PROVE  RaceInv'
  <1>1. /\ PlaceInv /\ pc["app"] = "idle" /\ fault = NoFault /\ qwc.live
        /\ Call("app", label, "idle") /\ app' = belief
        /\ UNCHANGED <<platform, qwc, net, ptr, failed, fault>>
    BY DEF IInv, At, AppCalls
  <1>2. pc'["app"] = label /\ pc'["client"] = pc["client"]
    BY <1>1, CallIs DEF PlaceInv, Callers
  <1>3. app \in {"none", "connected", "quit"}
    BY <1>1 DEF PlaceInv, AppPlace, Disconnecting, Clearing, Deleting, Quitting
  <1>4. Up(qwc.netqw) => Up(qwc.netqw)'
    BY <1>1 DEF Up, Lockable, There
  <1>5. qwc.netdata \/ app = "quit"
    BY DEF SharedInv
  <1>6. SharedInv'
    BY <1>1, <1>2, <1>3, <1>5 DEF SharedInv
  <1>7. ReadyInv'
    BY <1>1, <1>2, <1>3, <1>4 DEF ReadyInv, Deleting, Clearing
  <1> QED
    BY <1>1, <1>6, <1>7, NoFaultRaces

LEMMA AppUsesRaces ==
  ASSUME IInv, Ok, SharedInv, ReadyInv, AppSay \/ AppFree
  PROVE  RaceInv'
  <1>1. ~AppSay
    <2>1. pc["app"] = "idle" /\ app = "connected" => Valid(qwc.netqw) /\ HasMutex(qwc.netqw)
      BY LockableHasMutex DEF ReadyInv, Up, IInv
    <2> QED
      BY <2>1 DEF AppSay, At
  <1>2. /\ PlaceInv /\ qwc \in QWC /\ pc["app"] = "idle" /\ app # "none" /\ qwc.live
        /\ fault = NoFault
        /\ qwc.quit \/ qwc.state = qwc_state_idle
        /\ qwc' = [qwc EXCEPT !.live = FALSE] /\ Goto("app", "gone")
        /\ UNCHANGED <<platform, net, ptr, app, failed, fault>>
    BY <1>1 DEF IInv, QwcInv, AppFree, At, Set
  <1>3. app = "quit"
    BY <1>2 DEF SharedInv, ReadyInv, PlaceInv, AppPlace, Disconnecting, Clearing, Deleting,
                Quitting
  <1>4. pc'["app"] = "gone" /\ pc'["client"] = pc["client"]
    BY <1>2, GotoIs DEF PlaceInv, Callers
  <1>5. pc["client"] \in Over
    BY <1>2, <1>3 DEF IInv, ClientInv, NoClient, Ok
  <1>6. ~qwc'.live /\ qwc'.netdata = qwc.netdata /\ qwc'.held = qwc.held
    BY <1>2 DEF QWC
  <1>7. SharedInv'
    BY <1>2, <1>3, <1>4, <1>5, <1>6 DEF SharedInv
  <1>8. ReadyInv'
    BY <1>4 DEF ReadyInv, Deleting, Clearing
  <1> QED
    BY <1>2, <1>7, <1>8, NoFaultRaces

LEMMA InitRace == Init => RaceInv
  <1> SUFFICES ASSUME Init PROVE RaceInv
    OBVIOUS
  <1>1. platform \in Systems /\ fault = NoFault /\ app = "none" /\ pc["app"] = "idle"
    BY DEF Init, Systems, Callers
  <1>2. PICK held \in Sys_Net_Init(platform) :
          /\ qwc = [live |-> TRUE, netqw |-> Null, thread |-> FALSE, netdata |-> TRUE,
                    state |-> qwc_state_idle, run_thread |-> FALSE,
                    quit |-> FALSE, abort |-> FALSE, held |-> held]
          /\ failed = ("netdata" \notin held)
    BY DEF Init, NET_Init
  <1>3. ~failed => held = NetThings(platform)
    BY <1>1, <1>2, NetInitOf
  <1>4. ~failed => SharedInv
    BY <1>1, <1>2, <1>3 DEF SharedInv
  <1>5. ReadyInv
    BY <1>1, <1>2 DEF ReadyInv, Deleting, Clearing
  <1> QED
    BY <1>1, <1>4, <1>5 DEF RaceInv, OnlyClientRaces, Ok

LEMMA AppRaces ==
  ASSUME IInv, RaceInv,
         AppConnect \/ AppDisconnect \/ AppQuit \/ AppSay \/ AppFree \/ AppInCall
  PROVE  RaceInv'
  <1>1. CASE Procedures("app")
    BY <1>1, AppProceduresRaces
  <1>2. CASE ~Procedures("app") /\ ~Ok
    <2>1. \A what : Broken(what) => (failed => failed') /\ (qwc.abort => qwc'.abort)
      BY DEF Broken
    <2>2. fault = NoFault
      BY <1>2 DEF AppConnect, AppDisconnect, AppQuit, AppSay, AppFree, AppInCall, CreateNet,
                  StartClient, NotStarted, At
    <2>3. (failed => failed') /\ (qwc.abort => qwc'.abort)
      <3>1. qwc \in QWC
        BY DEF IInv, QwcInv
      <3>2. CASE AppConnect \/ AppDisconnect \/ AppQuit
        BY <3>2 DEF AppConnect, AppDisconnect, AppQuit, AppCalls
      <3>3. CASE AppSay
        BY <2>1, <3>3, Zenon DEF AppSay
      <3>4. CASE AppFree \/ NotStarted
        <4>1. \A value : Set("live", value) \/ Set("state", value) => qwc'.abort = qwc.abort
          BY <3>1 DEF Set, QWC
        <4>2. UNCHANGED failed /\ (Set("live", FALSE) \/ Set("state", QWC_IDLE))
          BY <3>4 DEF AppFree, NotStarted
        <4> QED
          BY <4>1, <4>2
      <3>5. CASE CreateNet
        <4>1. failed => failed'
          BY <3>5 DEF CreateNet
        <4>2. \E value : Set("netqw", value)
          BY <3>5, Zenon DEF CreateNet
        <4> QED
          BY <3>1, <4>1, <4>2 DEF Set, QWC
      <3>6. CASE StartClient
        <4>1. PICK thread, held :
                qwc' = [qwc EXCEPT !.state = QWC_CONNECTING, !.run_thread = TRUE,
                                   !.thread = (thread # {}), !.held = held]
          BY <3>6, Zenon DEF StartClient
        <4>2. failed => failed'
          BY <3>6 DEF StartClient
        <4>3. qwc'.abort = qwc.abort
          <5>1. PICK got \in BOOLEAN : got = (thread # {})
            OBVIOUS
          <5>2. qwc' = [qwc EXCEPT !.state = QWC_CONNECTING, !.run_thread = TRUE,
                                   !.thread = got, !.held = held]
            BY <4>1, <5>1
          <5> QED
            BY <3>1, <5>2 DEF QWC
        <4> QED
          BY <4>2, <4>3
      <3> QED
        BY <1>2, <3>2, <3>3, <3>4, <3>5, <3>6 DEF AppInCall
    <2> QED
      BY <1>2, <2>2, <2>3, LostRaces
  <1>3. CASE ~Procedures("app") /\ Ok
    <2>1. SharedInv /\ ReadyInv
      BY <1>3 DEF RaceInv
    <2>2. CASE AppConnect
      BY <1>3, <2>1, <2>2, AppCallsRaces DEF AppConnect
    <2>3. CASE AppDisconnect
      BY <1>3, <2>1, <2>3, AppCallsRaces DEF AppDisconnect
    <2>4. CASE AppQuit
      BY <1>3, <2>1, <2>4, AppCallsRaces DEF AppQuit
    <2> QED
      BY <1>3, <2>1, <2>2, <2>3, <2>4, AppCreatesRaces, AppStartsRaces, AppUsesRaces
         DEF AppInCall
  <1> QED
    BY <1>1, <1>2, <1>3

LEMMA NextRace == IInv /\ RaceInv /\ [Next]_vars => RaceInv'
  <1> SUFFICES ASSUME IInv, RaceInv, [Next]_vars PROVE RaceInv'
    OBVIOUS
  <1>1. CASE UNCHANGED vars
    BY <1>1 DEF vars, RaceInv, OnlyClientRaces, Ok, SharedInv, ReadyInv, There, Lockable, Up
  <1>2. CASE AppConnect \/ AppDisconnect \/ AppQuit \/ AppSay \/ AppFree \/ AppInCall
    BY <1>2, AppRaces
  <1>3. CASE ClientThread
    BY <1>3, ClientRaces, ClientQuitsRaces DEF ClientThread
  <1>4. CASE \E p \in DOMAIN net : NetThread(p)
    BY <1>4, NetThreadRaces
  <1> QED
    BY <1>1, <1>2, <1>3, <1>4 DEF Next

(* As long as every creation succeeds and no message sets abort, the           *)
(* application uses only what is there, for any number of connections, and     *)
(* the one illegal access is that of the client's thread between NetQW_Delete  *)
(* and the end of QWC_Disconnect (main.c:1062-1067).                           *)
THEOREM OnlyClientRacesAlways == Spec => []OnlyClientRaces
  <1>1. RaceInv => OnlyClientRaces
    BY DEF RaceInv
  <1> QED
    BY <1>1, Invariance, InitRace, NextRace, PTL DEF Spec

=============================================================================
