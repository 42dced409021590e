------------------------------- MODULE Ports -------------------------------
(***************************************************************************)
(* The functions of sys_thread.h and sys_net.h on the four systems the     *)
(* repository has them for: "posix", "win32", "morphos" (with AmiTCP's     *)
(* sockets) and "null".  What a function acquires from its system is a set *)
(* of names; what a system may refuse, it refuses in some outcome.         *)
(***************************************************************************)
EXTENDS Integers, Sequences, SequencesExt

\* What remains of a function that acquires these things in this order: all of them,
\* or, when one is refused, what it does not give back of those before.
Acquire(things, kept) ==
  {ToSet(things)}
    \cup {ToSet(SubSeq(things, 1, n)) \cap kept : n \in 0 .. Len(things) - 1}

\* The implementation linked in.
Linked(platform, posix, win32, morphos, null) ==
  CASE platform = "posix"   -> posix
    [] platform = "win32"   -> win32
    [] platform = "morphos" -> morphos
    [] platform = "null"    -> null

-----------------------------------------------------------------------------
(* Threads. *)

PosixCreateThread == Acquire(<<"systhread", "pthread">>, {})
Win32CreateThread == Acquire(<<"systhread", "handle">>, {})
MorphosCreateThread == Acquire(<<"systhread", "msgport", "process">>, {})
NullCreateThread == {{}}

Sys_Thread_CreateThread(platform) ==
  Linked(platform, PosixCreateThread, Win32CreateThread, MorphosCreateThread,
         NullCreateThread)

\* Whether Sys_Thread_DeleteThread, called by thread t, returns, and what it frees.
PosixDeleteThread(t, who, ended) ==
  [returns |-> ended \/ t = who,  \* pthread_join: EDEADLK
   frees |-> {"systhread", "pthread"}]
Win32DeleteThread(ended) == [returns |-> ended, frees |-> {"systhread", "handle"}]
MorphosDeleteThread(ended) ==
  [returns |-> ended, frees |-> {"systhread", "msgport", "process"}]
NullDeleteThread == [returns |-> TRUE, frees |-> {}]

Sys_Thread_DeleteThread(platform, t, who, ended) ==
  Linked(platform, PosixDeleteThread(t, who, ended), Win32DeleteThread(ended),
         MorphosDeleteThread(ended), NullDeleteThread)

-----------------------------------------------------------------------------
(* Mutexes.  That of the null port is a number. *)

PosixCreateMutex == Acquire(<<"sysmutex", "pthread_mutex">>, {})
Win32CreateMutex == Acquire(<<"sysmutex", "critical_section">>, {})
MorphosCreateMutex == Acquire(<<"sysmutex">>, {})
NullCreateMutex == {{"sysmutex"}}

Sys_Thread_CreateMutex(platform) ==
  Linked(platform, PosixCreateMutex, Win32CreateMutex, MorphosCreateMutex,
         NullCreateMutex)

\* The critical section is not deleted.
PosixDeleteMutex(held) == held \ {"sysmutex", "pthread_mutex"}
Win32DeleteMutex(held) == held \ {"sysmutex"}
MorphosDeleteMutex(held) == held \ {"sysmutex"}
NullDeleteMutex(held) == held \ {"sysmutex"}

Sys_Thread_DeleteMutex(platform, held) ==
  Linked(platform, PosixDeleteMutex(held), Win32DeleteMutex(held),
         MorphosDeleteMutex(held), NullDeleteMutex(held))

\* Whether a mutex that is held, or was, or is 0, can be locked and unlocked.
PosixLockMutex(held) == {"sysmutex", "pthread_mutex"} \subseteq held
Win32LockMutex(held) == {"sysmutex", "critical_section"} \subseteq held
MorphosLockMutex(held) == "sysmutex" \in held
NullLockMutex == TRUE

Sys_Thread_LockMutex(platform, held) ==
  Linked(platform, PosixLockMutex(held), Win32LockMutex(held),
         MorphosLockMutex(held), NullLockMutex)

-----------------------------------------------------------------------------
(* The network: initialisation.  Without "netdata" it has failed. *)

PosixNetInit == {{"netdata"}}
Win32NetInit == {{}, {"winsock", "netdata", "library"}}
AmiTcpNetInit == Acquire(<<"netdata", "library">>, {})
NullNetInit == {{}}

Sys_Net_Init(platform) ==
  Linked(platform, PosixNetInit, Win32NetInit, AmiTcpNetInit, NullNetInit)

\* Two ports look into what Sys_Net_Init has returned.
PosixNetShutdown == [needs |-> {}, frees |-> {"netdata"}]
Win32NetShutdown ==
  [needs |-> {"netdata"}, frees |-> {"winsock", "netdata", "library"}]
AmiTcpNetShutdown == [needs |-> {"netdata"}, frees |-> {"netdata", "library"}]
NullNetShutdown == [needs |-> {}, frees |-> {}]

Sys_Net_Shutdown(platform) ==
  Linked(platform, PosixNetShutdown, Win32NetShutdown, AmiTcpNetShutdown,
         NullNetShutdown)

-----------------------------------------------------------------------------
(* Names.  The answers are those of the system's resolver, with port 0; the  *)
(* first of a kind the program knows counts.                                 *)

First(answers, types) ==
  LET known == {i \in DOMAIN answers : answers[i].type \in types}
  IN  IF known = {} THEN << >>
      ELSE <<answers[CHOOSE i \in known : \A j \in known : i <= j]>>

PosixResolveName(answers) == First(answers, {"NA_IPV4", "NA_IPV6"})
Win32ResolveName(answers) == First(answers, {"NA_IPV4", "NA_IPV6"})
AmiTcpResolveName(answers) == First(answers, {"NA_IPV4"})
NullResolveName == << >>

\* One address, or none.
Sys_Net_ResolveName(platform, answers) ==
  Linked(platform, PosixResolveName(answers), Win32ResolveName(answers),
         AmiTcpResolveName(answers), NullResolveName)

-----------------------------------------------------------------------------
(* Sockets. *)

SocketThings == <<"syssocket", "descriptor", "nonblocking">>

\* Where FIONBIO is refused two ports forget the descriptor.
PosixCreateSocket(addrtype) ==
  IF addrtype \in {"NA_IPV4", "NA_IPV6"} THEN Acquire(SocketThings, {"descriptor"})
  ELSE {{}}
Win32CreateSocket(addrtype) ==
  IF addrtype \in {"NA_IPV4", "NA_IPV6"} THEN Acquire(SocketThings, {"descriptor"})
  ELSE {{}}
AmiTcpCreateSocket(addrtype) ==
  IF addrtype = "NA_IPV4" THEN Acquire(SocketThings, {}) ELSE {{}}
NullCreateSocket == {{}}

Sys_Net_CreateSocket(platform, addrtype) ==
  Linked(platform, PosixCreateSocket(addrtype), Win32CreateSocket(addrtype),
         AmiTcpCreateSocket(addrtype), NullCreateSocket)

PosixDeleteSocket(held) == held \ ToSet(SocketThings)
Win32DeleteSocket(held) == held \ ToSet(SocketThings)
AmiTcpDeleteSocket(held) == held \ ToSet(SocketThings)
NullDeleteSocket(held) == held

Sys_Net_DeleteSocket(platform, held) ==
  Linked(platform, PosixDeleteSocket(held), Win32DeleteSocket(held),
         AmiTcpDeleteSocket(held), NullDeleteSocket(held))

\* Where a datagram for this address goes from a socket of this domain.
PosixSend(domain, address) == <<[address EXCEPT !.type = domain]>>
Win32Send(domain, address) == <<[address EXCEPT !.type = domain]>>
AmiTcpSend(address) == <<[address EXCEPT !.type = "NA_IPV4"]>>
NullSend == << >>

Sys_Net_Send(platform, domain, address) ==
  Linked(platform, PosixSend(domain, address), Win32Send(domain, address),
         AmiTcpSend(address), NullSend)

\* What recvfrom may do: "data" or nothing at all in a datagram, from an address of
\* a usual or an odd length, or one of three errors.
Received == {"data", "empty", "odd", "EWOULDBLOCK", "EINVAL", "other"}

\* The result, as its sign, and the address when it is assigned.
Sign(received, ignored) ==
  CASE received = "data" -> 1
    [] received = "empty" \/ received \in ignored -> 0
    [] OTHER -> -1

PosixReceive(domain, received, from) ==
  [r |-> Sign(received, {"EWOULDBLOCK"}),
   address |-> IF received \in {"data", "empty"}
               THEN <<[from EXCEPT !.type = domain]>> ELSE << >>]
\* Windows gives WSAEINVAL to who reads before he has written.
Win32Receive(domain, received, from) ==
  [r |-> Sign(received, {"EWOULDBLOCK", "EINVAL"}),
   address |-> IF received \in {"data", "empty"}
               THEN <<[from EXCEPT !.type = domain]>> ELSE << >>]
AmiTcpReceive(received, from) ==
  [r |-> Sign(received, {"EWOULDBLOCK"}),
   address |-> IF received = "odd" THEN << >> ELSE <<[from EXCEPT !.type = "NA_IPV4"]>>]
NullReceive == [r |-> -1, address |-> << >>]

Sys_Net_Receive(platform, domain, received, from) ==
  Linked(platform, PosixReceive(domain, received, from),
         Win32Receive(domain, received, from), AmiTcpReceive(received, from),
         NullReceive)

=============================================================================
