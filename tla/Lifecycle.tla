----------------------------- MODULE Lifecycle -----------------------------
(***************************************************************************)
(* The life of a connection: main.c's QWC_Connect, QWC_Disconnect and      *)
(* QWC_Quit, netqw.c's NetQW_Create, NetQW_Delete and NetQW_Thread, and    *)
(* the thread handler of main.c, on the four sets of thread and socket     *)
(* functions the repository has, with what each of these acquires, may be  *)
(* refused and gives back.                                                 *)
(*                                                                         *)
(* Three kinds of thread take part: the application, the client's thread   *)
(* (which itself quits when a message or an error has set abort) and the   *)
(* net thread of each connection.  The application uses the library as     *)
(* testprogram.c, the main of main.c and test.pl do: it connects, talks,   *)
(* disconnects, connects again, quits, and frees qwc when QWC_GetQuit or   *)
(* QWC_GetState tell it that all is over.                                  *)
(*                                                                         *)
(* One action is one access to what the threads share.  An access through  *)
(* a null or freed pointer ends the behaviour, with fault set.             *)
(***************************************************************************)
EXTENDS Network

CONSTANTS
  Platforms,   \* which of "posix", "win32", "morphos" and "null" to look at
  MaxConnects  \* bound on the calls of QWC_Connect

ASSUME LifecycleAssumption ==
  /\ Platforms \subseteq {"posix", "win32", "morphos", "null"}
  /\ MaxConnects \in Nat

VARIABLES
  platform,  \* the thread and socket functions linked in
  qwc,       \* the fields of struct qw_connection, and what it holds
  net,       \* every struct NetQW allocated so far; a pointer is an index
  pc,        \* what the application and the client's thread do next
  stack,     \* where they return to
  ptr,       \* the argument of their NetQW_Delete
  app,       \* what the application believes: "none", "connected", "quit"
  failed,    \* a thread or a NetQW could not be created (history)
  fault      \* the first illegal access, by whom and which; empty so far

vars == <<platform, qwc, net, pc, stack, ptr, app, failed, fault>>

Callers == {"app", "client"}
Null == 0
NoFault == << >>

\* enum qwc_state, and the two constants QWC_Connect uses in its place.
qwc_state_idle == 0
qwc_state_connecting == 1
qwc_state_connected == 2
QWC_IDLE == 1
QWC_CONNECTING == 2

\* What may come of NET_Init, which does not tell whether it has failed.
NET_Init == Sys_Net_Init(platform)

\* QWC_Create
Init ==
  /\ platform \in Platforms
  /\ \E held \in NET_Init :
       /\ qwc = [live |-> TRUE, netqw |-> Null, thread |-> FALSE, netdata |-> TRUE,
                 state |-> qwc_state_idle, run_thread |-> FALSE,
                 quit |-> FALSE, abort |-> FALSE, held |-> held]
       /\ failed = ("netdata" \notin held)
  /\ net = << >>
  /\ pc = [t \in Callers |-> IF t = "app" THEN "idle" ELSE "none"]
  /\ stack = [t \in Callers |-> << >>]
  /\ ptr = [t \in Callers |-> Null]
  /\ app = "none" /\ fault = NoFault

-----------------------------------------------------------------------------
(* Steps, calls and faults. *)

\* Thread t is about to do the step of this name, and qwc is there to do it on.
At(t, label) == fault = NoFault /\ pc[t] = label /\ qwc.live

Goto(t, label) ==
  /\ pc' = [pc EXCEPT ![t] = label]
  /\ UNCHANGED stack

Call(t, label, return) ==
  /\ pc' = [pc EXCEPT ![t] = label]
  /\ stack' = [stack EXCEPT ![t] = <<return>> \o @]

Return(t) ==
  /\ pc' = [pc EXCEPT ![t] = Head(stack[t])]
  /\ stack' = [stack EXCEPT ![t] = Tail(@)]

Set(field, value) == qwc' = [qwc EXCEPT ![field] = value]

Broken(what) ==
  /\ fault' = what
  /\ UNCHANGED <<platform, qwc, net, pc, stack, ptr, app, failed>>

\* A pointer that may be followed.
Valid(p) == p # Null /\ net[p].live

\* What the access of thread t through p is when it is not valid.
BadPointer(t, p) == <<t, IF p = Null THEN "used null" ELSE "used freed netqw">>

-----------------------------------------------------------------------------
(* Addresses. *)

Address(type, address) == [type |-> type, address |-> address, port |-> 0]
NoAddress == Address("none", << >>)

\* What the application gives as host, and what the resolver answers to a name.
Quad(d) == <<Number(10), Dot, Number(0), Dot, Number(0), Dot, Number(d)>>
Port(n) == <<Colon, Number(n)>>
Server == <<Token("server")>>
SomePort == 27501
TooLargePort == 65536
Hosts ==
  {<<Token("local")>>, Quad(1), Quad(1) \o Port(SomePort), Quad(1) \o Port(TooLargePort),
   Quad(256), Server \o Port(SomePort)}
Answers ==
  {<< >>, <<Address("NA_IPV4", <<10, 0, 0, 2>>)>>,
   <<Address("NA_IPV6", <<1>>), Address("NA_IPV4", <<10, 0, 0, 2>>)>>}

\* Who sends to one that has connected to a: a itself, another program there, another.
Senders(a) == {a, [a EXCEPT !.port = 27999], [a EXCEPT !.address = <<10, 0, 0, 9>>]}

-----------------------------------------------------------------------------
(* The net thread. *)

IsOpen(n) == "syssocket" \in n.held
ShutDown(n) == [n EXCEPT !.held = @ \ Sys_Net_Shutdown(platform).frees]

\* NetQW_Thread_Init: what becomes of n that has an address and, perhaps, a socket, ...
Opened(n) == IF IsOpen(n) THEN [n EXCEPT !.state = "sendchallenge"] ELSE ShutDown(n)

\* ... what may become of n with this of the system and, perhaps, this address, ...
Started(n, sys, adr) ==
  IF "netdata" \notin sys THEN {n}
  ELSE IF adr = << >> THEN {ShutDown([n EXCEPT !.held = @ \cup sys])}
  ELSE {Opened([n EXCEPT !.held = @ \cup sys \cup s, !.addr = adr[1]]) :
          s \in Sys_Net_CreateSocket(platform, adr[1].type)}

\* ... and what may become of n.
NetQW_Thread_Init(n) ==
  UNION {Started(n, sys, NET_StringToAdr(platform, n.host, answers)) :
           sys \in Sys_Net_Init(platform), answers \in Answers}

\* NetQW_Thread_Deinit
Deinit(n) == ShutDown([n EXCEPT !.held = Sys_Net_DeleteSocket(platform, @)])

\* Seeded bug: the net thread leaves without a word.
GoodbyeSilent(n) == Deinit(n)

\* NetQW_Thread_Disconnect, which tells a server it is connected to three times,
\* and NetQW_Thread_Deinit.
Goodbye(n) ==
  LET told == Sys_Net_Send(platform, n.addr.type, n.addr) = <<n.peer>>
  IN  Deinit([n EXCEPT !.drops = IF n.state = "connected" /\ told THEN @ + 3 ELSE @])

NetChange(p, n) ==
  /\ net' = [net EXCEPT ![p] = n]
  /\ UNCHANGED <<platform, qwc, pc, stack, ptr, app, failed, fault>>

\* The thread begins: when it cannot get a socket it ends, with error set.
NetStart(p) ==
  /\ net[p].state = "uninitialised"
  /\ \E n \in NetQW_Thread_Init(net[p]) :
       NetChange(p, IF IsOpen(n) THEN n
                    ELSE [n EXCEPT !.error = TRUE, !.thread = "ended"])

\* A pass of the loop in which something comes from the server, which accepts the
\* connection.
NetConnects(p) ==
  /\ net[p].state = "sendchallenge" /\ ~net[p].quit
  /\ \E from \in Senders(net[p].addr), received \in Received :
       LET got == Sys_Net_Receive(platform, net[p].addr.type, received, from)
       IN  /\ got.r > 0 /\ NET_CompareAdr(got.address[1], net[p].addr)
           /\ NetChange(p, [net[p] EXCEPT !.state = "connected",
                                          !.peer = got.address[1]])

\* Seeded bug: the loop of a connected thread does not look at quit.
NetEndsUnconnected(p) ==
  /\ net[p].state = "sendchallenge" /\ net[p].quit
  /\ NetChange(p, [Goodbye(net[p]) EXCEPT !.thread = "ended"])

NetEnds(p) ==
  /\ net[p].state # "uninitialised" /\ net[p].quit
  /\ NetChange(p, [Goodbye(net[p]) EXCEPT !.thread = "ended"])

NetThread(p) ==
  /\ fault = NoFault /\ net[p].thread = "running" /\ net[p].live
  /\ NetStart(p) \/ NetConnects(p) \/ NetEnds(p)

-----------------------------------------------------------------------------
(* NetQW_Create and QWC_Connect, called by the application. *)

NewNet(host) ==
  [live |-> TRUE, thread |-> "none", quit |-> FALSE, error |-> FALSE,
   state |-> "uninitialised", host |-> host, addr |-> NoAddress, peer |-> NoAddress,
   drops |-> 0, held |-> {}]

\* What was in it is no more.
Freed(n) ==
  [n EXCEPT !.live = FALSE, !.host = << >>, !.addr = NoAddress, !.peer = NoAddress]

\* NetQW_Create with this host: a net thread, when there are a mutex and a thread, ...
WithThread(host, mutex, thread) ==
  [NewNet(host) EXCEPT !.thread = "running", !.held = mutex \cup thread]

\* ... or one NetQW without a thread, or none at all, because of memory, or of what
\* NetQW_Thread_Init did not get.
WithoutThread(host, mutex) ==
  {IF IsOpen(n) THEN n ELSE Freed(n) :
     n \in NetQW_Thread_Init([NewNet(host) EXCEPT
                               !.held = Sys_Thread_DeleteMutex(platform, mutex)])}

NetQW_Create(host) ==
  {Freed(NewNet(host))}
    \cup UNION {IF mutex # {} /\ thread # {} THEN {WithThread(host, mutex, thread)}
                ELSE WithoutThread(host, mutex) :
                mutex \in Sys_Thread_CreateMutex(platform),
                thread \in Sys_Thread_CreateThread(platform)}

\* The first connection is tried with every host.
CreateNet ==
  /\ At("app", "connect")
  /\ \E host \in IF net = << >> THEN Hosts ELSE {Server} :
       \E n \in NetQW_Create(host) :
         /\ net' = Append(net, n)
         /\ Set("netqw", IF n.live THEN Len(net) + 1 ELSE Null)
         /\ IF n.live THEN Goto("app", "start") ELSE Return("app")
         /\ failed' = (failed \/ n.thread = "none")
  /\ UNCHANGED <<platform, ptr, app, fault>>

\* QWC_Connect: the client's thread, or NetQW_Delete when there is none.
StartClient ==
  /\ At("app", "start")
  /\ \E thread \in Sys_Thread_CreateThread(platform) :
       /\ qwc' = [qwc EXCEPT !.state = QWC_CONNECTING, !.run_thread = TRUE,
                             !.thread = (thread # {}), !.held = @ \cup thread]
       /\ IF thread # {}
          THEN /\ pc' = [pc EXCEPT !["app"] = Head(stack["app"]), !["client"] = "top"]
               /\ stack' = [stack EXCEPT !["app"] = Tail(@)]
               /\ UNCHANGED <<ptr, failed>>
          ELSE /\ ptr' = [ptr EXCEPT !["app"] = qwc.netqw]
               /\ Call("app", "delete", "not_started")
               /\ failed' = TRUE
  /\ UNCHANGED <<platform, net, app, fault>>

\* The rest of that: netqw keeps its value.
NotStarted ==
  /\ At("app", "not_started")
  /\ Set("state", QWC_IDLE)
  /\ Return("app")
  /\ UNCHANGED <<platform, net, ptr, app, failed, fault>>

-----------------------------------------------------------------------------
(* NetQW_Delete. *)

AskToQuit(t) ==
  /\ At(t, "delete")
  /\ IF Valid(ptr[t])
     THEN /\ net' = [net EXCEPT ![ptr[t]].quit = TRUE]
          /\ Goto(t, "join_net")
          /\ UNCHANGED <<platform, qwc, ptr, app, failed, fault>>
     ELSE Broken(BadPointer(t, ptr[t]))

\* Seeded bug: NetQW_Delete does not wait for the thread.
NetJoinedAtOnce(t, n) ==
  IF n.thread = "none" THEN {Goodbye(n)} ELSE {n}

\* What NetQW_Delete makes of NetQW n before it frees it, when it can go on.
NetJoined(t, n) ==
  LET join == Sys_Thread_DeleteThread(platform, t, "net", n.thread = "ended")
  IN  IF n.thread = "none" THEN {Goodbye(n)}
      ELSE IF join.returns
      THEN {[n EXCEPT !.thread = "joined", !.held = @ \ join.frees]}
      ELSE {}

JoinNet(t) ==
  /\ At(t, "join_net")
  /\ IF ~Valid(ptr[t])
     THEN Broken(BadPointer(t, ptr[t]))
     ELSE IF net[ptr[t]].thread = "joined"
     THEN Broken(<<t, "joined the net thread again">>)
     ELSE \E n \in NetJoined(t, net[ptr[t]]) :
            /\ net' = [net EXCEPT ![ptr[t]] = n]
            /\ Goto(t, "delete_mutex")
            /\ UNCHANGED <<platform, qwc, ptr, app, failed, fault>>

DeleteMutex(t) ==
  /\ At(t, "delete_mutex")
  /\ IF Valid(ptr[t])
     THEN /\ net' = [net EXCEPT ![ptr[t]].held = Sys_Thread_DeleteMutex(platform, @)]
          /\ Goto(t, "free")
          /\ UNCHANGED <<platform, qwc, ptr, app, failed, fault>>
     ELSE Broken(BadPointer(t, ptr[t]))

FreeNet(t) ==
  /\ At(t, "free")
  /\ IF Valid(ptr[t])
     THEN /\ net' = [net EXCEPT ![ptr[t]] = Freed(@)]
          /\ Return(t)
          /\ UNCHANGED <<platform, qwc, ptr, app, failed, fault>>
     ELSE Broken(BadPointer(t, ptr[t]))

-----------------------------------------------------------------------------
(* QWC_Disconnect and QWC_Quit. *)

CallDelete(t) ==
  /\ At(t, "disconnect")
  /\ ptr' = [ptr EXCEPT ![t] = qwc.netqw]
  /\ Call(t, "delete", "clear_netqw")
  /\ UNCHANGED <<platform, qwc, net, app, failed, fault>>

\* Three assignments, between which the client's thread runs.
Assign(t, label, field, value, next) ==
  /\ At(t, label)
  /\ Set(field, value)
  /\ Goto(t, next)
  /\ UNCHANGED <<platform, net, ptr, app, failed, fault>>

ClearPointers(t) ==
  \/ Assign(t, "clear_netqw", "netqw", Null, "set_idle")
  \/ Assign(t, "set_idle", "state", qwc_state_idle, "stop")
  \/ Assign(t, "stop", "run_thread", FALSE, "join_client")

JoinClient(t) ==
  /\ At(t, "join_client")
  /\ IF ~qwc.thread /\ platform # "null"
     THEN Broken(<<t, "joined no client">>)
     ELSE LET join == Sys_Thread_DeleteThread(platform, t, "client", pc["client"] = "ended")
          IN  /\ join.returns
              /\ qwc' = [qwc EXCEPT !.thread = FALSE, !.held = @ \ join.frees]
              /\ Return(t)
              /\ UNCHANGED <<platform, net, ptr, app, failed, fault>>

\* Seeded bug: QWC_Quit disconnects what is not connected.
QuitAlwaysDisconnects(t) ==
  /\ At(t, "quit")
  /\ Call(t, "disconnect", "set_quit")
  /\ UNCHANGED <<platform, qwc, net, ptr, app, failed, fault>>

QuitDisconnects(t) ==
  /\ At(t, "quit")
  /\ IF qwc.netqw # Null THEN Call(t, "disconnect", "set_quit") ELSE Goto(t, "set_quit")
  /\ UNCHANGED <<platform, qwc, net, ptr, app, failed, fault>>

SetQuit(t) == Assign(t, "set_quit", "quit", TRUE, "destroy")

\* What goes wrong in NET_Shutdown, which reports that it is called twice and goes on.
NET_ShutdownFault(t) ==
  IF ~qwc.netdata THEN <<t, "shut down twice">>
  ELSE IF ~(Sys_Net_Shutdown(platform).needs \subseteq qwc.held)
  THEN <<t, "shut down what was not initialised">>
  ELSE NoFault

\* qwc behind it.
NET_Shutdown ==
  [qwc EXCEPT !.netdata = FALSE, !.held = @ \ Sys_Net_Shutdown(platform).frees]

\* run_thread and QWC_Destroy.
Destroy(t) ==
  /\ At(t, "destroy")
  /\ IF NET_ShutdownFault(t) # NoFault
     THEN Broken(NET_ShutdownFault(t))
     ELSE /\ qwc' = [NET_Shutdown EXCEPT !.run_thread = FALSE]
          /\ Return(t)
          /\ UNCHANGED <<platform, net, ptr, app, failed, fault>>

Procedures(t) ==
  \/ AskToQuit(t) \/ JoinNet(t) \/ DeleteMutex(t) \/ FreeNet(t)
  \/ CallDelete(t) \/ ClearPointers(t) \/ JoinClient(t)
  \/ QuitDisconnects(t) \/ SetQuit(t) \/ Destroy(t)

-----------------------------------------------------------------------------
(* QWC_Thread_Handler.  Each call takes qwc->netqw anew. *)

ClientGoto(label) ==
  /\ Goto("client", label)
  /\ UNCHANGED <<platform, qwc, net, ptr, app, failed, fault>>

\* A pass of the loop begins; it may be too early for the next frame.
Top ==
  /\ At("client", "top")
  /\ IF qwc.run_thread /\ ~qwc.abort
     THEN ClientGoto("test") \/ ClientGoto("sleep")
     ELSE ClientGoto("leave")

\* It comes back when the time is over, and not before.
Sleep_Sleep == At("client", "sleep") /\ ClientGoto("top")

TestNet ==
  /\ At("client", "test")
  /\ IF qwc.netqw # Null /\ ~qwc.quit
     THEN ClientGoto("state")
     ELSE Assign("client", "test", "state", qwc_state_idle, "top")

\* NetQW_GetState, which says state_uninitialised of a null pointer.
StateOf(p) == IF p = Null THEN "uninitialised" ELSE net[p].state

GetState ==
  /\ At("client", "state")
  /\ IF qwc.netqw = Null \/ Valid(qwc.netqw)
     THEN ClientGoto(IF StateOf(qwc.netqw) = "uninitialised" THEN "state_again" ELSE "read")
     ELSE Broken(BadPointer("client", qwc.netqw))

\* The else if: it can only be true when the net thread has just started.
GetStateAgain ==
  /\ At("client", "state_again")
  /\ IF ~(qwc.netqw = Null \/ Valid(qwc.netqw))
     THEN Broken(BadPointer("client", qwc.netqw))
     ELSE IF StateOf(qwc.netqw) = "sendchallenge"
     THEN Assign("client", "state_again", "state", qwc_state_connecting, "top")
     ELSE ClientGoto("top")

\* ReadPackets and the test of Get_Message.
ReadPackets ==
  /\ At("client", "read")
  /\ IF qwc.netdata
     THEN ClientGoto(IF qwc.netqw # Null THEN "use" ELSE "mark")
     ELSE Broken(<<"client", "read after the shutdown">>)

HasMutex(p) == Sys_Thread_LockMutex(platform, net[p].held)

\* Get_Message, which takes the mutex, and the parser use netqw.  A bad message sets
\* abort; or it sends the parser into FlushEntityPacket, whose loop looks for a word of 0
\* that need not come (main.c:323-335): from "flush" there is no step.
UseNet ==
  /\ At("client", "use")
  /\ IF ~Valid(qwc.netqw)
     THEN Broken(BadPointer("client", qwc.netqw))
     ELSE IF ~HasMutex(qwc.netqw)
     THEN Broken(<<"client", "locked no mutex">>)
     ELSE \/ ClientGoto("mark") \/ ClientGoto("flush")
          \/ ~qwc.abort /\ Assign("client", "use", "abort", TRUE, "read")

MarkConnected == Assign("client", "mark", "state", qwc_state_connected, "top")

Leave ==
  /\ At("client", "leave")
  /\ IF qwc.abort
     THEN /\ Call("client", "quit", "ended")
          /\ UNCHANGED <<platform, qwc, net, ptr, app, failed, fault>>
     ELSE ClientGoto("ended")

\* The application has freed qwc, and the client's thread is still running.
UseFreedConnection ==
  /\ fault = NoFault /\ ~qwc.live
  /\ pc["client"] \notin {"none", "ended"}
  /\ Broken(<<"client", "used freed qwc">>)

ClientThread ==
  \/ Top \/ Sleep_Sleep \/ TestNet \/ GetState \/ GetStateAgain \/ ReadPackets \/ UseNet
  \/ MarkConnected \/ Leave \/ UseFreedConnection
  \/ Procedures("client")

-----------------------------------------------------------------------------
(* The application. *)

AppCalls(label, belief) ==
  /\ Call("app", label, "idle")
  /\ app' = belief
  /\ UNCHANGED <<platform, qwc, net, ptr, failed, fault>>

AppConnect ==
  /\ At("app", "idle") /\ app = "none" /\ ~qwc.quit
  /\ Len(net) < MaxConnects
  /\ AppCalls("connect", "connected")

AppDisconnect ==
  /\ At("app", "idle") /\ app = "connected"
  /\ AppCalls("disconnect", "none")

AppQuit ==
  /\ At("app", "idle") /\ app # "quit"
  /\ AppCalls("quit", "quit")

\* QWC_Say and, before its test of the mutex, QWC_Set_FPS, which testprogram.c calls
\* behind QWC_Connect (netqw.c:1120): they leave nothing behind here but a bad access.
AppSay ==
  /\ At("app", "idle") /\ app = "connected"
  /\ IF ~Valid(qwc.netqw)
     THEN Broken(BadPointer("app", qwc.netqw))
     ELSE ~HasMutex(qwc.netqw) /\ Broken(<<"app", "locked no mutex">>)

\* The loop of testprogram.c has ended.
AppFree ==
  /\ At("app", "idle") /\ app # "none"
  /\ qwc.quit \/ qwc.state = qwc_state_idle
  /\ Set("live", FALSE)
  /\ Goto("app", "gone")
  /\ UNCHANGED <<platform, net, ptr, app, failed, fault>>

AppInCall == CreateNet \/ StartClient \/ NotStarted \/ Procedures("app")

Next ==
  \/ AppConnect \/ AppDisconnect \/ AppQuit \/ AppSay \/ AppFree
  \/ AppInCall
  \/ ClientThread
  \/ \E p \in DOMAIN net : NetThread(p)

\* The threads of a process get to run.
Fairness ==
  /\ WF_vars(AppInCall)
  /\ WF_vars(ClientThread)
  /\ \A p \in 1 .. MaxConnects : WF_vars(p \in DOMAIN net /\ NetThread(p))

Spec == Init /\ [][Next]_vars /\ Fairness

-----------------------------------------------------------------------------
(* Properties. *)

(* A NetQW is freed only when its net thread has ended and been joined, or  *)
(* there was none, however many threads delete it at once: the net thread   *)
(* never touches freed memory (netqw.c:1071-1109).                          *)
NetThreadOutlived ==
  \A p \in DOMAIN net : ~net[p].live => net[p].thread \in {"none", "joined"}

(* What survives of "no thread uses what another has freed": as long as     *)
(* every creation succeeds and no message sets abort, the one illegal       *)
(* access is that of the client's thread between NetQW_Delete and the end   *)
(* of QWC_Disconnect, which joins it too late (main.c:1062-1067).           *)
OnlyClientRaces ==
  fault # NoFault /\ ~failed /\ ~qwc.abort =>
    /\ fault[1] = "client"
    /\ fault[2] \in {"locked no mutex", "used freed netqw", "used null"}
    /\ pc["app"] \in {"free", "clear_netqw", "set_idle", "stop", "join_client"}

\* What two ports never give back: a critical section, and the descriptor of a socket
\* that could not be made non-blocking.
Forgotten(n) ==
  (IF platform = "win32" THEN {"critical_section"} ELSE {})
    \cup (IF platform \in {"posix", "win32"} /\ n.state = "uninitialised"
          THEN {"descriptor"} ELSE {})

(* When QWC_Disconnect has returned, or QWC_Quit while the client's thread  *)
(* does not quit itself, all of every connection is gone, whatever was      *)
(* refused on the way: both threads have ended, NetQW is freed, what the    *)
(* system gave for it is given back but for Forgotten, and a server it was  *)
(* connected to has been told, exactly three times, by whichever of         *)
(* NetQW_Thread and NetQW_Delete had to (netqw.c:279-319, 954, 1019-1083).  *)
CleanAfterDisconnect ==
  fault = NoFault /\ pc["app"] = "idle" /\ (app = "none" \/ (app = "quit" /\ ~qwc.abort)) =>
    /\ pc["client"] \in {"none", "ended"} /\ ~qwc.thread
    /\ "systhread" \notin qwc.held /\ (app = "quit" => qwc.held = {})
    /\ \A p \in DOMAIN net :
         /\ ~net[p].live /\ net[p].thread \in {"none", "joined"}
         /\ net[p].held \subseteq Forgotten(net[p])
         /\ net[p].drops = IF net[p].state = "connected" THEN 3 ELSE 0

(* Who has connected is whom the application named: the address of four     *)
(* numbers it wrote, at the port behind the last colon, or 27500; and only  *)
(* for a string that can be read to its end (net.c:232-357, netqw.c:524).   *)
ConnectedAsNamed ==
  \A p \in DOMAIN net : net[p].state = "connected" /\ net[p].live =>
    LET host == net[p].host
        peer == net[p].peer
        \* The numbers of an address have dots between them.
        number == [i \in 1 .. 4 |-> host[2 * i - 1].value]
    IN  /\ peer.port = IF Colon \in ToSet(host) THEN Last(host).value ELSE 27500
        /\ peer.port <= 65535
        /\ Head(host).kind = "number" /\ (\A i \in 1 .. 4 : number[i] <= 255) =>
             peer.address = number

(* Every call of the application returns, unless something has been         *)
(* accessed illegally: no two threads wait for each other, and both look at *)
(* their flags in every pass of their loops (netqw.c:870, main.c:1100).     *)
(* The one call that does not is the join of a client's thread whose pass   *)
(* never ends, because it flushes entities (main.c:326, 1067).              *)
JoinsTheFlushing == pc["app"] = "join_client" /\ pc["client"] = "flush"

EveryCallReturns ==
  pc["app"] \notin {"idle", "gone"}
    ~> (pc["app"] = "idle" \/ fault # NoFault \/ JoinsTheFlushing)

=============================================================================
