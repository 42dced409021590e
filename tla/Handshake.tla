------------------------------ MODULE Handshake ------------------------------
(***************************************************************************)
(* How the net thread of netqw.c gets its connection: it asks for a        *)
(* challenge, then to be connected with that challenge, and repeats each   *)
(* request every three seconds until it is answered.  The answer to the    *)
(* first may announce a Huffman table, which the client repeats in the     *)
(* second when it knows it; from then on packets are compressed.  The      *)
(* network loses, duplicates and reorders.                                 *)
(*                                                                         *)
(* The server is external: it keeps one challenge for the client's         *)
(* address, which it may forget (a restart, or a full table).              *)
(***************************************************************************)
EXTENDS Naturals

CONSTANTS
  Challenge,   \* the challenges the server can draw
  RESEND,      \* ticks between two requests: 3000000 microseconds
  MaxForgets   \* bound on how often the server forgets

ASSUME HandshakeAssumption ==
  /\ RESEND \in Nat \ {0} /\ MaxForgets \in Nat
  /\ 0 \notin Challenge

VARIABLES
  (* struct NetQW *)
  state, challenge, huffcontext,
  resend,       \* ticks until resendtime, 0 when it is over
  news,         \* how many times "new" has been queued
  (* the server *)
  sv_table,     \* the Huffman table it announces: "none", "known", "unknown"
  sv_challenge, \* the challenge it remembers for the client, 0 when none
  sv_accepted,  \* the connect requests it has accepted (history)
  forgets,
  (* the network, and what was sent last and how long ago (history) *)
  c2s, s2c, last, since

clientVars == <<state, challenge, huffcontext, resend, news>>
serverVars == <<sv_table, sv_challenge, sv_accepted, forgets>>
sentVars == <<last, since>>
vars == <<clientVars, serverVars, c2s, s2c, sentVars>>

Connect == [kind : {"connect"}, challenge : Challenge, huff : BOOLEAN]
Request == {[kind |-> "getchallenge"]} \cup Connect
Answer == [kind : {"challenge"}, challenge : Challenge,
           table : {"none", "known", "unknown"}]
          \cup {[kind |-> "print"], [kind |-> "connection"]}

(* NetQW_Thread_Init *)
Init ==
  /\ state = "sendchallenge" /\ challenge = 0 /\ huffcontext = FALSE
  /\ resend = 0 /\ news = 0
  /\ sv_table \in {"none", "known", "unknown"}
  /\ sv_challenge = 0 /\ sv_accepted = {} /\ forgets = 0
  /\ c2s = {} /\ s2c = {} /\ last = "none" /\ since = RESEND

Tick ==
  /\ resend > 0 \/ since < RESEND
  /\ resend' = IF resend > 0 THEN resend - 1 ELSE 0
  /\ since' = IF since < RESEND THEN since + 1 ELSE RESEND
  /\ UNCHANGED <<state, challenge, huffcontext, news, serverVars, c2s, s2c, last>>

-----------------------------------------------------------------------------
(* The net thread. *)

\* Seeded bug: compression is asked for whenever the server announces it.
TheRequestAnyTable ==
  IF state = "sendchallenge" THEN [kind |-> "getchallenge"]
  ELSE [kind |-> "connect", challenge |-> challenge, huff |-> sv_table # "none"]

\* The request for the present state.
TheRequest ==
  IF state = "sendchallenge" THEN [kind |-> "getchallenge"]
  ELSE [kind |-> "connect", challenge |-> challenge, huff |-> huffcontext]

\* Seeded bugs: the request is sent again one tick late, or early.
ResendAfterLate == RESEND + 1
ResendAfterEarly == RESEND - 1

ResendAfter == RESEND

\* Seeded bug: every request is sent just once.
DueOnce == resend = 0 /\ last # TheRequest.kind

ResendDue == resend = 0

(* NetQW_Thread_DoSend while not connected. *)
DoSend ==
  /\ state # "connected" /\ ResendDue
  /\ c2s' = c2s \cup {TheRequest}
  /\ resend' = ResendAfter
  /\ last' = TheRequest.kind /\ since' = 0
  /\ UNCHANGED <<state, challenge, huffcontext, news, serverVars, s2c>>

\* Huff_Init finds the table that the server announces.
KnowsTable(table) == table = "known"

ReceiveChallenge(a) ==
  /\ a.kind = "challenge" /\ state = "sendchallenge"
  /\ challenge' = a.challenge
  /\ huffcontext' = KnowsTable(a.table)
  /\ state' = "sendconnection"
  /\ resend' = 0
  /\ UNCHANGED news

\* Seeded bug: a duplicate of the answer is taken again.
WaitsForConnectionAny == state # "sendchallenge"

WaitsForConnection == state = "sendconnection"

ReceiveConnection(a) ==
  /\ a.kind = "connection" /\ WaitsForConnection
  /\ state' = "connected"
  /\ news' = news + 1
  /\ UNCHANGED <<challenge, huffcontext, resend>>

\* A message is printed; an answer that does not fit the state is dropped
\* (when connected: its sequence numbers are out of range, or it is short).
Ignore(a) ==
  /\ CASE a.kind = "challenge" -> state # "sendchallenge"
       [] a.kind = "connection" -> ~WaitsForConnection
       [] OTHER -> TRUE
  /\ UNCHANGED clientVars

(* NetQW_Thread_DoReceive of one datagram, which may come again. *)
DoReceive(a) ==
  /\ ReceiveChallenge(a) \/ ReceiveConnection(a) \/ Ignore(a)
  /\ s2c' = s2c \ {a} \/ UNCHANGED s2c
  /\ UNCHANGED <<serverVars, c2s, sentVars>>

-----------------------------------------------------------------------------
(* The server and the network. *)

Reply(a) == s2c' = s2c \cup {a}

ServerChallenge(r) ==
  /\ r.kind = "getchallenge"
  /\ \E c \in (IF sv_challenge = 0 THEN Challenge ELSE {sv_challenge}) :
       /\ sv_challenge' = c
       /\ Reply([kind |-> "challenge", challenge |-> c, table |-> sv_table])
  /\ UNCHANGED sv_accepted

ServerConnect(r) ==
  /\ r.kind = "connect"
  /\ IF r.challenge = sv_challenge
     THEN /\ sv_accepted' = sv_accepted \cup {r}
          /\ Reply([kind |-> "connection"])
     ELSE /\ Reply([kind |-> "print"])
          /\ UNCHANGED sv_accepted
  /\ UNCHANGED sv_challenge

ServerReceive(r) ==
  /\ ServerChallenge(r) \/ ServerConnect(r)
  /\ c2s' = c2s \ {r} \/ UNCHANGED c2s
  /\ UNCHANGED <<clientVars, sv_table, forgets, sentVars>>

ServerForget ==
  /\ forgets < MaxForgets /\ sv_challenge # 0
  /\ forgets' = forgets + 1 /\ sv_challenge' = 0
  /\ UNCHANGED <<clientVars, sv_table, sv_accepted, c2s, s2c, sentVars>>

Lose ==
  /\ \/ \E r \in c2s : c2s' = c2s \ {r} /\ UNCHANGED s2c
     \/ \E a \in s2c : s2c' = s2c \ {a} /\ UNCHANGED c2s
  /\ UNCHANGED <<clientVars, serverVars, sentVars>>

-----------------------------------------------------------------------------
Next ==
  \/ Tick \/ DoSend
  \/ \E a \in s2c : DoReceive(a)
  \/ \E r \in c2s : ServerReceive(r)
  \/ ServerForget \/ Lose

Spec == Init /\ [][Next]_vars

\* The net thread polls (its wait is at most 50 ms), and the network does not
\* lose every copy of a packet that is sent again and again.
FairSpec ==
  /\ Spec
  /\ WF_vars(Tick) /\ WF_vars(DoSend)
  /\ SF_vars(TheRequest \in c2s /\ ServerReceive(TheRequest))
  /\ SF_vars(\E a \in s2c : a.kind = "challenge" /\ DoReceive(a))
  /\ SF_vars(\E a \in s2c : a.kind = "connection" /\ DoReceive(a))

-----------------------------------------------------------------------------
(* Type invariant. *)
TypeOK ==
  /\ state \in {"sendchallenge", "sendconnection", "connected"}
  /\ challenge \in Challenge \cup {0}
  /\ (challenge = 0) = (state = "sendchallenge")
  /\ huffcontext \in BOOLEAN
  /\ resend \in 0..RESEND /\ news \in Nat
  /\ sv_table \in {"none", "known", "unknown"}
  /\ sv_challenge \in Challenge \cup {0} /\ sv_accepted \subseteq Connect
  /\ forgets \in 0..MaxForgets
  /\ c2s \subseteq Request /\ s2c \subseteq Answer
  /\ last \in {"none", "getchallenge", "connect"} /\ since \in 0..RESEND

(* However often packets are repeated, the connection starts with exactly   *)
(* one "new".                                                               *)
OneNew == news = (IF state = "connected" THEN 1 ELSE 0)

(* The client takes itself for connected only when the server has accepted  *)
(* a request with the challenge the client has, and then both compress or   *)
(* neither does.                                                            *)
ConnectedAsAccepted ==
  state = "connected" =>
    [kind |-> "connect", challenge |-> challenge, huff |-> huffcontext] \in sv_accepted

(* The same request is never repeated within RESEND ticks, however the      *)
(* answers come in.                                                         *)
RepeatsAreSpaced ==
  [][DoSend /\ last = TheRequest.kind => since = RESEND]_vars

(* The client gets its connection, unless the server forgets the challenge  *)
(* it gave: then its answer "bad challenge" is only printed, and the same   *)
(* request repeated.                                                        *)
EventuallyConnected == <>(state = "connected" \/ forgets > 0)

-----------------------------------------------------------------------------
(* The inductive invariant.                                                 *)

\* The only connect request the client can send.
MyConnect == [kind |-> "connect", challenge |-> challenge, huff |-> huffcontext]

\* No connect request, and so no connection, precedes the challenge; later
\* there is only one such request, and a connection answers it.
OnlyMyConnect ==
  /\ state = "sendchallenge" =>
       /\ c2s \subseteq {[kind |-> "getchallenge"]} /\ sv_accepted = {}
       /\ [kind |-> "connection"] \notin s2c
  /\ c2s \subseteq {[kind |-> "getchallenge"], MyConnect}
  /\ [kind |-> "connection"] \in s2c => MyConnect \in sv_accepted

\* What is left of the timer and what has passed make up RESEND.
TimerInv ==
  /\ last = TheRequest.kind => resend + since >= RESEND
  /\ state = "sendchallenge" => last # "connect"

IInv == TypeOK /\ OneNew /\ ConnectedAsAccepted /\ OnlyMyConnect /\ TimerInv

=============================================================================
