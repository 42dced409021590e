--------------------------- MODULE HandshakeProof ---------------------------
(***************************************************************************)
(* Proofs about Handshake, for every set of challenges, every interval of  *)
(* repetition and however often the server forgets.                        *)
(***************************************************************************)
EXTENDS Handshake, TLAPS

USE HandshakeAssumption

LEMMA InitInv == Init => IInv
  <1> SUFFICES ASSUME Init PROVE IInv
    OBVIOUS
  <1>1. TypeOK
    <2>1. 0 \in Challenge \cup {0} /\ RESEND \in 0..RESEND /\ 0 \in 0..RESEND
          /\ 0 \in 0..MaxForgets
      OBVIOUS
    <2> QED
      BY <2>1 DEF Init, TypeOK
  <1>2. OneNew /\ ConnectedAsAccepted /\ OnlyMyConnect
    BY DEF Init, OneNew, ConnectedAsAccepted, OnlyMyConnect
  <1>3. TimerInv
    BY DEF Init, TimerInv, TheRequest
  <1> QED
    BY <1>1, <1>2, <1>3 DEF IInv

(* One step of each kind. *)
LEMMA TickInv == IInv /\ Tick => IInv'
  BY DEF IInv, TypeOK, OneNew, ConnectedAsAccepted, OnlyMyConnect, TimerInv,
         TheRequest, MyConnect, Tick, serverVars

LEMMA DoSendInv == IInv /\ DoSend => IInv'
  <1> SUFFICES ASSUME IInv, DoSend PROVE IInv'
    OBVIOUS
  <1>1. TheRequest \in Request
    BY DEF IInv, TypeOK, DoSend, TheRequest, Request, Connect
  <1>2. /\ TheRequest.kind \in {"getchallenge", "connect"}
        /\ state = "sendchallenge" => TheRequest = [kind |-> "getchallenge"]
        /\ state # "sendchallenge" => TheRequest = MyConnect
    BY DEF TheRequest, MyConnect
  <1>3. TypeOK'
    BY <1>1, <1>2 DEF IInv, TypeOK, DoSend, ResendAfter, serverVars
  <1>4. OneNew' /\ ConnectedAsAccepted'
    BY DEF IInv, OneNew, ConnectedAsAccepted, DoSend, serverVars
  <1>5. OnlyMyConnect'
    BY <1>2 DEF IInv, OnlyMyConnect, MyConnect, DoSend, serverVars
  <1>6. TimerInv'
    <2>1. (resend + since >= RESEND)'
      BY DEF DoSend, ResendAfter
    <2>2. state' = state /\ last' = TheRequest.kind
      BY DEF DoSend
    <2> QED
      BY <2>1, <2>2 DEF TimerInv, TheRequest
  <1> QED
    BY <1>3, <1>4, <1>5, <1>6 DEF IInv

LEMMA DoReceiveInv == ASSUME NEW a \in s2c, IInv, DoReceive(a) PROVE IInv'
  <1>1. CASE ReceiveChallenge(a)
    <2>1. a.challenge \in Challenge /\ KnowsTable(a.table) \in BOOLEAN
      BY <1>1 DEF IInv, TypeOK, ReceiveChallenge, Answer, KnowsTable
    <2>2. TypeOK'
      BY <1>1, <2>1 DEF IInv, TypeOK, DoReceive, ReceiveChallenge, serverVars, sentVars
    <2>3. OneNew' /\ ConnectedAsAccepted'
      BY <1>1 DEF IInv, OneNew, ConnectedAsAccepted, ReceiveChallenge
    <2>4. OnlyMyConnect'
      BY <1>1 DEF IInv, OnlyMyConnect, DoReceive, ReceiveChallenge, serverVars
    <2>5. last # "connect" /\ last' = last
      BY <1>1 DEF IInv, TimerInv, DoReceive, ReceiveChallenge, sentVars
    <2>6. TimerInv'
      BY <1>1, <2>5 DEF TimerInv, TheRequest, ReceiveChallenge
    <2> QED
      BY <2>2, <2>3, <2>4, <2>6 DEF IInv
  <1>2. CASE ReceiveConnection(a)
    <2> USE <1>2 DEF ReceiveConnection, WaitsForConnection
    <2>1. a = [kind |-> "connection"]
      BY DEF IInv, TypeOK, Answer
    <2>2. MyConnect \in sv_accepted
      BY <2>1 DEF IInv, OnlyMyConnect
    <2>3. TypeOK'
      BY DEF IInv, TypeOK, DoReceive, serverVars, sentVars
    <2>4. OneNew'
      BY DEF IInv, OneNew
    <2>5. ConnectedAsAccepted'
      BY <2>2 DEF ConnectedAsAccepted, MyConnect, DoReceive, serverVars
    <2>6. OnlyMyConnect'
      BY <2>2 DEF IInv, OnlyMyConnect, MyConnect, DoReceive, serverVars
    <2>7. TimerInv'
      BY DEF IInv, TimerInv, TheRequest, DoReceive, sentVars
    <2> QED
      BY <2>3, <2>4, <2>5, <2>6, <2>7 DEF IInv
  <1>3. CASE Ignore(a)
    BY <1>3 DEF IInv, TypeOK, OneNew, ConnectedAsAccepted, OnlyMyConnect, TimerInv,
         TheRequest, MyConnect, DoReceive, Ignore, clientVars, serverVars, sentVars
  <1> QED
    BY <1>1, <1>2, <1>3 DEF DoReceive

LEMMA ServerReceiveInv == ASSUME NEW r \in c2s, IInv, ServerReceive(r) PROVE IInv'
  <1>1. r \in Request /\ UNCHANGED <<clientVars, sv_table, forgets, sentVars>>
    BY DEF IInv, TypeOK, ServerReceive
  <1>2. CASE ServerChallenge(r)
    <2>1. PICK c \in Challenge \cup {sv_challenge} :
            /\ sv_challenge' = c /\ c \in Challenge
            /\ s2c' = s2c \cup {[kind |-> "challenge", challenge |-> c,
                                 table |-> sv_table]}
            /\ sv_accepted' = sv_accepted
      BY <1>2 DEF IInv, TypeOK, ServerChallenge, Reply
    <2>2. TypeOK'
      BY <1>1, <2>1 DEF IInv, TypeOK, ServerReceive, Answer, clientVars, sentVars
    <2>3. OneNew' /\ ConnectedAsAccepted' /\ OnlyMyConnect'
      BY <1>1, <2>1 DEF IInv, OneNew, ConnectedAsAccepted, OnlyMyConnect, MyConnect,
                        ServerReceive, clientVars
    <2>4. TimerInv'
      BY <1>1 DEF IInv, TimerInv, TheRequest, clientVars, sentVars
    <2> QED
      BY <2>2, <2>3, <2>4 DEF IInv
  <1>3. CASE ServerConnect(r)
    <2>1. r = MyConnect /\ state # "sendchallenge" /\ r \in Connect
      BY <1>1, <1>3 DEF IInv, OnlyMyConnect, ServerConnect, Request
    <2>2. /\ sv_challenge' = sv_challenge
          /\ \/ /\ sv_accepted' = sv_accepted \cup {r}
                /\ s2c' = s2c \cup {[kind |-> "connection"]}
             \/ /\ sv_accepted' = sv_accepted
                /\ s2c' = s2c \cup {[kind |-> "print"]}
      BY <1>3 DEF ServerConnect, Reply
    <2>3. TypeOK'
      BY <1>1, <2>1, <2>2 DEF IInv, TypeOK, ServerReceive, Answer, clientVars, sentVars
    <2>4. OneNew' /\ ConnectedAsAccepted'
      BY <1>1, <2>2 DEF IInv, OneNew, ConnectedAsAccepted, clientVars
    <2>5. OnlyMyConnect'
      BY <1>1, <2>1, <2>2 DEF IInv, OnlyMyConnect, MyConnect, ServerReceive, clientVars
    <2>6. TimerInv'
      BY <1>1 DEF IInv, TimerInv, TheRequest, clientVars, sentVars
    <2> QED
      BY <2>3, <2>4, <2>5, <2>6 DEF IInv
  <1> QED
    BY <1>2, <1>3 DEF ServerReceive

LEMMA NetworkInv == IInv /\ (ServerForget \/ Lose) => IInv'
  <1>1. ASSUME IInv, ServerForget PROVE IInv'
    BY <1>1, HandshakeAssumption
       DEF IInv, TypeOK, OneNew, ConnectedAsAccepted, OnlyMyConnect, TimerInv,
           TheRequest, MyConnect, ServerForget, clientVars, sentVars
  <1>2. ASSUME IInv, Lose PROVE IInv'
    BY <1>2 DEF IInv, TypeOK, OneNew, ConnectedAsAccepted, OnlyMyConnect, TimerInv,
                TheRequest, MyConnect, Lose, clientVars, serverVars, sentVars
  <1> QED
    BY <1>1, <1>2

LEMMA NextInv == IInv /\ [Next]_vars => IInv'
  <1>1. ASSUME IInv, UNCHANGED vars PROVE IInv'
    BY <1>1 DEF IInv, TypeOK, OneNew, ConnectedAsAccepted, OnlyMyConnect, TimerInv,
                TheRequest, MyConnect, vars, clientVars, serverVars, sentVars
  <1> QED
    BY <1>1, TickInv, DoSendInv, DoReceiveInv, ServerReceiveInv, NetworkInv DEF Next

(* The inductive invariant holds in every behaviour. *)
THEOREM Invariance == Spec => []IInv
  BY InitInv, NextInv, PTL DEF Spec

(* Every variable of the handshake keeps its type. *)
THEOREM TypeCorrect == Spec => []TypeOK
  <1>1. IInv => TypeOK
    BY DEF IInv
  <1> QED
    BY <1>1, Invariance, PTL

(* The connection branch of DoReceive queues "new" exactly once. *)
THEOREM OneNewAlways == Spec => []OneNew
  <1>1. IInv => OneNew
    BY DEF IInv
  <1> QED
    BY <1>1, Invariance, PTL

(* DoReceive reaches state_connected only with what the server accepted. *)
THEOREM ConnectedAsAcceptedAlways == Spec => []ConnectedAsAccepted
  <1>1. IInv => ConnectedAsAccepted
    BY DEF IInv
  <1> QED
    BY <1>1, Invariance, PTL

(* DoSend waits RESEND before it sends the same request again, although     *)
(* resendtime is set to zero whenever the state changes.                    *)
THEOREM RepeatsAreSpacedAlways == Spec => RepeatsAreSpaced
  <1>1. IInv /\ [Next]_vars =>
          [DoSend /\ last = TheRequest.kind => since = RESEND]_vars
    BY DEF IInv, TypeOK, TimerInv, DoSend, ResendDue
  <1> QED
    BY <1>1, Invariance, PTL DEF Spec, RepeatsAreSpaced

=============================================================================
