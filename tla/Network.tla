------------------------------ MODULE Network ------------------------------
(***************************************************************************)
(* The addresses of net.c: how NET_StringToAdr reads the host string given *)
(* to QWC_Connect, and how addresses are compared.  A string is a sequence *)
(* of tokens: numbers, the marks "." and ":", "local" and other words.     *)
(* net.c's loopback buffers and sockets are not used by the library.       *)
(***************************************************************************)
EXTENDS Ports

Number(n) == [kind |-> "number", value |-> n]
Token(kind) == [kind |-> kind, value |-> 0]
Dot == Token(".")
Colon == Token(":")

IsKind(s, i, kind) == i \in DOMAIN s /\ s[i].kind = kind

-----------------------------------------------------------------------------
(* Comparing. *)

\* Without the port; it is also the seeded bug of NET_CompareAdr.
NET_CompareBaseAdr(a, b) ==
  /\ a.type = b.type
  /\ a.type = "NA_LOOPBACK" \/ a.address = b.address

NET_CompareAdr(a, b) ==
  /\ a.type = b.type
  /\ a.type = "NA_LOOPBACK" \/ (a.address = b.address /\ a.port = b.port)

-----------------------------------------------------------------------------
(* Reading.  Each function gives the number of tokens it has read, 0 if it   *)
(* cannot read the string.                                                   *)

\* The number at the head of s, unless it is greater than maxvalue.
NET_StringDecToUInt(s, maxvalue) ==
  IF IsKind(s, 1, "number") /\ s[1].value <= maxvalue THEN 1 ELSE 0

NET_StringToIPv6(s) == 0

\* Four numbers with dots between them, up to the end or a colon.
NET_StringToIPv4(s) ==
  IF /\ \A i \in {1, 3, 5, 7} : NET_StringDecToUInt(SubSeq(s, i, Len(s)), 255) = 1
     /\ \A i \in {2, 4, 6} : IsKind(s, i, ".")
     /\ Len(s) = 7 \/ IsKind(s, 8, ":")
  THEN 7 ELSE 0

\* The address without its port, as a sequence of at most one, and what was read.
NET_StringToNetAddrNoPort(platform, s, answers) ==
  LET colons == {i \in DOMAIN s : s[i].kind = ":"}
      \* endofhostname
      name == IF colons = {} THEN Len(s)
              ELSE (CHOOSE i \in colons : \A j \in colons : i <= j) - 1
      resolved == Sys_Net_ResolveName(platform, answers)
  IN  IF s = <<Token("local")>>
      THEN [len |-> 1, adr |-> [type |-> "NA_LOOPBACK", address |-> << >>, port |-> 0]]
      ELSE IF NET_StringToIPv6(s) # 0 \/ NET_StringToIPv4(s) # 0
      THEN [len |-> NET_StringToIPv4(s),
            adr |-> [type |-> "NA_IPV4", port |-> 0,
                     address |-> [i \in 1 .. 4 |-> s[2 * i - 1].value]]]
      ELSE IF resolved # << >>
      THEN [len |-> name, adr |-> resolved[1]]
      ELSE [len |-> 0, adr |-> [type |-> "none", address |-> << >>, port |-> 0]]

\* Whether the rest of a string is a colon and a port; otherwise it is the usual one.
PortGiven(rest) ==
  /\ Len(rest) = 2 /\ IsKind(rest, 1, ":")
  /\ NET_StringDecToUInt(Tail(rest), 65535) = 1
PortOf(rest) == IF PortGiven(rest) THEN rest[2].value ELSE 27500

\* At most one address: of the name, and of the port behind it.
NET_StringToAdr(platform, s, answers) ==
  LET read == NET_StringToNetAddrNoPort(platform, s, answers)
      rest == SubSeq(s, read.len + 1, Len(s))
  IN  IF read.len = 0 \/ ~(rest = << >> \/ PortGiven(rest)) THEN << >>
      ELSE IF read.adr.type = "NA_LOOPBACK"
      THEN (IF PortOf(rest) # 27500 THEN << >> ELSE <<read.adr>>)
      ELSE <<[read.adr EXCEPT !.port = PortOf(rest)]>>

=============================================================================
