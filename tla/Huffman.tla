------------------------------ MODULE Huffman ------------------------------
(***************************************************************************)
(* Huff_CompressPacket and Huff_DecompressPacket, for the tables of any    *)
(* struct hufftables.  A packet is a first byte, which is the number of    *)
(* unused bits or says that the rest is not compressed, and the bytes that *)
(* follow.  What lies in memory behind them is read too when codes are     *)
(* looked up, 11 bits at a time.                                           *)
(***************************************************************************)
EXTENDS HuffmanTables

CONSTANTS
  huffcontext,  \* huffenctable: of a byte, the length of its code and the code;
                \* huffdectable: of 11 bits, the byte whose code they begin with and
                \* its length
  MAX_MSGLEN    \* how much is decompressed at most

Byte == 0 .. 255
Index == 0 .. 2 ^ 11 - 1

\* Behind a code its short is 0, for huffencbyte copies whole bytes, and 11 bits that
\* begin with a byte's code lead back to this byte.
ASSUME TablesAssumption ==
  \A byte \in Byte :
    LET entry == huffcontext.huffenctable[byte + 1]
    IN  /\ entry[1] \in 1 .. 11 /\ entry[2] \in Nat
        /\ entry[2] % 2 ^ (16 - entry[1]) = 0
        /\ \A index \in Index :
             (\A i \in 1 .. entry[1] : Bit(index, 11 - i) = Bit(entry[2], 16 - i))
             => huffcontext.huffdectable[index + 1] = <<byte, entry[1]>>

ASSUME MAX_MSGLENAssumption == MAX_MSGLEN \in Nat

\* The bits of a byte's code.
Code(byte) ==
  LET entry == huffcontext.huffenctable[byte + 1]
  IN  [i \in 1 .. entry[1] |-> Bit(entry[2], 16 - i)]

\* huffencbyte for the first n bytes of inbuf.
Codes(inbuf, n) ==
  LET Bits[i \in 0 .. n] == IF i = 0 THEN << >> ELSE Bits[i - 1] \o Code(inbuf[i])
  IN  Bits[n]

Raw(inbuf) == <<128>> \o inbuf

\* The number of these 8 bits.
Number(bits) ==
  128 * bits[1] + 64 * bits[2] + 32 * bits[3] + 16 * bits[4]
  + 8 * bits[5] + 4 * bits[6] + 2 * bits[7] + bits[8]

\* The bits in this number of bytes; the first bit of a byte is its lowest.
Packed(bits, pad, bytes) ==
  LET padded == bits \o [i \in 1 .. 8 |-> 0]
  IN  <<pad>> \o [i \in 1 .. bytes |->
                   bitswaptable[Number(SubSeq(padded, 8 * i - 7, 8 * i))]]

\* Seeded bug: no byte is wasted when the bits fill the last one.
Huff_CompressPacketTight(inbuf) ==
  LET bits == Codes(inbuf, Len(inbuf))
      outlen == Len(bits)
  IN  IF outlen \div 8 >= Len(inbuf) THEN Raw(inbuf)
      ELSE Packed(bits, 8 - (outlen % 8), (outlen + 7) \div 8)

\* A packet that does not become shorter is sent as it is.  There is always room for
\* it in the output.
Huff_CompressPacket(inbuf) ==
  LET bits == Codes(inbuf, Len(inbuf))
      outlen == Len(bits)
  IN  IF outlen \div 8 >= Len(inbuf) THEN Raw(inbuf)
      ELSE Packed(bits, 8 - (outlen % 8), (outlen + 8) \div 8)

\* huffdecbyte: the entry for the 11 bits behind the first len, of three bytes.
huffdecbyte(inbuf, len) ==
  LET o == len \div 8
      three == bitswaptable[inbuf[o + 1]] * 65536
               + bitswaptable[inbuf[o + 2]] * 256 + bitswaptable[inbuf[o + 3]]
      index == (three \div 2 ^ (8 - (len % 8))) % 65536
  IN  huffcontext.huffdectable[index \div 2 ^ (16 - 11) + 1]

\* One byte more, if there is one and a place for it.
Decode(s, encmsg, inbuflen) ==
  IF s.outlen < inbuflen /\ Len(s.buffer) < MAX_MSGLEN
  THEN LET entry == huffdecbyte(encmsg, s.outlen)
       IN  [outlen |-> s.outlen + entry[2], buffer |-> Append(s.buffer, entry[1])]
  ELSE s

\* behind is the byte that follows the packet in memory, again and again.  There are
\* not more bytes than bits.
Huff_DecompressPacket(packet, behind) ==
  LET encmsg == Tail(packet) \o <<behind, behind, behind>>
      inbuflen == 8 * (Len(packet) - 1) - Head(packet)
      After[i \in Nat] ==
        IF i = 0 THEN [outlen |-> 0, buffer |-> << >>]
        ELSE Decode(After[i - 1], encmsg, inbuflen)
  IN  IF Head(packet) = 128 THEN Tail(packet) ELSE After[inbuflen].buffer

=============================================================================
