------------------------------ MODULE MsgRead ------------------------------
(***************************************************************************)
(* The reader of message_reading.c.  A message is a sequence of bytes; of  *)
(* a field only the first byte carries its kind and value, the others are  *)
(* "more".  A string is one byte that stands for its text and the byte of  *)
(* its end, an empty string the end alone.                                 *)
(*                                                                         *)
(* A reader is a record with the fields msg_readcount and msg_badread of   *)
(* struct qw_connection, the message, and instep: every field read so far  *)
(* began where the reader stood and was of the kind it was read as.        *)
(***************************************************************************)
EXTENDS Integers, Sequences, SequencesExt

Field(kind, value) == <<kind, value>>

\* The kinds say what the bytes are for: svc is the byte of a command, type and bits
\* are bytes and word a short that select what follows them.
Width == [svc |-> 1, byte |-> 1, type |-> 1, bits |-> 1, char |-> 1,
          short |-> 2, word |-> 2, long |-> 4, float |-> 4]

\* The bytes of a field.
Bytes(field) ==
  CASE field[1] \in DOMAIN Width ->
         <<field>> \o [i \in 1 .. Width[field[1]] - 1 |-> Field("more", 0)]
    [] field[1] = "string" -> <<field, Field("end", 0)>>
    [] OTHER -> <<field>>

\* A message with these fields.
Written(fields) == FlattenSeq([i \in DOMAIN fields |-> Bytes(fields[i])])

MSG_BeginReading(r, message) ==
  [r EXCEPT !.message = message, !.msg_readcount = 0, !.msg_badread = FALSE]

Fits(r, width) == r.msg_readcount + width <= Len(r.message)

\* Whether a field of this kind begins here.
Here(r, kind) ==
  /\ r.msg_readcount < Len(r.message)
  /\ r.message[r.msg_readcount + 1][1] = kind

Advance(r, kind, width) ==
  [r EXCEPT !.msg_readcount = @ + width, !.instep = @ /\ Here(r, kind)]

\* MSG_ReadByte, MSG_ReadChar, MSG_ReadShort and MSG_ReadLong; a coordinate is a
\* short, an angle a char and a 16 bit angle a short.
ReadInteger(r, kind) ==
  IF Fits(r, Width[kind])
  THEN Advance(r, kind, Width[kind])
  ELSE [r EXCEPT !.msg_badread = TRUE]

\* MSG_ReadFloat does not look where the message ends.
MSG_ReadFloat(r) ==
  IF Fits(r, 1)
  THEN Advance(r, "float", 4)
  ELSE [r EXCEPT !.msg_readcount = @ + 4]

\* Seeded bug: a string that is cut is taken as it is.
MSG_ReadStringLeft(r) ==
  IF ~Fits(r, 1) THEN r
  ELSE IF Here(r, "end") THEN Advance(r, "end", 1)
  ELSE Advance(r, "string", IF Fits(r, 2) THEN 2 ELSE 1)

\* MSG_ReadString: up to the end of the string or of the message.
MSG_ReadString(r) ==
  IF ~Fits(r, 1) THEN [r EXCEPT !.msg_badread = TRUE]
  ELSE IF Here(r, "end") THEN Advance(r, "end", 1)
  ELSE IF Fits(r, 2) THEN Advance(r, "string", 2)
  ELSE [Advance(r, "string", 1) EXCEPT !.msg_badread = TRUE]

\* Op(r).  TLC evaluates an argument wherever it is used: here it is used once.
Once(r, Op(_)) == CHOOSE s \in {Op(q) : q \in {r}} : TRUE

Read(r, kind) ==
  Once(r, LAMBDA q : CASE kind = "float" -> MSG_ReadFloat(q)
                       [] kind = "string" -> MSG_ReadString(q)
                       [] OTHER -> ReadInteger(q, kind))

ReadAll(r, kinds) ==
  LET After[n \in 0 .. Len(kinds)] ==
        IF n = 0 THEN r ELSE Read(After[n - 1], kinds[n])
  IN  After[Len(kinds)]

ReadIf(r, condition, kind) == IF condition THEN Read(r, kind) ELSE r

\* A loop: Round gives the reader behind one round and whether there is another.  As
\* each round moves ahead, there are not more rounds than bytes, and one that ends it.
Repeat(r, Round(_)) ==
  LET After[n \in 0 .. Len(r.message) + 1] ==
        IF n = 0 THEN <<r, TRUE>>
        ELSE Once(After[n - 1], LAMBDA s : IF s[2] THEN Round(s[1]) ELSE s)
  IN  After[Len(r.message) + 1][1]

\* What reading a field of this kind returns; `none' when it is not there.
Value(r, kind, none) ==
  IF Here(r, kind) /\ (kind = "string" \/ Fits(r, Width[kind]))
  THEN r.message[r.msg_readcount + 1][2]
  ELSE none

=============================================================================
