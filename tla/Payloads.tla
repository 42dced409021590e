------------------------------ MODULE Payloads ------------------------------
(***************************************************************************)
(* What main.c reads behind the byte of a command, for the commands that   *)
(* are read and then forgotten, and what protocol.h says is there.         *)
(*                                                                         *)
(* Flags are sets of their names.  A read that fails returns -1, which has *)
(* every flag.                                                             *)
(***************************************************************************)
EXTENDS MsgRead, FiniteSets

Vector == <<"short", "short", "short">>

FlagsOf(fields) == {fields[i][1] : i \in DOMAIN fields}

\* The kinds of the fields whose flag is set, in their order.
Kinds(flags, fields) ==
  FlattenSeq([i \in DOMAIN fields |->
               IF fields[i][1] \in flags THEN <<fields[i][2]>> ELSE << >>])

Unnamed(kinds) == [i \in DOMAIN kinds |-> Field(kinds[i], 0)]

\* Read the fields whose flag is set, and write them.
ReadOptional(r, flags, fields) == Once(Kinds(flags, fields), LAMBDA k : ReadAll(r, k))
WrittenOptional(flags, fields) == Unnamed(Kinds(flags, fields))

-----------------------------------------------------------------------------
(* Commands whose payload is always the same. *)

ParseLightstyles == <<"byte", "string">>

ParseBaseLine ==
  <<"short", "byte", "byte", "byte", "byte",
    "short", "char", "short", "char", "short", "char">>

ParseSpawnStaticSound == Vector \o <<"byte", "byte", "byte">>

Silent == {"nop", "disconnect", "stopsound", "spawnstatic", "killedmonster",
           "foundsecret", "sellscreen", "smallkick", "bigkick", "serverinfo",
           "nails2", "maxspeed", "entgravity", "qizmovoice",
           "time", "intermission", "finale", "nails", "deltapacketentities"}

\* The cases of ParseServerMessage that only read.
Payload ==
  [centerprint |-> <<"string">>, damage |-> <<"byte", "byte">> \o Vector,
   setangle |-> <<"char", "char", "char">>, lightstyle |-> ParseLightstyles,
   updatefrags |-> <<"byte", "short">>, updateping |-> <<"byte", "short">>,
   updatepl |-> <<"byte", "byte">>, updateentertime |-> <<"byte", "float">>,
   updateuserinfo |-> <<"byte", "long", "string">>,
   spawnbaseline |-> ParseBaseLine, updatestat |-> <<"byte", "byte">>,
   updatestatlong |-> <<"byte", "long">>,
   spawnstaticsound |-> ParseSpawnStaticSound, cdtrack |-> <<"byte">>,
   muzzleflash |-> <<"short">>, setinfo |-> <<"byte", "string", "string">>,
   chokecount |-> <<"byte">>]

Parsed ==
  [svc \in DOMAIN Payload \cup Silent |->
     IF svc \in DOMAIN Payload THEN Payload[svc] ELSE << >>]

\* What protocol.h documents, whether it is read or not.  48 bits are six bytes of any
\* value.
InProtocol ==
  [updatestat |-> <<"byte", "byte">>, setview |-> <<"short">>, time |-> <<"float">>,
   setangle |-> <<"char", "char", "char">>, lightstyle |-> <<"byte", "string">>,
   updatefrags |-> <<"byte", "short">>, setpause |-> <<"byte">>,
   centerprint |-> <<"string">>,
   spawnstaticsound |-> Vector \o <<"byte", "byte", "byte">>,
   intermission |-> Vector \o <<"char", "char", "char">>, finale |-> <<"string">>,
   cdtrack |-> <<"byte">>, updateping |-> <<"byte", "short">>,
   updateentertime |-> <<"byte", "float">>, updatestatlong |-> <<"byte", "long">>,
   muzzleflash |-> <<"short">>, updateuserinfo |-> <<"byte", "long", "string">>,
   nails |-> [i \in 1 .. 7 |-> "data"], chokecount |-> <<"byte">>,
   updatepl |-> <<"byte", "byte">>]

\* Neither protocol.h nor the parser says what a server writes behind these: at least
\* a byte, of any value.
Undocumented == {"stopsound", "spawnstatic", "serverinfo", "nails2", "maxspeed",
                 "entgravity", "qizmovoice"}

\* What a server writes behind a command.  Of damage, spawnbaseline and setinfo only
\* the parser says it; the other commands of Silent have nothing behind them.
Documented ==
  [svc \in DOMAIN InProtocol \cup (DOMAIN Parsed \ {"deltapacketentities"}) |->
     CASE svc \in DOMAIN InProtocol -> InProtocol[svc]
       [] svc \in Undocumented -> <<"data">>
       [] OTHER -> Parsed[svc]]

-----------------------------------------------------------------------------
(* Players. *)

UsercmdFields(protoversion) ==
  IF protoversion = 26
  THEN <<<<"CM_ANGLE1", "short">>, <<"always", "short">>, <<"CM_ANGLE3", "short">>,
         <<"CM_FORWARD", "char">>, <<"CM_SIDE", "char">>, <<"CM_UP", "char">>,
         <<"CM_BUTTONS", "byte">>, <<"CM_IMPULSE", "byte">>, <<"CM_ANGLE2", "byte">>>>
  ELSE <<<<"CM_ANGLE1", "short">>, <<"CM_ANGLE2", "short">>, <<"CM_ANGLE3", "short">>,
         <<"CM_FORWARD", "short">>, <<"CM_SIDE", "short">>, <<"CM_UP", "short">>,
         <<"CM_BUTTONS", "byte">>, <<"CM_IMPULSE", "byte">>, <<"always", "byte">>>>

\* Seeded bug: the time of a command is expected only if a flag says so.
MSG_ReadDeltaUsercmdMsec(r, protoversion) ==
  LET fields == UsercmdFields(protoversion)
      bits == Value(r, "bits", FlagsOf(fields))
  IN  ReadOptional(Read(r, "bits"), bits, fields)

\* CM_MSEC is CM_ANGLE2.
MSG_ReadDeltaUsercmd(r, protoversion) ==
  LET fields == UsercmdFields(protoversion)
      bits == Value(r, "bits", FlagsOf(fields)) \cup {"always"}
  IN  ReadOptional(Read(r, "bits"), bits, fields)

\* The writer of netqw.c, which does not know version 26.
WriteDeltaUsercmd(bits) ==
  <<Field("bits", bits)>>
  \o WrittenOptional(bits,
       <<<<"CM_ANGLE1", "short">>, <<"CM_ANGLE2", "short">>, <<"CM_ANGLE3", "short">>,
         <<"CM_FORWARD", "short">>, <<"CM_SIDE", "short">>, <<"CM_UP", "short">>,
         <<"CM_BUTTONS", "byte">>, <<"CM_IMPULSE", "byte">>>>)
  \o <<Field("byte", 0)>>

\* Nothing here writes version 26: it is taken as it is read.
Usercmd(bits, protoversion) ==
  IF protoversion = 26
  THEN <<Field("bits", bits)>>
       \o WrittenOptional(bits \cup {"always"}, UsercmdFields(26))
  ELSE WriteDeltaUsercmd(bits)

PlayerFields ==
  <<<<"PF_VELOCITY1", "short">>, <<"PF_VELOCITY2", "short">>,
    <<"PF_VELOCITY3", "short">>, <<"PF_MODEL", "byte">>, <<"PF_SKINNUM", "byte">>,
    <<"PF_EFFECTS", "byte">>, <<"PF_WEAPONFRAME", "byte">>>>

PlayerFlags == FlagsOf(PlayerFields) \cup {"PF_MSEC", "PF_COMMAND"}

ParsePlayerinfo(r, protoversion) ==
  LET number == Read(r, "byte")
      flags == Value(number, "word", PlayerFlags)
      place == ReadAll(Read(number, "word"), Vector \o <<"byte">>)
      msec == ReadIf(place, "PF_MSEC" \in flags, "byte")
      command == IF "PF_COMMAND" \in flags
                 THEN MSG_ReadDeltaUsercmd(msec, protoversion)
                 ELSE msec
  IN  ReadOptional(command, flags, PlayerFields)

PlayerInfo(flags, bits, protoversion) ==
  <<Field("byte", 0), Field("word", flags), Field("short", 0), Field("short", 0),
    Field("short", 0), Field("byte", 0)>>
  \o WrittenOptional(flags, <<<<"PF_MSEC", "byte">>>>)
  \o (IF "PF_COMMAND" \in flags THEN Usercmd(bits, protoversion) ELSE << >>)
  \o WrittenOptional(flags, PlayerFields)

-----------------------------------------------------------------------------
(* Sounds and temporary entities. *)

SoundFields == <<<<"SND_VOLUME", "byte">>, <<"SND_ATTENUATION", "byte">>>>

ParseSoundPacket(r) ==
  LET channel == Value(r, "word", FlagsOf(SoundFields))
  IN  ReadAll(ReadOptional(Read(r, "word"), channel, SoundFields),
              <<"byte">> \o Vector)

SoundPacket(flags) ==
  <<Field("word", flags)>> \o WrittenOptional(flags, SoundFields)
  \o <<Field("byte", 0), Field("short", 0), Field("short", 0), Field("short", 0)>>

ParseBeam == <<"short">> \o Vector \o Vector

Beams == {"LIGHTNING1", "LIGHTNING2", "LIGHTNING3"}
Counted == {"GUNSHOT", "BLOOD"}

\* The types that are cases of the switch.
TempEntities ==
  Beams \cup Counted
  \cup {"SPIKE", "SUPERSPIKE", "EXPLOSION", "TAREXPLOSION", "WIZSPIKE",
        "KNIGHTSPIKE", "LAVASPLASH", "TELEPORT", "LIGHTNINGBLOOD"}

TempEntityPayload(te) ==
  CASE te \in Beams -> ParseBeam
    [] te \in Counted -> <<"byte">> \o Vector
    [] OTHER -> Vector

KnownTempEntity(r) == Value(r, "type", "none") \in TempEntities

ParseTempEntity(r) ==
  IF KnownTempEntity(r)
  THEN ReadAll(Read(r, "type"), TempEntityPayload(Value(r, "type", "none")))
  ELSE Read(r, "type")

TempEntity(te) == <<Field("type", te)>> \o Unnamed(TempEntityPayload(te))

-----------------------------------------------------------------------------
(* Entities.  The first word of an entity is its number and seven flags; the    *)
(* word 0 ends the update.  Here it is {} and that of an entity has "entity" in  *)
(* it.                                                                           *)

DeltaFields ==
  <<<<"U_MODEL", "byte">>, <<"U_FRAME", "byte">>, <<"U_COLORMAP", "byte">>,
    <<"U_SKIN", "byte">>, <<"U_EFFECTS", "byte">>, <<"U_ORIGIN1", "short">>,
    <<"U_ANGLE1", "char">>, <<"U_ORIGIN2", "short">>, <<"U_ANGLE2", "char">>,
    <<"U_ORIGIN3", "short">>, <<"U_ANGLE3", "char">>>>

WordFlags == {"U_ORIGIN1", "U_ORIGIN2", "U_ORIGIN3", "U_ANGLE2", "U_FRAME",
              "U_REMOVE", "U_MOREBITS"}

MoreFlags == {"U_ANGLE1", "U_ANGLE3", "U_MODEL", "U_COLORMAP", "U_SKIN",
              "U_EFFECTS", "U_SOLID"}

AllBits == {"entity"} \cup WordFlags \cup MoreFlags

\* U_MODEL is one of the bits that `bits &= ~511' has just cleared.
ParseDelta(r, word) ==
  LET bits == word \cap WordFlags
      more == "U_MODEL" \in bits
  IN  ReadOptional(ReadIf(r, more, "bits"),
                   IF more THEN bits \cup Value(r, "bits", MoreFlags) ELSE bits,
                   DeltaFields)

\* One round of FlushEntityPacket.  A word that cannot be read is -1, so behind the end
\* of the message the loop goes on for ever.  Out of step, it is followed no further.
FlushEntity(r) ==
  LET word == Value(r, "word", AllBits)
      q == Read(r, "word")
  IN  CASE ~Fits(r, 1) -> <<[q EXCEPT !.stuck = TRUE], FALSE>>
        [] ~q.instep /\ ~q.msg_badread -> <<q, FALSE>>
        [] word = {} -> <<q, FALSE>>
        [] OTHER -> <<ParseDelta(q, word), TRUE>>

Flushed(r) == Repeat(r, FlushEntity)

\* FlushEntityPacket reads words until one is 0.  Out of step, that depends on bytes
\* that were written as something else: it ends somewhere, or never.
FlushEntityPacket(r) ==
  LET q == Flushed(r)
  IN  IF q.instep THEN {q} ELSE {q, [q EXCEPT !.stuck = TRUE]}

\* An entity as protocol.h documents it: the flags of the second byte come "if
\* MOREBITS is set".
Entity(flags) ==
  LET more == flags \cap MoreFlags
      word == {"entity"} \cup (flags \cap WordFlags)
              \cup (IF more = {} THEN {} ELSE {"U_MOREBITS"})
  IN  <<Field("word", word)>>
      \o (IF more = {} THEN << >> ELSE <<Field("bits", more)>>)
      \o WrittenOptional(flags, DeltaFields)

EndOfEntities == <<Field("word", {})>>

=============================================================================
