--------------------------- MODULE ServerMessage ---------------------------
(***************************************************************************)
(* What the client does with the server's messages: ParseServerMessage of  *)
(* main.c, its parsers, and what they leave behind (strings for the        *)
(* server, lines for the application, a file, a delta point).              *)
(*                                                                         *)
(* A message reaches the parser whole and in order when it is reliable     *)
(* (ReliableLink), and cut when it is longer than the buffer it is read    *)
(* into.  One action is one pass of the parser's loop: one command.  What  *)
(* a server may send depends on the topic, so that each question has a     *)
(* server of its own; the parser is the same for all.                      *)
(***************************************************************************)
EXTENDS Payloads

CONSTANTS
  Sounds, Models, Blocks,  \* how many a level has
  MaxLevel,                \* bound on the levels
  BufferSize,              \* sizeof qwc->buffer
  MaxMessages              \* bound on the messages a server sends by itself

ASSUME ServerMessageAssumption ==
  /\ {Sounds, Models, MaxMessages} \subseteq Nat
  /\ {Blocks, MaxLevel, BufferSize} \subseteq Nat \ {0}

VARIABLES
  topic,   \* what the server sends messages about
  client,  \* struct qw_connection, and what has happened to it
  server   \* outside the repository

vars == <<topic, client, server>>

NL == 0

Topics == {"signon", "any", "print", "download", "entities"}

Init ==
  /\ topic \in Topics
  /\ \E save \in (IF topic = "print" THEN BOOLEAN ELSE {TRUE}),
        version \in (IF topic = "any" THEN {26, 28} ELSE {28}) :
       client =
         [message |-> << >>, msg_readcount |-> 0, msg_badread |-> FALSE,
          parsing |-> FALSE, command |-> "none", abort |-> FALSE, quit |-> FALSE,
          protoversion |-> version, servercount |-> 0,
          reliable |-> IF topic = "signon" THEN <<[name |-> "new"]>> ELSE << >>,
          buffer |-> << >>, buffer_position |-> 0,
          save_console_output |-> save, console_output |-> << >>,
          download_file |-> "none", lp |-> -1,
          incoming_sequence |-> 0, validsequence |-> 0, deltapoint |-> -1,
          \* the client's memory of these is the history
          instep |-> TRUE, stuck |-> FALSE, cut |-> "none", fault |-> "none",
          loaded |-> << >>, printed |-> << >>, got |-> << >>, long |-> FALSE,
          name |-> 0, content |-> << >>, finished |-> {}, running |-> FALSE,
          overlap |-> FALSE]
  /\ server = [level |-> IF topic = "signon" THEN 1 ELSE 0, entered |-> FALSE,
               down |-> << >>, sent |-> 0, file |-> 0, block |-> 0,
               entities |-> << >>]

-----------------------------------------------------------------------------
(* Helpers of the parsers, each from a client to a client. *)

NetQW_AppendReliableBuffer(c, s) == [c EXCEPT !.reliable = Append(@, s)]

Request(name, servercount, n) ==
  [name |-> name, servercount |-> servercount, n |-> n]

\* Keeps the first fault.
Faulty(c, fault) == [c EXCEPT !.fault = IF @ = "none" THEN fault ELSE @]

-----------------------------------------------------------------------------
(* Signing on. *)

QW_PROTOEXT_FTEX == 1

ReadProtocol(c) ==
  LET version == Value(c, "long", -1)
      q == [Read(c, "long") EXCEPT !.protoversion = version]
  IN  IF version = QW_PROTOEXT_FTEX THEN <<Read(q, "long"), TRUE>> ELSE <<q, FALSE>>

ReadVersion(c) == Repeat(c, ReadProtocol)

\* A new level: what was loaded before is of no use.
Parse_svc_serverdata(c) ==
  LET q == ReadVersion(c)
      s == [Read(q, "long") EXCEPT !.servercount = Value(q, "long", -1),
                                   !.loaded = << >>]
      rest == <<"string", "byte", "string">> \o [i \in 1 .. 10 |-> "float"]
  IN  NetQW_AppendReliableBuffer(ReadAll(s, rest),
                                 Request("soundlist", s.servercount, 0))

ReadName(c) ==
  LET name == Value(c, "string", << >>)
      q == Read(c, "string")
  IN  IF name = << >> THEN <<q, FALSE>>
      ELSE <<[q EXCEPT !.loaded = Append(@, name)], TRUE>>

ReadNames(c) == Repeat(c, ReadName)

\* Seeded bug: when a list goes on it is asked for from its beginning.
ParseListAgain(c, list, next) ==
  LET names == ReadNames(Read(c, "byte"))
      n == Value(names, "byte", -1)
      q == Read(names, "byte")
  IN  NetQW_AppendReliableBuffer(q, Request(IF n # 0 THEN list ELSE next,
                                            q.servercount, 0))

\* ParseSoundList and ParseModelList: ask for the rest of the list, or, when it is
\* complete, for what comes next.
ParseList(c, list, next) ==
  LET names == ReadNames(Read(c, "byte"))
      n == Value(names, "byte", -1)
      q == Read(names, "byte")
  IN  NetQW_AppendReliableBuffer(q, Request(IF n # 0 THEN list ELSE next,
                                            q.servercount, n))

ParseSoundList(c) == ParseList(c, "soundlist", "modellist")
ParseModelList(c) == ParseList(c, "modellist", "prespawn")

-----------------------------------------------------------------------------
(* Printed text.  A line is given to the application when a text ends in a newline. *)

\* QWC_StringAdd.
QWC_StringAdd(c, string) ==
  IF c.save_console_output
  THEN [c EXCEPT !.console_output = Append(@, [string |-> string, done |-> FALSE])]
  ELSE c

EndLine(c) == [QWC_StringAdd(c, c.buffer) EXCEPT !.buffer = << >>,
                                                 !.buffer_position = 0]

\* snprintf returns the length of the whole text, also when it did not fit.  Behind
\* the end of the buffer the size passed to it is negative, which it takes as a huge
\* one.  For an empty text, s[i - 1] is the byte before readstring_buffer, the last
\* of extratime: on a big-endian machine, any byte.
ParsePrint(c, s) ==
  LET room == BufferSize - c.buffer_position
      fits == IF Len(s) < room THEN Len(s) ELSE IF room > 0 THEN room - 1 ELSE 0
      q == [c EXCEPT !.buffer = @ \o SubSeq(s, 1, fits),
                     !.buffer_position = @ + Len(s),
                     !.printed = @ \o s,
                     !.long = @ \/ fits < Len(s)]
  IN  CASE room < 0 -> {Faulty(c, "overflow")}
        [] room >= 0 /\ s = << >> -> {q, EndLine(q)}
        [] OTHER -> {IF s[Len(s)] = NL THEN EndLine(q) ELSE q}

-----------------------------------------------------------------------------
(* Downloads.  download_file is "none" when it is null, and "closed" when it points *)
(* to a file that is closed.                                                        *)

Close(c) ==
  IF c.download_file = "closed" THEN Faulty(c, "closed twice")
  ELSE [c EXCEPT !.download_file = "none", !.running = FALSE]

\* The stuffed text "download".  The file may not open.
StartDownload(c, name) ==
  LET closed == IF c.download_file # "none" THEN Close(c) ELSE c
  IN  {[NetQW_AppendReliableBuffer(closed, [name |-> "download", file |-> name])
         EXCEPT !.download_file = file, !.name = name, !.content = << >>,
                !.overlap = @ \/ c.running, !.running = TRUE] :
       file \in {"open", "none"}}

\* Seeded bug: every block is written to the beginning of the file.
TakeBlockOver(c, size) ==
  LET skipped == [c EXCEPT !.msg_readcount = @ + size]
  IN  IF c.download_file = "open"
      THEN [skipped EXCEPT !.content =
             SubSeq(c.message, c.msg_readcount + 1, c.msg_readcount + size)]
      ELSE skipped

\* fwrite, and the move behind the block: a size of -1 moves one byte back.
TakeBlock(c, size) ==
  LET skipped == [c EXCEPT !.msg_readcount = @ + size,
                           !.instep = @ /\ (size > 0 /\ Fits(c, 1) => Here(c, "data"))]
  IN  CASE c.download_file = "closed" -> Faulty(skipped, "wrote to a closed file")
        [] c.download_file = "open" ->
             [skipped EXCEPT !.content =
               @ \o SubSeq(c.message, c.msg_readcount + 1, c.msg_readcount + size)]
        [] OTHER -> skipped

\* The file is closed at 100 percent; download_file == NULL does not clear it.
FinishDownload(c) ==
  LET said == NetQW_AppendReliableBuffer(c, [name |-> "say"])
  IN  CASE c.download_file = "none" -> Faulty(said, "closed no file")
        [] c.download_file = "closed" -> Faulty(said, "closed twice")
        [] OTHER -> [said EXCEPT !.download_file = "closed", !.running = FALSE,
                       !.finished = @ \cup {[name |-> c.name, content |-> c.content]}]

AskForMore(c, percent) ==
  LET news == percent % 10 = 0 /\ c.lp # percent
      said == IF news THEN NetQW_AppendReliableBuffer([c EXCEPT !.lp = percent],
                                                      [name |-> "say"])
              ELSE c
  IN  NetQW_AppendReliableBuffer(said, [name |-> "nextdl"])

ParseDownload(c) ==
  LET size == Value(c, "short", -1)
      q == Read(c, "short")
      percent == Value(q, "byte", -1)
      ended == IF size = -1 /\ q.download_file # "none"
               THEN Close(Read(q, "byte")) ELSE Read(q, "byte")
      taken == TakeBlock(ended, size)
  IN  IF percent = 100 THEN FinishDownload(taken) ELSE AskForMore(taken, percent)

-----------------------------------------------------------------------------
(* Entities.  Only full updates are read; there is nothing to compare their entities *)
(* with, so the first one is smaller than oldnum, and all of them are skipped: the   *)
(* first one without its payload, as ParseDelta is not called for it.                *)

NetQW_SetDeltaPoint(c, sequence) == [c EXCEPT !.deltapoint = sequence]

\* Seeded bug: an update that was skipped becomes the delta point.
FlushAndKeep(c) ==
  {NetQW_SetDeltaPoint(q, c.incoming_sequence) : q \in FlushEntityPacket(c)}

Flush(c) == {[q EXCEPT !.validsequence = 0] : q \in FlushEntityPacket(c)}

ParsePacketEntities(c) ==
  LET word == Value(c, "word", AllBits)
      q == Read(c, "word")
      valid == [q EXCEPT !.validsequence = q.incoming_sequence]
  IN  CASE q.msg_badread -> {[valid EXCEPT !.abort = TRUE]}
        [] word = {} -> {NetQW_SetDeltaPoint(valid, valid.validsequence)}
        [] OTHER -> Flush(valid)

-----------------------------------------------------------------------------
(* The loop. *)

Loop ==
  /\ client.parsing /\ ~client.abort /\ ~client.quit
  /\ client.fault = "none"

\* The byte at which the loop stands is the command svc.
Case(svc) ==
  /\ Loop /\ ~client.msg_badread
  /\ Here(client, "svc") /\ Value(client, "svc", "none") = svc

\* What the payload is read from.
Taken == [Read(client, "svc") EXCEPT !.command = Value(client, "svc", "none")]

\* After a command the reader may stand where no field begins: what follows would be
\* read as something it is not, and the behaviour ends.
Then(c) ==
  /\ client' = Once(c, LAMBDA q :
                  CASE q.stuck -> Faulty(q, "stuck")
                    [] ~q.stuck /\ ~q.instep /\ ~q.msg_badread ->
                         Faulty(q, "out of step")
                    [] OTHER -> q)
  /\ UNCHANGED <<topic, server>>

BadRead ==
  /\ Loop /\ client.msg_badread
  /\ client' = [client EXCEPT !.abort = TRUE]
  /\ UNCHANGED <<topic, server>>

EndOfMessage ==
  /\ Loop /\ ~client.msg_badread /\ ~Fits(client, 1)
  /\ client' = [client EXCEPT !.parsing = FALSE]
  /\ UNCHANGED <<topic, server>>

\* A command there is no case for: 0 is svc_bad, and a byte of any value may be one.
NotViable ==
  /\ Loop /\ ~client.msg_badread
  /\ \/ Here(client, "svc")
        /\ Value(client, "svc", "none") \in {"setview", "setpause"}
     \/ Here(client, "byte") /\ Value(client, "byte", -1) = 0
     \/ Here(client, "data")
  /\ client' = [client EXCEPT !.abort = TRUE]
  /\ UNCHANGED <<topic, server>>

\* The byte read as a command was written as something else.
Misread ==
  /\ Loop /\ ~client.msg_badread /\ Fits(client, 1)
  /\ ~Here(client, "svc")
  /\ ~(Here(client, "byte") /\ Value(client, "byte", -1) = 0)
  /\ Then([client EXCEPT !.instep = FALSE])

Parse_fixed ==
  \E svc \in DOMAIN Parsed : Case(svc) /\ Then(ReadAll(Taken, Parsed[svc]))

Parse_print ==
  /\ Case("print")
  /\ LET id == Read(Taken, "byte")
     IN  \E c \in ParsePrint(Read(id, "string"), Value(id, "string", << >>)) : Then(c)

\* The text is carried out although it may have been cut.  Of the commands of the
\* server's console only these three are known.
Parse_stufftext ==
  /\ Case("stufftext")
  /\ LET text == Value(Taken, "string", [verb |-> "none"])
         q == Read(Taken, "string")
     IN  CASE text.verb = "cmd" ->
                Then([NetQW_AppendReliableBuffer(q, text.request) EXCEPT
                        !.loaded = Append(@, <<text.request.name, text.request.n>>)])
           [] text.verb = "skins" ->
                Then(NetQW_AppendReliableBuffer(q, Request("begin", q.servercount, 0)))
           [] text.verb = "download" ->
                \E c \in StartDownload(q, text.file) : Then(c)
           [] OTHER -> Then(q)

Parse_lists ==
  \/ Case("serverdata") /\ Then(Parse_svc_serverdata(Taken))
  \/ Case("soundlist") /\ Then(ParseSoundList(Taken))
  \/ Case("modellist") /\ Then(ParseModelList(Taken))

Parse_world ==
  \/ Case("playerinfo") /\ Then(ParsePlayerinfo(Taken, client.protoversion))
  \/ Case("sound") /\ Then(ParseSoundPacket(Taken))
  \/ Case("packetentities") /\ (\E c \in ParsePacketEntities(Taken) : Then(c))
  \/ Case("temp_entity")
     /\ Then(IF KnownTempEntity(Taken) THEN ParseTempEntity(Taken)
             ELSE [ParseTempEntity(Taken) EXCEPT !.abort = TRUE])

Parse_download == Case("download") /\ Then(ParseDownload(Taken))

ParseServerMessage ==
  \/ BadRead \/ EndOfMessage \/ NotViable \/ Misread
  \/ Parse_fixed \/ Parse_print \/ Parse_stufftext \/ Parse_lists \/ Parse_world
  \/ Parse_download

\* The next message, from the queue of received packets.
Get_Message ==
  /\ ~client.parsing /\ ~client.abort /\ ~client.quit
  /\ client.fault = "none" /\ server.down # << >>
  /\ LET packet == Head(server.down)
     IN  client' = [MSG_BeginReading(client, packet.message) EXCEPT
                      !.parsing = TRUE, !.cut = packet.cut, !.command = "none",
                      !.incoming_sequence = @ + 1]
  /\ server' = [server EXCEPT !.down = Tail(@)]
  /\ UNCHANGED topic

-----------------------------------------------------------------------------
(* The application.  It reads lines while the client's thread adds them: a line is *)
(* linked to the list in one assignment, when it is complete.                      *)

\* Seeded bug: the last line is handed out first.
QWC_GetConsoleOutputLast ==
  LET lines == client.console_output
      new == {i \in DOMAIN lines : ~lines[i].done}
      s == CHOOSE i \in new : \A j \in new : i >= j
  IN  /\ client.fault = "none" /\ new # {}
      /\ client' = [client EXCEPT !.console_output[s].done = TRUE,
                                  !.got = @ \o lines[s].string]
      /\ UNCHANGED <<topic, server>>

\* The first line that was not handed out.  QWC_Quit frees such lines and leaves them
\* in the list.
QWC_GetConsoleOutput ==
  LET lines == client.console_output
      new == {i \in DOMAIN lines : ~lines[i].done}
      s == CHOOSE i \in new : \A j \in new : i <= j
  IN  /\ client.fault = "none" /\ new # {}
      /\ client' = [(IF client.quit THEN Faulty(client, "freed line") ELSE client)
                      EXCEPT !.console_output[s].done = TRUE,
                             !.got = @ \o lines[s].string]
      /\ UNCHANGED <<topic, server>>

\* QWC_Destroy, for what it does to the lines.
QWC_Quit ==
  /\ topic = "print" /\ client.fault = "none" /\ ~client.quit
  /\ client' = [client EXCEPT !.quit = TRUE]
  /\ UNCHANGED <<topic, server>>

-----------------------------------------------------------------------------
(* The server. *)

Svc(name) == Field("svc", name)
Text(t) == IF t = << >> THEN Field("end", 0) ELSE Field("string", t)
Stuff(text) == <<Svc("stufftext"), Field("string", text)>>

ServerData(level, extended) ==
  <<Svc("serverdata")>>
  \o (IF extended THEN <<Field("long", QW_PROTOEXT_FTEX), Field("long", 0)>> ELSE << >>)
  \o <<Field("long", 28), Field("long", level), Field("string", 0),
       Field("byte", 1), Field("string", 0)>>
  \o [i \in 1 .. 10 |-> Field("float", 0)]

\* Two names at a time.
ListChunk(list, size, n) ==
  LET last == IF n + 2 < size THEN n + 2 ELSE size
  IN  <<Svc(list), Field("byte", n)>>
      \o [i \in 1 .. last - n |-> Text(<<list, n + i>>)]
      \o <<Text(<< >>), Field("byte", IF last < size THEN last ELSE 0)>>

\* A request for another level than the server's is answered with the server's.
SignOnReply(s, q) ==
  CASE q.name = "new" -> ServerData(s.level, FALSE)
    [] q.name # "new" /\ q.servercount # s.level -> ServerData(s.level, TRUE)
    [] q.name = "soundlist" /\ q.servercount = s.level ->
         ListChunk("soundlist", Sounds, q.n)
    [] q.name = "modellist" /\ q.servercount = s.level ->
         ListChunk("modellist", Models, q.n)
    [] q.name = "prespawn" /\ q.servercount = s.level ->
         Stuff([verb |-> "cmd",
                request |-> IF q.n + 1 < Blocks
                            THEN Request("prespawn", s.level, q.n + 1)
                            ELSE Request("spawn", s.level, 0)])
    [] q.name = "spawn" /\ q.servercount = s.level ->
         <<Svc("updatestat"), Field("byte", 0), Field("byte", 0)>>
         \o Stuff([verb |-> "skins"])
    [] OTHER -> << >>

\* The next block of the file, or that there is no such file, with some percentage.
DownloadReply(s, percent) ==
  IF s.block <= Blocks
  THEN <<Svc("download"), Field("short", 1),
         Field("byte", (100 * s.block) \div Blocks),
         Field("data", <<s.file, s.block>>)>>
  ELSE <<Svc("download"), Field("short", -1), Field("byte", percent)>>

Packet(fields) == [message |-> Written(fields), cut |-> "none"]

Answered(s, fields) ==
  IF fields = << >> THEN s ELSE [s EXCEPT !.down = Append(@, Packet(fields))]

\* The server carries out the client's next string.
Answer ==
  /\ client.fault = "none" /\ client.reliable # << >>
  /\ topic \in {"signon", "download"}
  /\ client' = [client EXCEPT !.reliable = Tail(@)]
  /\ LET q == Head(client.reliable)
         found == [server EXCEPT !.file = q.file, !.block = 1]
         missing == [server EXCEPT !.file = q.file, !.block = Blocks + 1]
         more == [server EXCEPT !.block = @ + 1]
     IN  \/ /\ topic = "signon"
            /\ server' = [Answered(server, SignOnReply(server, q)) EXCEPT
                            !.entered = @ \/ (q.name = "begin"
                                              /\ q.servercount = server.level)]
         \/ /\ topic = "download" /\ q.name = "download"
            /\ \E s \in {found, missing}, percent \in {0, 50} :
                 server' = Answered(s, DownloadReply(s, percent))
         \/ /\ topic = "download" /\ q.name = "nextdl" /\ server.block \in 1 .. Blocks - 1
            /\ server' = Answered(more, DownloadReply(more, 0))
         \/ /\ topic = "download" /\ q.name # "download"
            /\ ~(q.name = "nextdl" /\ server.block \in 1 .. Blocks - 1)
            /\ UNCHANGED server
  /\ UNCHANGED topic

\* The level changes before the client has entered it.  The text that announces it
\* means nothing to this client.
ChangeLevel ==
  /\ topic = "signon" /\ client.fault = "none"
  /\ server.level < MaxLevel /\ ~server.entered
  /\ server' = [Answered(server, Stuff([verb |-> "reconnect"])) EXCEPT
                  !.level = @ + 1]
  /\ UNCHANGED <<topic, client>>

Few(S) == {T \in SUBSET S : Cardinality(T) <= 1} \cup {S}

\* One message for each way to write a command.
Catalogue ==
  {<<Svc(svc)>> \o Unnamed(Documented[svc]) : svc \in DOMAIN Documented}
  \cup {<<Svc("playerinfo")>> \o PlayerInfo(flags, bits, client.protoversion) :
        flags \in Few(PlayerFlags), bits \in Few(FlagsOf(UsercmdFields(28)))}
  \cup {<<Svc("sound")>> \o SoundPacket(flags) : flags \in SUBSET FlagsOf(SoundFields)}
  \cup {<<Svc("temp_entity")>> \o TempEntity(te) : te \in TempEntities}
  \cup {<<Svc("print"), Field("byte", 0), Text(<<1, NL>>)>>}
  \cup {Stuff([verb |-> verb, request |-> Request("spawn", 1, 0), file |-> 1]) :
        verb \in {"cmd", "skins", "download", "reconnect"}}
  \cup {ServerData(1, extended) : extended \in BOOLEAN}
  \cup {ListChunk(list, 3, n) : list \in {"soundlist", "modellist"}, n \in {0, 2}}
  \cup {<<Svc("download"), Field("short", 1), Field("byte", 50), Field("data", 0)>>}
  \cup {<<Svc("download"), Field("short", -1), Field("byte", percent)>> :
        percent \in {0, 50}}
  \cup {<<Svc("packetentities")>> \o Entity(flags) \o EndOfEntities :
        flags \in Few(WordFlags \cup MoreFlags)}
  \cup {<<Svc("packetentities")>> \o Entity({}) \o Entity(flags) \o EndOfEntities :
        flags \in Few(WordFlags \cup MoreFlags)}
  \cup {<<Svc("packetentities")>> \o EndOfEntities}
  \cup {<<Svc("deltapacketentities"), Field("byte", 0)>> \o EndOfEntities}

\* A command and a svc_nop, up to any byte.
AnyPackets ==
  UNION {LET fields == Written(command \o <<Svc("nop")>>)
             whole == Len(fields) - 1
         IN  {[message |-> SubSeq(fields, 1, n),
               cut |-> IF n < whole THEN command[1][2] ELSE "none"] :
              n \in 1 .. Len(fields)} :
         command \in Catalogue}

PrintTexts(n) == {<< >>, <<n>>, <<NL>>, <<n, NL>>, <<n, NL, n>>}

\* Full updates; a delta only from an update the client has asked deltas from.  Only
\* an entity without a payload is skipped in step.
EntityPackets ==
  {<<Svc("packetentities")>> \o EndOfEntities,
   <<Svc("packetentities")>> \o Entity({}) \o EndOfEntities,
   <<Svc("packetentities")>> \o Entity({}) \o Entity({"U_FRAME"}) \o EndOfEntities,
   <<Svc("packetentities")>> \o Entity({"U_FRAME"}) \o EndOfEntities}
  \cup (IF client.deltapoint = -1 THEN {}
        ELSE {<<Svc("deltapacketentities"), Field("byte", 0)>> \o EndOfEntities})

Unasked ==
  CASE topic = "any" -> IF server.sent = 0 THEN AnyPackets ELSE {}
    [] topic = "print" ->
         {Packet(<<Svc("print"), Field("byte", 0), Text(t)>>) :
          t \in PrintTexts(server.sent + 1)}
    [] topic = "download" ->
         {Packet(Stuff([verb |-> "download", file |-> server.sent + 1]))}
    [] topic = "entities" -> {Packet(fields) : fields \in EntityPackets}
    [] OTHER -> {}

\* How many entities an update has.
EntitiesIn(message) ==
  Cardinality({i \in DOMAIN message :
                 message[i][1] = "word" /\ "entity" \in message[i][2]})

\* The server sends something by itself.
Send ==
  /\ client.fault = "none" /\ server.sent < MaxMessages
  /\ topic = "download" \/ (server.down = << >> /\ ~client.parsing)
  /\ ~client.abort /\ ~client.quit
  /\ \E packet \in Unasked :
       server' = [server EXCEPT !.down = Append(@, packet), !.sent = @ + 1,
                                !.entities = Append(@, EntitiesIn(packet.message))]
  /\ UNCHANGED <<topic, client>>

-----------------------------------------------------------------------------
Next ==
  \/ Get_Message \/ ParseServerMessage
  \/ QWC_GetConsoleOutput \/ QWC_Quit
  \/ Answer \/ ChangeLevel \/ Send

\* The client's thread takes messages at its frame rate and the server answers what
\* it is asked.
Fairness ==
  /\ WF_vars(Get_Message) /\ WF_vars(ParseServerMessage) /\ WF_vars(Answer)

Spec == Init /\ [][Next]_vars /\ Fairness

-----------------------------------------------------------------------------
(* Signing on.  `loaded' and the requests implement the abstract specification: each *)
(* part of the level that is entered is loaded once and in order, although levels    *)
(* change on the way, and in the end a level is entered.                             *)

Parts ==
  [i \in 1 .. Sounds |-> <<"soundlist", i>>]
  \o [i \in 1 .. Models |-> <<"modellist", i>>]
  \o [i \in 1 .. Blocks - 1 |-> <<"prespawn", i>>]
  \o <<<<"spawn", 0>>>>

SignOn ==
  INSTANCE SignOn WITH
    level <- server.level,
    joined <- IF topic = "signon" THEN client.servercount ELSE 0,
    loaded <- IF topic = "signon" THEN client.loaded ELSE << >>,
    entered <- server.entered

\* The parser and its requests implement the sign-on (Parse_svc_serverdata,
\* ParseSoundList, ParseModelList and the stuffed texts).
SignOnSpec == SignOn!Spec

\* The commands whose payload is not read.
NotRead ==
  Undocumented \cup {"time", "intermission", "finale", "nails", "setview", "setpause",
                     "deltapacketentities"}

\* An update is read as something else when its first entity, for which ParseDelta is
\* not called, has a payload, or when a later one has a second byte of flags.
Misreadable(message) ==
  \E i \in DOMAIN message :
    /\ message[i][1] = "word"
    /\ message[i][2] \cap (IF i = 2 THEN WordFlags \ {"U_REMOVE"} ELSE {"U_MOREBITS"}) # {}

\* The parser never loses its place in a message, except behind a command of NotRead,
\* a download of size -1, by which ParseDownload goes back a byte, and in an update of
\* Misreadable; so what it forwards, prints, writes and remembers is what was sent.
OnlyMisread ==
  client.fault = "out of step" =>
    \/ client.command \in NotRead
    \/ client.command = "download" /\ client.message[2] = Field("short", -1)
    \/ client.command = "packetentities" /\ Misreadable(client.message)

\* A message that ends inside a command is noticed, except in a float, a block of a
\* file and what is not read: msg_badread leads to abort, although single parsers
\* go on with what a failed read returns.  FlushEntityPacket goes on for ever only in
\* an update that is cut or of Misreadable.
CutIsNoticed ==
  /\ client.cut # "none" /\ ~client.parsing =>
       client.cut \in NotRead \cup {"updateentertime", "serverdata", "download"}
  /\ client.fault = "stuck" =>
       /\ client.command = "packetentities"
       /\ client.cut = "packetentities" \/ Misreadable(client.message)

\* The text of the lines that were not handed out.
Left(lines) ==
  FlattenSeq([i \in DOMAIN lines |-> IF lines[i].done THEN << >> ELSE lines[i].string])

\* What is printed reaches the application once and in order, in pieces that end
\* where a text ended in a newline, as long as no line was longer than the buffer;
\* only behind such a line something else is overwritten (ParsePrint, QWC_StringAdd,
\* QWC_GetConsoleOutput), and only a line left at QWC_Quit is freed before it is
\* handed out.
LinesArrive ==
  /\ client.save_console_output /\ ~client.long =>
       client.got \o Left(client.console_output) \o client.buffer = client.printed
  /\ client.fault = "overflow" => client.long
  /\ client.fault = "freed line" => client.quit

\* A finished file has the blocks of its download in their order, unless another was
\* begun while one was running; and a file that is closed is used only when a
\* download had been finished before.
FileIsWhole ==
  /\ ~client.overlap =>
       \A f \in client.finished :
         f.content = [i \in 1 .. Blocks |-> Field("data", <<f.name, i>>)]
  /\ client.fault \in {"closed twice", "wrote to a closed file"} =>
       client.finished # {}

\* The client keeps no entities, so the update it asks deltas from must have had none:
\* the server would leave out what it believes the client to have.
DeltaPointIsKept ==
  client.deltapoint # -1 => server.entities[client.deltapoint] = 0

=============================================================================
