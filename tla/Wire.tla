-------------------------------- MODULE Wire --------------------------------
(***************************************************************************)
(* One direction of a TCP connection between client and server: a program  *)
(* writes messages field by field into the buffer of a DatagramWriter, the *)
(* bytes travel in order, and the other program reads them field by field  *)
(* with a DatagramReader, each field telling it what to read next. Nothing *)
(* in the stream marks where a message, a send or a receive ends.          *)
(*                                                                         *)
(* A byte is a number below ByteMod; a field is a number written with as   *)
(* many bytes as digits, the letters of a name too.                        *)
(***************************************************************************)
EXTENDS Integers, SequencesExt

CONSTANTS ByteMod,        \* 256 in the code
          DatagramSize,   \* DATAGRAM_SIZE: 65507 in the code
          Messages,       \* messages of the server to its client, HELLO not among them
          Hello,          \* its HELLO
          MaxFields       \* bound: the server begins no message once it wrote so many fields

ASSUME WireAssumption ==
  /\ ByteMod \in Nat /\ ByteMod > 4
  /\ DatagramSize \in Nat \ {0}
  /\ MaxFields \in Nat

VARIABLES
  reader,       \* whose program reads: "client" or "server"
  unwritten,    \* the fields the writer has still to write of its message
  open,         \* and whether it has one
  data,         \* the bytes in its buffer
  stream,       \* the bytes on their way
  buf,          \* the bytes in the reader's buffer, not yet taken
  field,        \* the bytes of the field it is reading
  expected,     \* what it reads from this field on
  written,      \* all fields written so far
  received,     \* all fields read so far
  thrown        \* the reader gave up over what it read

writerVars == <<unwritten, open, data, written>>
readerVars == <<buf, field, expected, received, thrown>>
vars == <<reader, writerVars, stream, readerVars>>

-----------------------------------------------------------------------------
(* Fields *)

Field(size, value) == [size |-> size, value |-> value]
U8(v)  == Field(1, v)
U16(v) == Field(2, v)
U32(v) == Field(4, v)

\* A value without its last n bytes.
Shifted(f) ==
  LET shifted[n \in 0 .. f.size] ==
        IF n = 0 THEN f.value ELSE shifted[n - 1] \div ByteMod
  IN shifted

\* The field has room for its value.
Fits(f) == Shifted(f)[f.size] = 0

\* htons and htonl: the first byte counts most.
Encode(f) == [i \in 1 .. f.size |-> Shifted(f)[f.size - i] % ByteMod]

Decode(bytes) == FoldLeft(LAMBDA v, b : v * ByteMod + b, 0, bytes)

Name(n) == <<U8(n.len), Field(n.len, n.letters)>>
Position(p) == <<U16(p[1]), U16(p[2])>>
Player(p) == Name(p.name) \o Name(p.address)

\* A container: its size and the fields of its elements.
Listed(items) == <<U32(Len(items))>> \o FlattenSeq(items)

-----------------------------------------------------------------------------
(* The server's messages, as send_to_client writes them *)

SC_HELLO == 0
SC_ACCEPTED_PLAYER == 1
SC_GAME_STARTED == 2
SC_TURN == 3
SC_GAME_ENDED == 4

BOMB_PLACED == 0
BOMB_EXPLODED == 1
PLAYER_MOVED == 2
BLOCK_PLACED == 3

send_hello(m) ==
  <<U8(SC_HELLO)>> \o Name(m.server_name) \o
  <<U8(m.players_count), U16(m.size_x), U16(m.size_y), U16(m.game_length),
    U16(m.explosion_radius), U16(m.bomb_timer)>>

send_accepted_player(m) ==
  <<U8(SC_ACCEPTED_PLAYER), U8(m.player.id)>> \o Player(m.player.player)

send_game_started(m) ==
  <<U8(SC_GAME_STARTED)>> \o
  Listed([i \in DOMAIN m.players |->
            <<U8(m.players[i].id)>> \o Player(m.players[i].player)])

EventFields(e) ==
  CASE e.event = BOMB_PLACED ->
         <<U8(BOMB_PLACED), U32(e.bomb_id)>> \o Position(e.position)
    [] e.event = BOMB_EXPLODED ->
         <<U8(BOMB_EXPLODED), U32(e.bomb_id)>>
           \o Listed([i \in DOMAIN e.robots_destroyed |-> <<U8(e.robots_destroyed[i])>>])
           \o Listed([i \in DOMAIN e.blocks_destroyed |-> Position(e.blocks_destroyed[i])])
    [] e.event = PLAYER_MOVED ->
         <<U8(PLAYER_MOVED), U8(e.player_id)>> \o Position(e.position)
    [] e.event = BLOCK_PLACED ->
         <<U8(BLOCK_PLACED)>> \o Position(e.position)

send_turn(m) ==
  <<U8(SC_TURN), U16(m.turn)>> \o
  Listed([i \in DOMAIN m.events |-> EventFields(m.events[i])])

send_game_ended(m) ==
  <<U8(SC_GAME_ENDED)>> \o
  Listed([i \in DOMAIN m.scores |-> <<U8(m.scores[i].id), U32(m.scores[i].score)>>])

Layout(m) ==
  CASE m.id = SC_HELLO           -> send_hello(m)
    [] m.id = SC_ACCEPTED_PLAYER -> send_accepted_player(m)
    [] m.id = SC_GAME_STARTED    -> send_game_started(m)
    [] m.id = SC_TURN            -> send_turn(m)
    [] m.id = SC_GAME_ENDED      -> send_game_ended(m)

NameType == [len : Nat, letters : Nat]
AddressedPlayer == [id : Nat, player : [name : NameType, address : NameType]]
PositionType == Nat \X Nat

EventType ==
  [event : {BOMB_PLACED}, bomb_id : Nat, position : PositionType] \cup
  [event : {BOMB_EXPLODED}, bomb_id : Nat,
   robots_destroyed : Seq(Nat), blocks_destroyed : Seq(PositionType)] \cup
  [event : {PLAYER_MOVED}, player_id : Nat, position : PositionType] \cup
  [event : {BLOCK_PLACED}, position : PositionType]

HelloType ==
  [id : {SC_HELLO}, server_name : NameType, players_count : Nat, size_x : Nat,
   size_y : Nat, game_length : Nat, explosion_radius : Nat, bomb_timer : Nat]

MessageType ==
  [id : {SC_ACCEPTED_PLAYER}, player : AddressedPlayer] \cup
  [id : {SC_GAME_STARTED}, players : Seq(AddressedPlayer)] \cup
  [id : {SC_TURN}, turn : Nat, events : Seq(EventType)] \cup
  [id : {SC_GAME_ENDED}, scores : Seq([id : Nat, score : Nat])]

\* The numbers are those their types can hold; names are no longer than their
\* length byte can say.
ASSUME MessageAssumption ==
  /\ Hello \in HelloType /\ Messages \subseteq MessageType
  /\ \A m \in Messages \cup {Hello} : \A i \in DOMAIN Layout(m) : Fits(Layout(m)[i])

-----------------------------------------------------------------------------
(* What is read: each element has a size and says what its value leads to *)

Read(size, as) == [size |-> size, as |-> as]
Number(size) == Read(size, "number")
NameRead == <<Read(1, "name")>>
PositionRead == <<Number(2), Number(2)>>
PlayerRead == <<Number(1)>> \o NameRead \o NameRead

Times(n, reads) == FlattenSeq([i \in 1 .. n |-> reads])

\* handle_hello does not look at the message id.
HelloRead ==
  <<Number(1)>> \o NameRead \o <<Number(1)>> \o Times(5, <<Number(2)>>)

\* The loops of from_server_to_gui and of receive_from_client.
LoopRead == <<Read(1, IF reader = "client" THEN "message" ELSE "command")>>

\* from_server_to_gui, when the message fits the client's state.
MessageRead(id) ==
  CASE id = SC_ACCEPTED_PLAYER -> PlayerRead
    [] id = SC_GAME_STARTED    -> <<Read(4, "players")>>
    [] id = SC_TURN            -> <<Number(2), Read(4, "events")>>
    [] id = SC_GAME_ENDED      -> <<Read(4, "scores")>>
    [] OTHER                   -> <<>>

\* GameHandler::handle_turn
EventRead(id) ==
  CASE id = BOMB_PLACED   -> <<Number(4)>> \o PositionRead
    [] id = BOMB_EXPLODED -> <<Number(4), Read(4, "robots"), Read(4, "blocks")>>
    [] id = PLAYER_MOVED  -> <<Number(1)>> \o PositionRead
    [] id = BLOCK_PLACED  -> PositionRead
    [] OTHER              -> <<>>

\* Messages of a client to the server.
CS_JOIN == 0
CS_PLACE_BOMB == 1
CS_PLACE_BLOCK == 2
CS_MOVE == 3
MAX_DIRECTION == 3

\* receive_from_client
CommandRead(id) ==
  CASE id = CS_JOIN -> NameRead
    [] id = CS_MOVE -> <<Read(1, "direction")>>
    [] OTHER        -> <<>>

Follow(as, value) ==
  CASE as = "message"   -> MessageRead(value)
    [] as = "command"   -> CommandRead(value)
    [] as = "name"      -> <<Read(value, "letters")>>
    [] as = "players"   -> Times(value, PlayerRead)
    [] as = "events"    -> Times(value, <<Read(1, "event")>>)
    [] as = "event"     -> EventRead(value)
    [] as = "robots"    -> Times(value, <<Number(1)>>)
    [] as = "blocks"    -> Times(value, PositionRead)
    [] as = "scores"    -> Times(value, <<Number(1), Number(4)>>)
    [] OTHER            -> <<>>

\* Unknown ids and directions: the client exits, the server's thread throws.
Rejected(as, value) ==
  \/ as = "message" /\ value \notin SC_ACCEPTED_PLAYER .. SC_GAME_ENDED
  \/ as = "event" /\ value \notin BOMB_PLACED .. BLOCK_PLACED
  \/ as = "command" /\ value \notin CS_JOIN .. CS_MOVE
  \/ as = "direction" /\ value > MAX_DIRECTION

-----------------------------------------------------------------------------
(* DatagramWriter *)

\* dw.clear(), and a message to write.
Begin(fields) ==
  /\ ~open
  /\ open' = TRUE
  /\ unwritten' = fields
  /\ data' = <<>>
  /\ UNCHANGED <<written, stream, reader, readerVars>>

\* prepare_buf sends what there is when the next field has no room.
prepare_buf(bytes) ==
  IF Len(data) + bytes > DatagramSize
  THEN [sent |-> data, kept |-> <<>>] ELSE [sent |-> <<>>, kept |-> data]

write ==
  /\ open /\ unwritten # <<>>
  /\ LET f == Head(unwritten)
         b == prepare_buf(f.size)
     IN /\ data' = b.kept \o Encode(f)
        /\ stream' = stream \o b.sent
        /\ written' = Append(written, f)
  /\ unwritten' = Tail(unwritten)
  /\ UNCHANGED <<open, reader, readerVars>>

\* Slip: what was begun after a full buffer is not sent.
send_full ==
  /\ open /\ unwritten = <<>>
  /\ stream' = IF Len(data) = DatagramSize THEN stream \o data ELSE stream
  /\ open' = FALSE
  /\ UNCHANGED <<unwritten, data, written, reader, readerVars>>

send ==
  /\ open /\ unwritten = <<>>
  /\ stream' = stream \o data
  /\ open' = FALSE
  /\ UNCHANGED <<unwritten, data, written, reader, readerVars>>

-----------------------------------------------------------------------------
(* DatagramReader *)

\* read_some, called when the buffer is used up in the middle of a field or
\* before one: any part of what has arrived.
read_some ==
  /\ ~thrown /\ buf = <<>> /\ stream # <<>>
  /\ \E n \in 1 .. Len(stream) :
       /\ n <= DatagramSize
       /\ buf' = SubSeq(stream, 1, n)
       /\ stream' = SubSeq(stream, n + 1, Len(stream))
  /\ UNCHANGED <<reader, writerVars, field, expected, received, thrown>>

Complete == Len(field) = Head(expected).size

\* Slip: what is left in the buffer is dropped for the next part.
prepare_field_fresh ==
  /\ ~thrown /\ ~Complete /\ buf # <<>>
  /\ LET lacking == Head(expected).size - Len(field)
     IN field' = field \o SubSeq(buf, 1, IF lacking < Len(buf) THEN lacking ELSE Len(buf))
  /\ buf' = <<>>
  /\ UNCHANGED <<reader, writerVars, stream, expected, received, thrown>>

\* prepare_buf takes the bytes a field still lacks, as far as there are some.
prepare_field ==
  /\ ~thrown /\ ~Complete /\ buf # <<>>
  /\ LET lacking == Head(expected).size - Len(field)
         n == IF lacking < Len(buf) THEN lacking ELSE Len(buf)
     IN /\ field' = field \o SubSeq(buf, 1, n)
        /\ buf' = SubSeq(buf, n + 1, Len(buf))
  /\ UNCHANGED <<reader, writerVars, stream, expected, received, thrown>>

\* A field is complete: its value says what is read next.
read ==
  /\ ~thrown /\ Complete
  /\ LET value == Decode(field)
         as    == Head(expected).as
         rest  == Follow(as, value) \o Tail(expected)
     IN /\ received' = Append(received, Field(Len(field), value))
        /\ thrown' = Rejected(as, value)
        /\ expected' = IF rest = <<>> THEN LoopRead ELSE rest
  /\ field' = <<>>
  /\ UNCHANGED <<reader, writerVars, stream, buf>>
=============================================================================
