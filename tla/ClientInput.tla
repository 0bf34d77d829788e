----------------------------- MODULE ClientInput -----------------------------
(***************************************************************************)
(* Both directions of a connection, one at a time: the messages of the     *)
(* server's sender for its client, and what the client's gui thread makes  *)
(* of the datagrams of a gui for the receiver of the server. The state of  *)
(* the client, which decides what a datagram means, is left open.          *)
(***************************************************************************)
EXTENDS Wire

CONSTANTS GuiBytes,      \* the bytes in a gui's datagrams
          PlayerNames,   \* --player-name: [len, letters]
          MaxCommands    \* bound: commands a client sends

ASSUME ClientInputAssumption ==
  /\ GuiBytes \subseteq 0 .. ByteMod - 1
  /\ ByteMod % 2 = 0
  /\ MaxCommands \in Nat
  /\ PlayerNames \subseteq NameType
  /\ \A name \in PlayerNames : name.len < ByteMod /\ Fits(Field(name.len, name.letters))

VARIABLES
  asked,    \* the commands the client sent
  pushed    \* those the server's receiver pushed for the main loop

inputVars == <<vars, asked, pushed>>

-----------------------------------------------------------------------------
(* From the gui to the server *)

GC_PLACE_BOMB == 0
GC_PLACE_BLOCK == 1
GC_MOVE == 2

Datagrams == UNION {[1 .. n -> GuiBytes] : n \in 0 .. 3}

\* gui_buf.buf is an array of char, which is signed where the programs run.
SignedByte(b) == IF b < ByteMod \div 2 THEN b ELSE b - ByteMod

\* Slip: the length of a MOVE is not checked.
validate_gui_message_longer(d) ==
  \/ Len(d) = 1 /\ d[1] \in {GC_PLACE_BOMB, GC_PLACE_BLOCK}
  \/ Len(d) >= 2 /\ d[1] = GC_MOVE /\ SignedByte(d[2]) <= MAX_DIRECTION

validate_gui_message(d) ==
  \/ Len(d) = 1 /\ d[1] \in {GC_PLACE_BOMB, GC_PLACE_BLOCK}
  \/ Len(d) = 2 /\ d[1] = GC_MOVE /\ SignedByte(d[2]) <= MAX_DIRECTION

\* What the user wants with a valid datagram.
Wish(d) ==
  CASE d[1] = GC_PLACE_BOMB  -> <<"place bomb">>
    [] d[1] = GC_PLACE_BLOCK -> <<"place block">>
    [] d[1] = GC_MOVE        -> <<"move", d[2]>>

\* The length of a string is written as a byte, its letters follow.
send_join(name) ==
  /\ Begin(<<U8(CS_JOIN), U8(name.len % ByteMod), Field(name.len, name.letters)>>)
  /\ asked' = Append(asked, <<"join", name.letters>>)
  /\ UNCHANGED pushed

\* Slip: the id is forwarded as it is.
forward_unchanged(d) ==
  /\ stream' = stream \o d
  /\ written' = written \o [i \in DOMAIN d |-> U8(d[i])]
  /\ asked' = Append(asked, Wish(d))
  /\ UNCHANGED <<reader, unwritten, open, data, readerVars, pushed>>

\* The datagram itself is sent, with the id of a message to the server.
forward(d) ==
  /\ LET bytes == [d EXCEPT ![1] = (@ + 1) % ByteMod]
     IN /\ stream' = stream \o bytes
        /\ written' = written \o [i \in DOMAIN bytes |-> U8(bytes[i])]
  /\ asked' = Append(asked, Wish(d))
  /\ UNCHANGED <<reader, unwritten, open, data, readerVars, pushed>>

from_gui_to_server ==
  /\ reader = "server" /\ ~open /\ Len(asked) < MaxCommands
  /\ \E d \in Datagrams :
       /\ validate_gui_message(d)
       /\ \/ \E name \in PlayerNames : send_join(name)     \* IN_LOBBY
          \/ forward(d)                                    \* IN_GAME

\* receive_from_client pushes a command when it has read the last field of it.
Pushed(as, value) ==
  CASE as = "command" /\ value = CS_PLACE_BOMB  -> <<<<"place bomb">>>>
    [] as = "command" /\ value = CS_PLACE_BLOCK -> <<<<"place block">>>>
    [] as = "direction"                         -> <<<<"move", value>>>>
    [] as = "letters"                           -> <<<<"join", value>>>>
    [] OTHER                                    -> <<>>

receive_from_client ==
  /\ reader = "server"
  /\ read
  /\ pushed' = IF thrown' THEN pushed
               ELSE pushed \o Pushed(Head(expected).as, Decode(field))
  /\ UNCHANGED asked

-----------------------------------------------------------------------------
(* From the server to the client *)

send_to_client ==
  /\ reader = "client"
  /\ Len(written) < MaxFields
  /\ \E m \in IF written = <<>> THEN {Hello} ELSE Messages : Begin(Layout(m))
  /\ UNCHANGED <<asked, pushed>>

from_server_to_gui == reader = "client" /\ read /\ UNCHANGED <<asked, pushed>>

-----------------------------------------------------------------------------
Init ==
  /\ reader \in {"client", "server"}
  /\ unwritten = <<>> /\ open = FALSE /\ data = <<>>
  /\ stream = <<>>
  /\ buf = <<>> /\ field = <<>>
  /\ expected = IF reader = "client" THEN HelloRead ELSE LoopRead
  /\ written = <<>> /\ received = <<>>
  /\ thrown = FALSE
  /\ asked = <<>> /\ pushed = <<>>

Transfer ==
  /\ write \/ send \/ read_some \/ prepare_field
  /\ UNCHANGED <<asked, pushed>>

Receive == receive_from_client \/ from_server_to_gui

Next ==
  \/ from_gui_to_server \/ send_to_client
  \/ Transfer
  \/ Receive

Spec == Init /\ [][Next]_inputVars

\* The two programs write what they have begun and read what arrives; nobody
\* has to begin a message.
Fairness == WF_inputVars(Transfer \/ Receive)

FairSpec == Spec /\ Fairness

-----------------------------------------------------------------------------
(* Properties *)

\* The fields read are the fields written, in number, size and value, although
\* only their values tell what follows, buffers are sent when they are full and
\* the bytes arrive in parts of any size.
ReadAsWritten == IsPrefix(received, written)

\* The server's main loop gets the commands the gui meant, in order.
CommandsArrive == IsPrefix(pushed, asked)

\* A client never gives up over what its server sends, and the server only over
\* one thing a client sends: a direction that is negative as a char.
OnlyNegativeMovesThrow ==
  thrown =>
    /\ reader = "server"
    /\ SignedByte(received[Len(received)].value) < 0
    /\ asked[Len(pushed) + 1] = <<"move", received[Len(received)].value>>

\* Whatever is begun is read to its last byte; no part stays in a buffer.
AllRead == <>[](thrown \/ (~open /\ received = written))

\* A gui message that was found valid is a valid message to the server when its
\* id is increased by 1, as a comment in from_gui_to_server says.
ValidIsAccepted == ~thrown
=============================================================================
