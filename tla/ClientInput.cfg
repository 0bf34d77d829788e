\* HELLO and one or two messages, or three commands, with a buffer shorter than a message.
CONSTANTS
  ByteMod = 16
  DatagramSize = 6
  Messages <- MCMessages
  Hello <- MCHello
  MaxFields = 13
  MaxCommands = 3
  GuiBytes = {0, 1, 2, 4, 15}
  PlayerNames <- MCNames
SPECIFICATION FairSpec
INVARIANTS ReadAsWritten CommandsArrive OnlyNegativeMovesThrow
PROPERTY AllRead
\* The server gives up a connection, and messages run out.
CHECK_DEADLOCK FALSE
