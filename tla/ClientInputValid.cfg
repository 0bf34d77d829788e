\* A direction whose byte is negative as a char.
CONSTANTS
  ByteMod = 16
  DatagramSize = 6
  Messages <- MCMessages
  Hello <- MCHello
  MaxFields = 13
  MaxCommands = 3
  GuiBytes = {0, 1, 2, 4, 15}
  PlayerNames <- MCNames
SPECIFICATION Spec
INVARIANT ValidIsAccepted
\* The server gives up a connection, and messages run out.
CHECK_DEADLOCK FALSE
