\* One slot, and a client after another.
CONSTANTS
  Slots = {s1}
  None = None
  MaxClients = 2
  QueueBound = 1
  GmQueueBound = 1
SPECIFICATION FairSpec
PROPERTY Answered
\* The server may be terminated, and the clients run out.
CHECK_DEADLOCK FALSE
