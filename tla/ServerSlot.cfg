\* Two clients, on one slot or on two.
CONSTANTS
  Slots = {s1, s2}
  None = None
  MaxClients = 2
  QueueBound = 1
  GmQueueBound = 1
SPECIFICATION FairSpec
INVARIANTS TypeOK AnswerIsOwn
PROPERTIES AnsweredUnlessOutlived GoneIsNoticed BacklogTaken
\* The server may be terminated, and the clients run out.
CHECK_DEADLOCK FALSE
