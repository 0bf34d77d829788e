\* Three threads pop: client_connect, the sender, and one that has yet to end.
CONSTANTS
  Poppers = {t1, t2, t3}
  Messages = {hello, turn}
  Capacity = 4
SPECIFICATION FairSpec
INVARIANT NoLostWakeup
PROPERTY MessagesTaken
