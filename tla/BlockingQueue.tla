---------------------------- MODULE BlockingQueue ----------------------------
(***************************************************************************)
(* Class BlockingQueue: game_master_queue and the server queues. Threads   *)
(* hold its mutex for all of push and pop except while they wait, so push  *)
(* is one step and pop one step for each time the mutex is taken.          *)
(***************************************************************************)
EXTENDS Naturals, Sequences, FiniteSets

CONSTANTS Poppers,    \* the threads that pop; any others push
          Messages,   \* what they push
          Capacity    \* bound: nobody pushes to a queue of this length

ASSUME BlockingQueueAssumption == IsFiniteSet(Poppers) /\ Capacity \in Nat

VARIABLES
  q,         \* the queue
  popping,   \* the threads inside pop
  pop_q      \* those of them that wait on the condition variable

vars == <<q, popping, pop_q>>

\* Slip: nobody is notified.
notify_one_never(waiting) == pop_q' = waiting

\* pop_q.notify_one(), when the threads in waiting wait.
notify_one(waiting) ==
  IF waiting = {} THEN pop_q' = {} ELSE \E t \in waiting : pop_q' = waiting \ {t}

push(v) ==
  /\ Len(q) < Capacity
  /\ q' = Append(q, v)
  /\ notify_one(pop_q)
  /\ UNCHANGED popping

\* A thread calls pop.
pop(t) ==
  /\ t \notin popping
  /\ popping' = popping \cup {t}
  /\ UNCHANGED <<q, pop_q>>

\* With the mutex, for the first time or after it was woken: the queue is
\* empty and the thread waits.
pop_wait(t) ==
  /\ t \in popping \ pop_q
  /\ q = <<>>
  /\ pop_q' = pop_q \cup {t}
  /\ UNCHANGED <<q, popping>>

\* Or it is not, and the thread takes the front and notifies another.
pop_front(t) ==
  /\ t \in popping \ pop_q
  /\ q # <<>>
  /\ q' = Tail(q)
  /\ popping' = popping \ {t}
  /\ notify_one(pop_q)

\* A condition variable may wake without being notified.
Spurious(t) ==
  /\ t \in pop_q
  /\ pop_q' = pop_q \ {t}
  /\ UNCHANGED <<q, popping>>

Init == q = <<>> /\ popping = {} /\ pop_q = {}

Next ==
  \/ \E v \in Messages : push(v)
  \/ \E t \in Poppers : pop(t) \/ pop_wait(t) \/ pop_front(t) \/ Spurious(t)

Spec == Init /\ [][Next]_vars

\* A thread that may run inside pop gets the mutex in the end.
Fairness == \A t \in Poppers : WF_vars(pop_wait(t) \/ pop_front(t))

FairSpec == Spec /\ Fairness

-----------------------------------------------------------------------------
\* What the counts of NoLostWakeup rest on.
TypeOK ==
  /\ q \in Seq(Messages)
  /\ popping \subseteq Poppers
  /\ pop_q \subseteq popping

\* No wakeup is lost: as long as a thread waits, there is a thread on its way
\* to each message, although notify_one may choose any of those that wait, a
\* thread that never waited may be faster, and one may wake for nothing.
NoLostWakeup ==
  pop_q # {} => Len(q) <= Cardinality(popping \ pop_q)

\* A thread inside pop and a message in the queue do not stay apart: messages
\* are taken again and again while both are there.
MessagesTaken ==
  <>[](q # <<>> /\ popping # {}) => []<><<\E t \in Poppers : pop_front(t)>>_vars
=============================================================================
