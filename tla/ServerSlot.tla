----------------------------- MODULE ServerSlot -----------------------------
(***************************************************************************)
(* The threads behind a client of the server: the slot threads started by  *)
(* handle_servers, which accept clients one after the other, and for each  *)
(* client a receiver and a sender thread. A slot waits on a Latch until    *)
(* one of the two fails, interrupts both, joins neither and goes on to the *)
(* next client. What its threads refer to is on its stack: the latch, the  *)
(* reader and the writer end with the iteration, a thread need not.        *)
(*                                                                         *)
(* The GameMaster is reduced to what it pushes: an answer to each reset,   *)
(* and messages for everybody at any time.                                 *)
(***************************************************************************)
EXTENDS Integers, Sequences

CONSTANTS Slots,         \* server ids, NUMBER_OF_CLIENTS of them
          None,
          MaxClients,    \* bound: clients that ever connect
          QueueBound,    \* bound: no message for everybody past this length
          GmQueueBound   \* bound: no message of a client is read past this length

ASSUME ServerSlotAssumption ==
  /\ None \notin Slots
  /\ MaxClients \in Nat /\ QueueBound \in Nat /\ GmQueueBound \in Nat

VARIABLES
  knocks,              \* clients that have connected so far
  backlog,             \* those not yet accepted
  mutex,               \* the slot that holds the mutex around accept
  slot,                \* slot -> where its thread is
  client,              \* slot -> the client of its socket
  latch,               \* slot -> number_of_events of its Latch
  sender, receiver,    \* slot -> its threads, one of each for every client so far
  game_master_queue,
  server_queue,        \* slot -> its queue
  down                 \* the process has been terminated

queues == <<game_master_queue, server_queue>>
vars == <<knocks, backlog, mutex, slot, client, latch, sender, receiver,
          queues, down>>

-----------------------------------------------------------------------------
(* Which client a thread belongs to *)

\* The slot is in Latch::wait.
Serving(s) == slot[s] \in {"checking", "parked"}

\* The client the slot is working on, counted from 1.
Newest(s) == IF Serving(s) THEN Len(sender[s]) ELSE Len(sender[s]) + 1

\* Thread n serves the slot's present client; otherwise it has been interrupted
\* and what it refers to is gone, or belongs to the next client.
Current(s, n) == Serving(s) /\ n = Len(sender[s])

-----------------------------------------------------------------------------
(* Latch *)

\* Slip: nobody is notified.
CountDown_silent(s) ==
  /\ latch' = [latch EXCEPT ![s] = @ - 1]
  /\ UNCHANGED slot

\* Latch::decrease: waiter.notify_one() when the last event has happened.
CountDown(s) ==
  /\ latch' = [latch EXCEPT ![s] = @ - 1]
  /\ slot' = IF latch[s] = 1 /\ slot[s] = "parked"
             THEN [slot EXCEPT ![s] = "checking"] ELSE slot

\* A thread that failed decreases threads_still_running. Once the slot has gone
\* on this is undefined: the call may hit the latch of the next client, hit
\* nothing, or find a destroyed mutex, and the exception that follows leaves
\* the thread and ends the process.
decrease(s, n) ==
  \/ /\ Serving(s)
     /\ CountDown(s)
     /\ UNCHANGED down
  \/ /\ ~Current(s, n)
     /\ UNCHANGED <<latch, slot, down>>
  \/ /\ ~Serving(s)
     /\ down' = TRUE
     /\ UNCHANGED <<latch, slot>>

\* Latch::wait, with its mutex: wait for a notification ...
latch_wait(s) ==
  /\ slot[s] = "checking" /\ latch[s] > 0
  /\ slot' = [slot EXCEPT ![s] = "parked"]
  /\ UNCHANGED <<knocks, backlog, mutex, client, latch, sender, receiver, queues, down>>

\* ... which need not be one;
Spurious(s) ==
  /\ slot[s] = "parked"
  /\ slot' = [slot EXCEPT ![s] = "checking"]
  /\ UNCHANGED <<knocks, backlog, mutex, client, latch, sender, receiver, queues, down>>

\* or return: both threads are interrupted, the iteration ends and con with it.
\* (socket.close() concerns the socket con was made from, which is empty.)
Disconnect(s) ==
  /\ slot[s] = "checking" /\ latch[s] <= 0
  /\ slot' = [slot EXCEPT ![s] = "locking"]
  /\ client' = [client EXCEPT ![s] = "none"]
  /\ UNCHANGED <<knocks, backlog, mutex, latch, sender, receiver, queues, down>>

-----------------------------------------------------------------------------
(* The slot's thread *)

Lock(s) ==
  /\ slot[s] = "locking" /\ mutex = None
  /\ mutex' = s
  /\ slot' = [slot EXCEPT ![s] = "accepting"]
  /\ UNCHANGED <<knocks, backlog, client, latch, sender, receiver, queues, down>>

\* Slip: the mutex is kept until the client is served.
Accept_holding(s) ==
  /\ slot[s] = "accepting" /\ backlog > 0
  /\ backlog' = backlog - 1
  /\ mutex' = mutex
  /\ slot' = [slot EXCEPT ![s] = "configuring"]
  /\ client' = [client EXCEPT ![s] = "present"]
  /\ UNCHANGED <<knocks, latch, sender, receiver, queues, down>>

\* accept returns and the mutex is given up.
Accept(s) ==
  /\ slot[s] = "accepting" /\ backlog > 0
  /\ backlog' = backlog - 1
  /\ mutex' = None
  /\ slot' = [slot EXCEPT ![s] = "configuring"]
  /\ client' = [client EXCEPT ![s] = "present"]
  /\ UNCHANGED <<knocks, latch, sender, receiver, queues, down>>

\* client_connect's message for client `of', and one that a receiver has read.
Request(s, of) == [server |-> s, id |-> "RESET_SERVER", of |-> of]
Sent(s) == [server |-> s, id |-> "CS_JOIN"]

\* Slip: no request.
Configure_silent(s) ==
  /\ slot[s] = "configuring"
  /\ slot' = [slot EXCEPT ![s] = "connecting"]
  /\ UNCHANGED <<knocks, backlog, mutex, client, latch, sender, receiver, queues, down>>

\* set_option and remote_endpoint, and the request of client_connect.
Configure(s) ==
  /\ slot[s] = "configuring"
  /\ slot' = [slot EXCEPT ![s] = "connecting"]
  /\ game_master_queue' = Append(game_master_queue, Request(s, Newest(s)))
  /\ UNCHANGED <<knocks, backlog, mutex, client, latch, sender, receiver, server_queue, down>>

\* One of the two may throw if the client has gone, and nobody catches it.
ConfigureThrows(s) ==
  /\ slot[s] = "configuring" /\ client[s] = "gone"
  /\ down' = TRUE
  /\ UNCHANGED <<knocks, backlog, mutex, slot, client, latch, sender, receiver, queues>>

\* Slip: the receiver is not started.
StartThreads_sender(s) ==
  /\ slot' = [slot EXCEPT ![s] = "checking"]
  /\ latch' = [latch EXCEPT ![s] = 1]
  /\ sender' = [sender EXCEPT ![s] = Append(@, "popping")]
  /\ UNCHANGED receiver

\* Latch threads_still_running(1), and the two threads.
StartThreads(s) ==
  /\ slot' = [slot EXCEPT ![s] = "checking"]
  /\ latch' = [latch EXCEPT ![s] = 1]
  /\ sender' = [sender EXCEPT ![s] = Append(@, "popping")]
  /\ receiver' = [receiver EXCEPT ![s] = Append(@, "reading")]

\* Slip: the first message is taken for the answer.
client_connect_undrained(s) ==
  /\ slot[s] = "connecting" /\ server_queue[s] # <<>>
  /\ server_queue' = [server_queue EXCEPT ![s] = Tail(@)]
  /\ StartThreads(s)
  /\ UNCHANGED <<knocks, backlog, mutex, client, game_master_queue, down>>

\* client_connect drops messages up to the answer.
client_connect(s) ==
  /\ slot[s] = "connecting" /\ server_queue[s] # <<>>
  /\ server_queue' = [server_queue EXCEPT ![s] = Tail(@)]
  /\ IF Head(server_queue[s]) = "RESET_SERVER"
     THEN StartThreads(s)
     ELSE UNCHANGED <<slot, latch, sender, receiver>>
  /\ UNCHANGED <<knocks, backlog, mutex, client, game_master_queue, down>>

SlotStep(s) ==
  \/ Lock(s) \/ Accept(s) \/ Configure(s) \/ ConfigureThrows(s)
  \/ client_connect(s) \/ latch_wait(s) \/ Disconnect(s)

-----------------------------------------------------------------------------
(* The sender thread: send_to_client *)

Sender(s, n, state) == sender' = [sender EXCEPT ![s][n] = state]

\* pop finds a message. An interruption does not keep a thread from it that has
\* not begun to wait. RESET_SERVER is not for the client.
SenderPop(s, n) ==
  /\ \/ sender[s][n] = "popping"
     \/ sender[s][n] = "waiting" /\ Current(s, n)
  /\ server_queue[s] # <<>>
  /\ server_queue' = [server_queue EXCEPT ![s] = Tail(@)]
  /\ Sender(s, n, IF Head(server_queue[s]) = "RESET_SERVER" THEN "popping" ELSE "sending")
  /\ UNCHANGED <<knocks, backlog, mutex, slot, client, latch, receiver, game_master_queue, down>>

\* pop finds none and waits; the wait is where an interruption takes effect.
\* It is no exception of the kind that is caught, so the latch stays.
SenderWait(s, n) ==
  /\ \/ /\ sender[s][n] = "popping"
        /\ server_queue[s] = <<>>
     \/ /\ sender[s][n] = "waiting"
        /\ ~Current(s, n)
  /\ Sender(s, n, IF Current(s, n) THEN "waiting" ELSE "ended")
  /\ UNCHANGED <<knocks, backlog, mutex, slot, client, latch, receiver, queues, down>>

\* The message is sent, by an outlived thread over what its writer has become.
SenderSent(s, n) ==
  /\ sender[s][n] = "sending"
  /\ Sender(s, n, "popping")
  /\ UNCHANGED <<knocks, backlog, mutex, slot, client, latch, receiver, queues, down>>

\* Or the socket is closed.
SenderFail(s, n) ==
  /\ sender[s][n] = "sending"
  /\ Current(s, n) => client[s] = "gone"
  /\ Sender(s, n, "ended")
  /\ decrease(s, n)
  /\ UNCHANGED <<knocks, backlog, mutex, client, receiver, queues>>

-----------------------------------------------------------------------------
(* The receiver thread: receive_from_client. It has no interruption point. *)

Receiver(s, n, state) == receiver' = [receiver EXCEPT ![s][n] = state]

\* A message has been read: one the thread's own client sent, also if it has gone
\* since; or, by a thread that was outlived, anything: it has bytes left or takes
\* those of the next client, and it may be inside read_some when the next client's
\* reader is made there, and leave its bytes in that.
ReceiverRead(s, n) ==
  /\ receiver[s][n] = "reading"
  /\ Len(game_master_queue) < GmQueueBound
  /\ Receiver(s, n, "pushing")
  /\ UNCHANGED <<knocks, backlog, mutex, slot, client, latch, sender, queues, down>>

ReceiverPush(s, n) ==
  /\ receiver[s][n] = "pushing"
  /\ game_master_queue' = Append(game_master_queue, Sent(s))
  /\ Receiver(s, n, "reading")
  /\ UNCHANGED <<knocks, backlog, mutex, slot, client, latch, sender, server_queue, down>>

\* The socket is closed, or what was read is no message.
ReceiverFail(s, n) ==
  /\ receiver[s][n] = "reading"
  /\ Receiver(s, n, "ended")
  /\ decrease(s, n)
  /\ UNCHANGED <<knocks, backlog, mutex, client, sender, queues>>

-----------------------------------------------------------------------------
(* Clients, and the main loop with the GameMaster *)

Knock ==
  /\ knocks < MaxClients
  /\ knocks' = knocks + 1
  /\ backlog' = backlog + 1
  /\ UNCHANGED <<mutex, slot, client, latch, sender, receiver, queues, down>>

\* A client goes, also one that has just been accepted.
Leave(s) ==
  /\ client[s] = "present"
  /\ client' = [client EXCEPT ![s] = "gone"]
  /\ UNCHANGED <<knocks, backlog, mutex, slot, latch, sender, receiver, queues, down>>

\* A reset is answered; what other messages lead to is Broadcast.
MainLoop ==
  /\ game_master_queue # <<>>
  /\ LET m == Head(game_master_queue)
     IN server_queue' = IF m.id = "RESET_SERVER"
                        THEN [server_queue EXCEPT ![m.server] =
                                @ \o <<"RESET_SERVER", "SC_HELLO">>]
                        ELSE server_queue
  /\ game_master_queue' = Tail(game_master_queue)
  /\ UNCHANGED <<knocks, backlog, mutex, slot, client, latch, sender, receiver, down>>

\* A player is announced or a turn is played, with or without clients.
Broadcast ==
  /\ \A s \in Slots : Len(server_queue[s]) < QueueBound
  /\ server_queue' = [s \in Slots |-> Append(server_queue[s], "SC_TURN")]
  /\ UNCHANGED <<knocks, backlog, mutex, slot, client, latch, sender, receiver,
                 game_master_queue, down>>

-----------------------------------------------------------------------------
Init ==
  /\ knocks = 0 /\ backlog = 0
  /\ mutex = None
  /\ slot = [s \in Slots |-> "locking"]
  /\ client = [s \in Slots |-> "none"]
  /\ latch = [s \in Slots |-> 0]
  /\ sender = [s \in Slots |-> <<>>]
  /\ receiver = [s \in Slots |-> <<>>]
  /\ game_master_queue = <<>>
  /\ server_queue = [s \in Slots |-> <<>>]
  /\ down = FALSE

ThreadStep(s, n) ==
  \/ SenderPop(s, n) \/ SenderWait(s, n) \/ SenderSent(s, n) \/ SenderFail(s, n)
  \/ ReceiverRead(s, n) \/ ReceiverPush(s, n) \/ ReceiverFail(s, n)

Next ==
  /\ ~down
  /\ \/ \E s \in Slots :
          \/ SlotStep(s) \/ Spurious(s) \/ Leave(s)
          \/ \E n \in DOMAIN sender[s] : ThreadStep(s, n)
     \/ Knock \/ MainLoop \/ Broadcast

Spec == Init /\ [][Next]_vars

\* The slot's client has gone, and its receiver pushes what it has read, or fails.
PushesLast(s) ==
  \E n \in DOMAIN sender[s] : Current(s, n) /\ client[s] = "gone" /\ ReceiverPush(s, n)

LosesClient(s) ==
  \E n \in DOMAIN sender[s] : Current(s, n) /\ client[s] = "gone" /\ ReceiverFail(s, n)

\* The process runs its threads. What a client that has gone left to be read is
\* finite, so its receiver does not read for ever instead of failing. Which slot
\* gets the mutex is open, a sender may be held up by a client that does not
\* read, and clients do as they like.
Fairness ==
  /\ WF_vars(~down /\ \E s \in Slots : Lock(s))
  /\ \A s \in Slots :
       /\ WF_vars(~down /\ (SlotStep(s) /\ ~Lock(s)))
       /\ WF_vars(~down /\ PushesLast(s))
       /\ SF_vars(~down /\ LosesClient(s))
  /\ WF_vars(~down /\ MainLoop)

FairSpec == Spec /\ Fairness

-----------------------------------------------------------------------------
(* Properties *)

TypeOK ==
  /\ knocks \in 0 .. MaxClients /\ backlog \in 0 .. knocks
  /\ mutex \in Slots \cup {None}
  /\ slot \in [Slots -> {"locking", "accepting", "configuring", "connecting",
                         "checking", "parked"}]
  /\ client \in [Slots -> {"none", "present", "gone"}]
  /\ latch \in [Slots -> Int]
  /\ sender \in [Slots -> Seq({"popping", "waiting", "sending", "ended"})]
  /\ receiver \in [Slots -> Seq({"reading", "pushing", "ended"})]
  /\ \A s \in Slots : DOMAIN receiver[s] = DOMAIN sender[s]
  /\ game_master_queue \in
       Seq([server : Slots, id : {"RESET_SERVER"}, of : Nat]
             \cup [server : Slots, id : {"CS_JOIN"}])
  /\ server_queue \in [Slots -> Seq({"RESET_SERVER", "SC_HELLO", "SC_TURN"})]
  /\ down \in BOOLEAN

Requests(s) == {i \in DOMAIN game_master_queue :
                  /\ game_master_queue[i].server = s
                  /\ game_master_queue[i].id = "RESET_SERVER"}

Answers(s) == {i \in DOMAIN server_queue[s] : server_queue[s][i] = "RESET_SERVER"}

\* An answer client_connect takes is the one to its own request: there is never
\* a request or an answer of an earlier client about, though threads of earlier
\* clients take messages too and nothing says whom an answer is for.
AnswerIsOwn ==
  \A s \in Slots :
    /\ \A i, j \in Requests(s) : i = j
    /\ \A i, j \in Answers(s) : i = j
    /\ Requests(s) = {} \/ Answers(s) = {}
    /\ Requests(s) \cup Answers(s) # {} => slot[s] = "connecting"
    /\ \A i \in Requests(s) : game_master_queue[i].of = Newest(s)

\* A sender that was interrupted and has not begun to wait yet.
Outlived(s, n) == ~Current(s, n) /\ sender[s][n] \in {"popping", "sending"}

\* client_connect gets the answer, unless a sender of an earlier client is still
\* running when the client is accepted: nothing else ever takes it.
AnsweredUnlessOutlived ==
  \A s \in Slots :
    slot[s] = "configuring" /\ (\A n \in DOMAIN sender[s] : ~Outlived(s, n))
      ~> Serving(s) \/ down

\* A client that goes is noticed, whatever the two threads are doing and
\* however their failures meet the slot's test of the latch.
GoneIsNoticed ==
  \A s \in Slots :
    Serving(s) /\ client[s] = "gone" ~> ~Serving(s) \/ down

\* Clients that connect are accepted as long as a slot is free: neither a slot
\* that serves nor one that waits for its answer in vain keeps the others out.
BacklogTaken ==
  backlog > 0 ~>
    \/ backlog = 0 \/ down
    \/ \A s \in Slots : slot[s] \notin {"locking", "accepting"}

\* client_connect waits for the answer, as its comment says, and gets it.
Answered ==
  \A s \in Slots : slot[s] = "connecting" ~> slot[s] # "connecting" \/ down
=============================================================================
