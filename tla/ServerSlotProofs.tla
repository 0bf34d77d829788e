-------------------------- MODULE ServerSlotProofs --------------------------
(***************************************************************************)
(* The invariants of ServerSlot for any number of slots and clients.       *)
(***************************************************************************)
EXTENDS ServerSlot, SequenceTheorems, TLAPS

SenderStates == {"popping", "waiting", "sending", "ended"}
ReceiverStates == {"reading", "pushing", "ended"}
GmMessages == [server : Slots, id : {"RESET_SERVER"}, of : Nat]
                \cup [server : Slots, id : {"CS_JOIN"}]
ServerMessages == {"RESET_SERVER", "SC_HELLO", "SC_TURN"}

-----------------------------------------------------------------------------
(* Types *)

LEMMA HeadIsFirst ==
  ASSUME NEW S, NEW q \in Seq(S), q # <<>>
  PROVE  /\ Head(q) = q[1] /\ Head(q) \in S
         /\ Len(q) \in Nat \ {0} /\ 1 \in DOMAIN q
         /\ Tail(q) \in Seq(S)
         /\ Len(Tail(q)) = Len(q) - 1
         /\ DOMAIN Tail(q) = 1 .. Len(q) - 1
         /\ \A i \in 1 .. Len(q) - 1 : Tail(q)[i] = q[i + 1]
<1>1. Len(q) \in Nat \ {0} /\ DOMAIN q = 1 .. Len(q)
  BY EmptySeq, LenProperties
<1>2. /\ Tail(q) \in Seq(S) /\ Head(q) \in S
      /\ Len(Tail(q)) = Len(q) - 1
      /\ \A i \in 1 .. Len(Tail(q)) : Tail(q)[i] = q[i + 1]
  BY HeadTailProperties
<1>3. DOMAIN Tail(q) = 1 .. Len(Tail(q))
  BY <1>2, LenProperties
<1>4. Head(q) = q[1]
  BY <1>1
<1> QED BY <1>1, <1>2, <1>3, <1>4

LEMMA Appended ==
  ASSUME NEW S, NEW q \in Seq(S), NEW e \in S
  PROVE  /\ Append(q, e) \in Seq(S)
         /\ Len(q) \in Nat /\ DOMAIN q = 1 .. Len(q)
         /\ Len(Append(q, e)) = Len(q) + 1
         /\ DOMAIN Append(q, e) = 1 .. Len(q) + 1
         /\ \A i \in 1 .. Len(q) : Append(q, e)[i] = q[i]
         /\ Append(q, e)[Len(q) + 1] = e
<1>1. /\ Append(q, e) \in Seq(S)
      /\ Len(Append(q, e)) = Len(q) + 1
      /\ \A i \in 1 .. Len(q) : Append(q, e)[i] = q[i]
      /\ Append(q, e)[Len(q) + 1] = e
  BY AppendProperties
<1>2. DOMAIN Append(q, e) = 1 .. Len(Append(q, e))
  BY <1>1, LenProperties
<1> QED BY <1>1, <1>2, LenProperties

LEMMA Indices ==
  ASSUME TypeOK, NEW s \in Slots
  PROVE  /\ Len(sender[s]) \in Nat /\ DOMAIN sender[s] = 1 .. Len(sender[s])
         /\ Len(receiver[s]) \in Nat /\ DOMAIN receiver[s] = 1 .. Len(receiver[s])
         /\ DOMAIN receiver[s] = DOMAIN sender[s]
         /\ Len(receiver[s]) = Len(sender[s])
         /\ Newest(s) \in Nat
<1>1. Len(sender[s]) \in Nat /\ DOMAIN sender[s] = 1 .. Len(sender[s])
  BY LenProperties DEF TypeOK
<1>2. Len(receiver[s]) \in Nat /\ DOMAIN receiver[s] = 1 .. Len(receiver[s])
  BY LenProperties DEF TypeOK
<1>3. DOMAIN receiver[s] = DOMAIN sender[s]
  BY DEF TypeOK
<1>4. 1 .. Len(receiver[s]) = 1 .. Len(sender[s])
  BY <1>1, <1>2, <1>3
<1>5. Len(receiver[s]) = Len(sender[s])
  BY <1>1, <1>2, <1>4
<1> QED BY <1>1, <1>2, <1>3, <1>5 DEF Newest

\* A thread's step changes the state of that thread.
LEMMA SenderType ==
  ASSUME TypeOK, NEW s \in Slots, NEW n \in DOMAIN sender[s],
         NEW state \in SenderStates, Sender(s, n, state)
  PROVE  /\ sender' \in [Slots -> Seq(SenderStates)]
         /\ \A t \in Slots : /\ Len(sender'[t]) = Len(sender[t])
                             /\ DOMAIN sender'[t] = DOMAIN sender[t]
<1>1. sender \in [Slots -> Seq(SenderStates)]
  BY DEF TypeOK, SenderStates
<1>2. n \in 1 .. Len(sender[s])
  BY <1>1, LenProperties
<1> DEFINE q == [sender[s] EXCEPT ![n] = state]
<1>3. q \in Seq(SenderStates) /\ Len(q) = Len(sender[s])
  BY <1>1, <1>2, ExceptSeq
<1>4. DOMAIN q = DOMAIN sender[s]
  OBVIOUS
<1>5. sender' = [sender EXCEPT ![s] = q]
  BY DEF Sender
<1> HIDE DEF q
<1> QED BY <1>1, <1>3, <1>4, <1>5

LEMMA ReceiverType ==
  ASSUME TypeOK, NEW s \in Slots, NEW n \in DOMAIN sender[s],
         NEW state \in ReceiverStates, Receiver(s, n, state)
  PROVE  /\ receiver' \in [Slots -> Seq(ReceiverStates)]
         /\ \A t \in Slots : DOMAIN receiver'[t] = DOMAIN receiver[t]
<1>1. receiver \in [Slots -> Seq(ReceiverStates)]
  BY DEF TypeOK, ReceiverStates
<1>2. n \in 1 .. Len(receiver[s]) /\ n \in DOMAIN receiver[s]
  BY Indices
<1> DEFINE q == [receiver[s] EXCEPT ![n] = state]
<1>3. q \in Seq(ReceiverStates)
  BY <1>1, <1>2, ExceptSeq
<1>4. DOMAIN q = DOMAIN receiver[s]
  OBVIOUS
<1>5. receiver' = [receiver EXCEPT ![s] = q]
  BY DEF Receiver
<1> HIDE DEF q
<1> QED BY <1>1, <1>3, <1>4, <1>5

\* What a receiver pushes.
LEMMA PushedMessage ==
  ASSUME TypeOK, NEW s \in Slots, NEW n \in DOMAIN sender[s], ReceiverPush(s, n)
  PROVE  \E m \in GmMessages :
           /\ game_master_queue' = Append(game_master_queue, m)
           /\ m.server = s /\ m.id # "RESET_SERVER"
<1>1. game_master_queue' = Append(game_master_queue, Sent(s))
  BY DEF ReceiverPush
<1>2. /\ Sent(s) \in GmMessages /\ Sent(s).server = s
      /\ Sent(s).id # "RESET_SERVER"
  BY DEF Sent, GmMessages
<1> QED BY <1>1, <1>2

LEMMA DecreaseType ==
  ASSUME TypeOK, NEW s \in Slots, NEW n \in DOMAIN sender[s], decrease(s, n)
  PROVE  /\ latch' \in [Slots -> Int]
         /\ slot' \in [Slots -> {"locking", "accepting", "configuring", "connecting",
                                 "checking", "parked"}]
         /\ down' \in BOOLEAN
         /\ \A t \in Slots : /\ slot'[t] = "connecting" <=> slot[t] = "connecting"
                             /\ Serving(t)' <=> Serving(t)
<1>1. CASE Serving(s) /\ CountDown(s) /\ UNCHANGED down
  BY <1>1, SMTT(40) DEF TypeOK, CountDown, Serving
<1>2. CASE UNCHANGED <<latch, slot, down>>
  BY <1>2 DEF TypeOK, Serving
<1>3. CASE down' = TRUE /\ UNCHANGED <<latch, slot>>
  BY <1>3 DEF TypeOK, Serving
<1> QED BY <1>1, <1>2, <1>3 DEF decrease

LEMMA SlotType ==
  ASSUME TypeOK, NEW s \in Slots, SlotStep(s) \/ Spurious(s) \/ Leave(s)
  PROVE  TypeOK'
<1>1. CASE Lock(s) \/ Accept(s)
  <2>1. CASE Lock(s)
    BY <2>1 DEF TypeOK, Lock, queues
  <2>2. CASE Accept(s)
    <3>1. knocks' \in 0 .. MaxClients /\ backlog' \in 0 .. knocks'
      BY <2>2 DEF TypeOK, Accept
    <3> QED BY <2>2, <3>1 DEF TypeOK, Accept, queues
  <2> QED BY <1>1, <2>1, <2>2
<1>2. CASE Configure(s)
  <2>1. Request(s, Newest(s)) \in GmMessages
    BY Indices DEF Request, GmMessages
  <2>2. game_master_queue' \in Seq(GmMessages)
    BY <1>2, <2>1, AppendProperties DEF TypeOK, Configure, GmMessages
  <2> QED BY <1>2, <2>2 DEF TypeOK, Configure, GmMessages
<1>3. CASE ConfigureThrows(s)
  BY <1>3 DEF TypeOK, ConfigureThrows, queues
<1>4. CASE client_connect(s)
  <2>1. server_queue' \in [Slots -> Seq(ServerMessages)]
    BY <1>4, HeadTailProperties DEF TypeOK, client_connect, ServerMessages
  <2>2. CASE UNCHANGED <<slot, latch, sender, receiver>>
    BY <1>4, <2>1, <2>2 DEF TypeOK, client_connect, ServerMessages
  <2>3. CASE StartThreads(s)
    <3> DEFINE S == Append(sender[s], "popping")
               R == Append(receiver[s], "reading")
    <3>1. sender[s] \in Seq(SenderStates) /\ "popping" \in SenderStates
      BY DEF TypeOK, SenderStates
    <3>2. S \in Seq(SenderStates) /\ DOMAIN S = 1 .. Len(sender[s]) + 1
      BY <3>1, Appended
    <3>3. receiver[s] \in Seq(ReceiverStates) /\ "reading" \in ReceiverStates
      BY DEF TypeOK, ReceiverStates
    <3>4. R \in Seq(ReceiverStates) /\ DOMAIN R = 1 .. Len(receiver[s]) + 1
      BY <3>3, Appended
    <3>5. DOMAIN R = DOMAIN S
      BY <3>2, <3>4, Indices
    <3>6. /\ sender' = [sender EXCEPT ![s] = S]
          /\ receiver' = [receiver EXCEPT ![s] = R]
          /\ slot' = [slot EXCEPT ![s] = "checking"]
          /\ latch' = [latch EXCEPT ![s] = 1]
      BY <2>3 DEF StartThreads
    <3> HIDE DEF S, R
    <3> QED BY <1>4, <2>1, <3>2, <3>4, <3>5, <3>6
            DEF TypeOK, client_connect, SenderStates, ReceiverStates, ServerMessages
  <2> QED BY <1>4, <2>2, <2>3 DEF client_connect
<1>5. CASE latch_wait(s) \/ Disconnect(s)
  BY <1>5 DEF TypeOK, latch_wait, Disconnect, queues
<1>6. CASE Spurious(s) \/ Leave(s)
  BY <1>6 DEF TypeOK, Spurious, Leave, queues
<1> QED BY <1>1, <1>2, <1>3, <1>4, <1>5, <1>6 DEF SlotStep

LEMMA ThreadType ==
  ASSUME TypeOK, NEW s \in Slots, NEW n \in DOMAIN sender[s], ThreadStep(s, n)
  PROVE  TypeOK'
<1>1. CASE SenderPop(s, n)
  <2>1. PICK state \in SenderStates : Sender(s, n, state)
    BY <1>1 DEF SenderPop, SenderStates
  <2>2. server_queue' \in [Slots -> Seq(ServerMessages)]
    BY <1>1, HeadTailProperties DEF TypeOK, SenderPop, ServerMessages
  <2> QED BY <1>1, <2>1, <2>2, SenderType DEF TypeOK, SenderPop, SenderStates, ServerMessages
<1>2. CASE SenderWait(s, n) \/ SenderSent(s, n)
  <2>1. PICK state \in SenderStates : Sender(s, n, state)
    BY <1>2 DEF SenderWait, SenderSent, SenderStates
  <2> QED BY <1>2, <2>1, SenderType DEF TypeOK, SenderWait, SenderSent, SenderStates, queues
<1>3. CASE SenderFail(s, n)
  <2>1. Sender(s, n, "ended") /\ "ended" \in SenderStates
    BY <1>3 DEF SenderFail, SenderStates
  <2> QED BY <1>3, <2>1, SenderType, DecreaseType DEF TypeOK, SenderFail, SenderStates, queues
<1>4. CASE ReceiverRead(s, n)
  <2>1. Receiver(s, n, "pushing") /\ "pushing" \in ReceiverStates
    BY <1>4 DEF ReceiverRead, ReceiverStates
  <2> QED BY <1>4, <2>1, ReceiverType DEF TypeOK, ReceiverRead, ReceiverStates, queues
<1>5. CASE ReceiverPush(s, n)
  <2>1. Receiver(s, n, "reading") /\ "reading" \in ReceiverStates
    BY <1>5 DEF ReceiverPush, ReceiverStates
  <2>2. PICK m \in GmMessages : game_master_queue' = Append(game_master_queue, m)
    BY <1>5, PushedMessage
  <2>3. game_master_queue' \in Seq(GmMessages)
    BY <2>2, AppendProperties DEF TypeOK, GmMessages
  <2> QED BY <1>5, <2>1, <2>3, ReceiverType
          DEF TypeOK, ReceiverPush, ReceiverStates, GmMessages
<1>6. CASE ReceiverFail(s, n)
  <2>1. Receiver(s, n, "ended") /\ "ended" \in ReceiverStates
    BY <1>6 DEF ReceiverFail, ReceiverStates
  <2> QED BY <1>6, <2>1, ReceiverType, DecreaseType, ZenonT(40)
          DEF TypeOK, ReceiverFail, ReceiverStates, queues
<1> QED BY <1>1, <1>2, <1>3, <1>4, <1>5, <1>6 DEF ThreadStep

LEMMA RestType ==
  ASSUME TypeOK, Knock \/ MainLoop \/ Broadcast
  PROVE  TypeOK'
<1>1. CASE Knock
  BY <1>1, ServerSlotAssumption DEF TypeOK, Knock, queues
<1>2. CASE MainLoop
  <2>1. game_master_queue' \in Seq(GmMessages)
    BY <1>2, HeadTailProperties DEF TypeOK, MainLoop, GmMessages
  <2>2. server_queue' \in [Slots -> Seq(ServerMessages)]
    <3>1. <<"RESET_SERVER", "SC_HELLO">> \in Seq(ServerMessages)
      BY DEF ServerMessages
    <3>2. \A q \in Seq(ServerMessages) : q \o <<"RESET_SERVER", "SC_HELLO">> \in Seq(ServerMessages)
      BY <3>1, ConcatProperties
    <3> QED BY <1>2, <3>2 DEF TypeOK, MainLoop, ServerMessages
  <2> QED BY <1>2, <2>1, <2>2 DEF TypeOK, MainLoop, GmMessages, ServerMessages
<1>3. CASE Broadcast
  <2>1. server_queue' \in [Slots -> Seq(ServerMessages)]
    BY <1>3, AppendProperties DEF TypeOK, Broadcast, ServerMessages
  <2> QED BY <1>3, <2>1 DEF TypeOK, Broadcast, ServerMessages
<1> QED BY <1>1, <1>2, <1>3

LEMMA InitType == Init => TypeOK
<1> SUFFICES ASSUME Init PROVE TypeOK
  OBVIOUS
<1>1. <<>> \in Seq(SenderStates) /\ <<>> \in Seq(ReceiverStates)
      /\ <<>> \in Seq(GmMessages) /\ <<>> \in Seq(ServerMessages)
  BY EmptySeq
<1>2. knocks \in 0 .. MaxClients /\ backlog \in 0 .. knocks
  BY ServerSlotAssumption DEF Init
<1>3. /\ sender \in [Slots -> Seq(SenderStates)]
      /\ receiver \in [Slots -> Seq(ReceiverStates)]
      /\ server_queue \in [Slots -> Seq(ServerMessages)]
      /\ game_master_queue \in Seq(GmMessages)
      /\ \A s \in Slots : DOMAIN receiver[s] = DOMAIN sender[s]
  BY <1>1 DEF Init
<1>4. /\ slot \in [Slots -> {"locking", "accepting", "configuring", "connecting",
                            "checking", "parked"}]
      /\ client \in [Slots -> {"none", "present", "gone"}]
  BY DEF Init
<1>5. mutex \in Slots \cup {None} /\ latch \in [Slots -> Int]
  BY DEF Init
<1>6. down \in BOOLEAN
  BY DEF Init
<1> QED BY <1>2, <1>3, <1>4, <1>5, <1>6
        DEF TypeOK, SenderStates, ReceiverStates, GmMessages, ServerMessages

LEMMA NextType == TypeOK /\ [Next]_vars => TypeOK'
<1>1. ASSUME TypeOK, UNCHANGED vars PROVE TypeOK'
  BY <1>1 DEF TypeOK, vars, queues
<1>2. ASSUME TypeOK, Next PROVE TypeOK'
  <2>1. CASE \E s \in Slots : SlotStep(s) \/ Spurious(s) \/ Leave(s)
    BY <1>2, <2>1, SlotType
  <2>2. CASE \E s \in Slots : \E n \in DOMAIN sender[s] : ThreadStep(s, n)
    BY <1>2, <2>2, ThreadType
  <2>3. CASE Knock \/ MainLoop \/ Broadcast
    BY <1>2, <2>3, RestType
  <2> QED BY <1>2, <2>1, <2>2, <2>3 DEF Next
<1> QED BY <1>1, <1>2

\* Every variable keeps its type, for any slots, bounds and clients.
THEOREM Typed == Spec => []TypeOK
BY InitType, NextType, PTL DEF Spec

-----------------------------------------------------------------------------
(* Requests and answers *)

IInv == TypeOK /\ AnswerIsOwn

RequestOwn(s) ==
  /\ \A i, j \in Requests(s) : i = j
  /\ Requests(s) # {} => slot[s] = "connecting"
  /\ \A i \in Requests(s) : game_master_queue[i].of = Newest(s)

AnswerOwn(s) ==
  /\ \A i, j \in Answers(s) : i = j
  /\ Requests(s) = {} \/ Answers(s) = {}
  /\ Answers(s) # {} => slot[s] = "connecting"

LEMMA OwnParts == AnswerIsOwn <=> \A s \in Slots : RequestOwn(s) /\ AnswerOwn(s)
BY DEF AnswerIsOwn, RequestOwn, AnswerOwn

LEMMA MessageType ==
  ASSUME TypeOK
  PROVE  /\ game_master_queue \in Seq(GmMessages)
         /\ Len(game_master_queue) \in Nat
         /\ DOMAIN game_master_queue = 1 .. Len(game_master_queue)
         /\ \A i \in DOMAIN game_master_queue :
              /\ game_master_queue[i] \in GmMessages
              /\ game_master_queue[i].server \in Slots
<1>1. game_master_queue \in Seq(GmMessages)
  BY DEF TypeOK, GmMessages
<1>2. /\ Len(game_master_queue) \in Nat
      /\ DOMAIN game_master_queue = 1 .. Len(game_master_queue)
      /\ \A i \in DOMAIN game_master_queue : game_master_queue[i] \in GmMessages
  BY <1>1, LenProperties, ElementOfSeq
<1> QED BY <1>1, <1>2 DEF GmMessages

\* The queue to the GameMaster, unchanged.
LEMMA QueueKept ==
  ASSUME IInv, game_master_queue' = game_master_queue,
         \A s \in Slots : Requests(s) # {} =>
           slot'[s] = "connecting" /\ Newest(s)' = Newest(s)
  PROVE  \A s \in Slots : RequestOwn(s)' /\ Requests(s)' = Requests(s)
<1>1. \A s \in Slots : Requests(s)' = Requests(s)
  BY DEF Requests
<1> QED BY <1>1, OwnParts DEF IInv, RequestOwn

LEMMA QueueType ==
  ASSUME TypeOK, NEW s \in Slots
  PROVE  /\ server_queue[s] \in Seq(ServerMessages)
         /\ Len(server_queue[s]) \in Nat
         /\ DOMAIN server_queue[s] = 1 .. Len(server_queue[s])
<1>1. server_queue[s] \in Seq(ServerMessages)
  BY DEF TypeOK, ServerMessages
<1> QED BY <1>1, LenProperties

\* Taking a message of a slot's queue.
LEMMA PoppedAnswers ==
  ASSUME TypeOK, AnswerIsOwn, NEW s \in Slots, server_queue[s] # <<>>,
         server_queue' = [server_queue EXCEPT ![s] = Tail(@)]
  PROVE  /\ \A t \in Slots \ {s} : Answers(t)' = Answers(t)
         /\ \A i \in Answers(s)' : i \in Int /\ i + 1 \in Answers(s)
         /\ Head(server_queue[s]) = "RESET_SERVER" => Answers(s)' = {} /\ Answers(s) # {}
<1>1. \A t \in Slots \ {s} : server_queue'[t] = server_queue[t]
  BY DEF TypeOK
<1>2. server_queue'[s] = Tail(server_queue[s])
  BY DEF TypeOK
<1>3. /\ Head(server_queue[s]) = server_queue[s][1] /\ 1 \in DOMAIN server_queue[s]
      /\ Len(server_queue[s]) \in Nat \ {0}
      /\ DOMAIN Tail(server_queue[s]) = 1 .. Len(server_queue[s]) - 1
      /\ \A i \in 1 .. Len(server_queue[s]) - 1 :
           Tail(server_queue[s])[i] = server_queue[s][i + 1]
      /\ DOMAIN server_queue[s] = 1 .. Len(server_queue[s])
  BY QueueType, HeadIsFirst
<1>4. \A t \in Slots \ {s} : Answers(t)' = Answers(t)
  BY <1>1 DEF Answers
<1>5. ASSUME NEW i \in Answers(s)' PROVE i \in 1 .. Len(server_queue[s]) - 1 /\ i + 1 \in Answers(s)
  <2>1. i \in 1 .. Len(server_queue[s]) - 1
        /\ Tail(server_queue[s])[i] = "RESET_SERVER"
    BY <1>2, <1>3 DEF Answers
  <2>2. i + 1 \in 1 .. Len(server_queue[s])
    BY <1>3, <2>1
  <2> QED BY <1>3, <2>1, <2>2 DEF Answers
<1>6. ASSUME Head(server_queue[s]) = "RESET_SERVER"
      PROVE  Answers(s)' = {} /\ Answers(s) # {}
  <2>1. 1 \in Answers(s)
    BY <1>3, <1>6 DEF Answers
  <2>2. \A i \in Answers(s) : i = 1
    BY <2>1 DEF AnswerIsOwn
  <2>3. \A i \in Answers(s)' : i \in 1 .. Len(server_queue[s]) - 1 /\ i + 1 = 1
    BY <1>5, <2>2
  <2>4. \A i \in 1 .. Len(server_queue[s]) - 1 : i + 1 # 1
    BY <1>3
  <2> QED BY <2>1, <2>3, <2>4
<1>7. \A i \in Answers(s)' : i \in Int /\ i + 1 \in Answers(s)
  BY <1>5
<1> QED BY <1>4, <1>6, <1>7

\* Steps that leave both queues and what slots are waiting for as they are.
LEMMA QuietStep ==
  ASSUME IInv, UNCHANGED queues,
         \A s \in Slots :
           /\ slot'[s] = "connecting" <=> slot[s] = "connecting"
           /\ Len(sender'[s]) = Len(sender[s])
  PROVE  AnswerIsOwn'
<1>1. game_master_queue' = game_master_queue /\ server_queue' = server_queue
  BY DEF queues
<1>2. ASSUME NEW s \in Slots, Requests(s) # {}
      PROVE  slot'[s] = "connecting" /\ Newest(s)' = Newest(s)
  <2>1. slot[s] = "connecting" /\ slot'[s] = "connecting"
    BY <1>2 DEF IInv, AnswerIsOwn
  <2> QED BY <2>1 DEF Newest, Serving
<1>3. \A s \in Slots : RequestOwn(s)' /\ Requests(s)' = Requests(s)
  BY <1>1, <1>2, QueueKept
<1>4. \A s \in Slots : Answers(s)' = Answers(s)
  BY <1>1 DEF Answers
<1>5. \A s \in Slots : AnswerOwn(s)'
  BY <1>3, <1>4, OwnParts DEF IInv, AnswerOwn
<1> QED BY <1>3, <1>5, OwnParts DEF AnswerIsOwn, RequestOwn, AnswerOwn

LEMMA SlotQuiet ==
  ASSUME IInv, NEW s \in Slots,
         \/ Lock(s) \/ Accept(s) \/ ConfigureThrows(s) \/ latch_wait(s)
         \/ Disconnect(s) \/ Spurious(s) \/ Leave(s)
  PROVE  AnswerIsOwn'
<1>1. UNCHANGED queues /\ UNCHANGED sender
  BY DEF Lock, Accept, ConfigureThrows, latch_wait, Disconnect, Spurious, Leave
<1>2. \A t \in Slots : slot'[t] = "connecting" <=> slot[t] = "connecting"
  BY DEF IInv, TypeOK, Lock, Accept, ConfigureThrows, latch_wait, Disconnect,
         Spurious, Leave
<1> QED BY <1>1, <1>2, QuietStep

LEMMA SenderQuiet ==
  ASSUME IInv, NEW s \in Slots, NEW n \in DOMAIN sender[s],
         SenderWait(s, n) \/ SenderSent(s, n) \/ SenderFail(s, n)
  PROVE  AnswerIsOwn'
<1>1. PICK state \in SenderStates : Sender(s, n, state)
  BY DEF SenderWait, SenderSent, SenderFail, SenderStates
<1>2. \A t \in Slots : Len(sender'[t]) = Len(sender[t])
  BY <1>1, SenderType DEF IInv
<1>3. \A t \in Slots : slot'[t] = "connecting" <=> slot[t] = "connecting"
  BY DecreaseType DEF IInv, SenderWait, SenderSent, SenderFail
<1>4. UNCHANGED queues /\ UNCHANGED receiver
  BY DEF SenderWait, SenderSent, SenderFail
<1> QED BY <1>2, <1>3, <1>4, QuietStep

LEMMA ReceiverQuiet ==
  ASSUME IInv, NEW s \in Slots, NEW n \in DOMAIN sender[s],
         ReceiverRead(s, n) \/ ReceiverFail(s, n)
  PROVE  AnswerIsOwn'
<1>1. \A t \in Slots : slot'[t] = "connecting" <=> slot[t] = "connecting"
  BY DecreaseType DEF IInv, ReceiverRead, ReceiverFail
<1>2. UNCHANGED queues /\ UNCHANGED sender
  BY DEF ReceiverRead, ReceiverFail
<1> QED BY <1>1, <1>2, QuietStep

\* Steps that leave the queue to the GameMaster alone.
LEMMA RequestsKept ==
  ASSUME IInv, game_master_queue' = game_master_queue,
         \A s \in Slots : Requests(s) # {} =>
           slot'[s] = slot[s] /\ Len(sender'[s]) = Len(sender[s])
  PROVE  \A s \in Slots : RequestOwn(s)' /\ Requests(s)' = Requests(s)
<1>1. ASSUME NEW s \in Slots, Requests(s) # {}
      PROVE  slot'[s] = "connecting" /\ Newest(s)' = Newest(s)
  <2>1. slot[s] = "connecting"
    BY <1>1 DEF IInv, AnswerIsOwn
  <2> QED BY <1>1, <2>1 DEF Newest, Serving
<1> QED BY <1>1, QueueKept

LEMMA SenderPopInv ==
  ASSUME IInv, NEW s \in Slots, NEW n \in DOMAIN sender[s], SenderPop(s, n)
  PROVE  AnswerIsOwn'
<1>1. PICK state \in SenderStates : Sender(s, n, state)
  BY DEF SenderPop, SenderStates
<1>2. \A t \in Slots : Len(sender'[t]) = Len(sender[t])
  BY <1>1, SenderType DEF IInv
<1>3. UNCHANGED <<game_master_queue, slot>>
  BY DEF SenderPop
<1>4. \A t \in Slots : RequestOwn(t)' /\ Requests(t)' = Requests(t)
  BY <1>2, <1>3, RequestsKept
<1>5. /\ \A t \in Slots \ {s} : Answers(t)' = Answers(t)
      /\ \A i \in Answers(s)' : i \in Int /\ i + 1 \in Answers(s)
  BY PoppedAnswers DEF IInv, SenderPop
<1>6. \A t \in Slots \ {s} : AnswerOwn(t)'
  BY <1>3, <1>4, <1>5, OwnParts DEF IInv, AnswerOwn
<1>7. AnswerOwn(s)'
  <2>1. \A i, j \in Answers(s)' : i = j
    BY <1>5, OwnParts DEF IInv, AnswerOwn
  <2>2. Answers(s)' # {} => Answers(s) # {}
    BY <1>5
  <2> QED BY <1>3, <1>4, <2>1, <2>2, OwnParts DEF IInv, AnswerOwn
<1> QED BY <1>4, <1>6, <1>7 DEF AnswerIsOwn, RequestOwn, AnswerOwn

LEMMA ConnectInv ==
  ASSUME IInv, NEW s \in Slots, client_connect(s)
  PROVE  AnswerIsOwn'
<1>1. /\ \A t \in Slots \ {s} : Answers(t)' = Answers(t)
      /\ \A i \in Answers(s)' : i \in Int /\ i + 1 \in Answers(s)
      /\ Head(server_queue[s]) = "RESET_SERVER" => Answers(s)' = {} /\ Answers(s) # {}
  BY PoppedAnswers DEF IInv, client_connect
<1>2. /\ game_master_queue' = game_master_queue
      /\ slot[s] = "connecting"
      /\ \A t \in Slots \ {s} : slot'[t] = slot[t] /\ sender'[t] = sender[t]
      /\ Head(server_queue[s]) # "RESET_SERVER" => UNCHANGED <<slot, sender>>
  BY DEF client_connect, StartThreads, IInv, TypeOK
<1>3. CASE Head(server_queue[s]) = "RESET_SERVER"
  <2>1. Requests(s) = {} /\ Answers(s)' = {}
    BY <1>1, <1>3 DEF IInv, AnswerIsOwn
  <2>2. \A t \in Slots : RequestOwn(t)' /\ Requests(t)' = Requests(t)
    BY <1>2, <2>1, RequestsKept
  <2>3. \A t \in Slots : AnswerOwn(t)'
    BY <1>1, <1>2, <2>1, <2>2, OwnParts DEF IInv, AnswerOwn
  <2> QED BY <2>2, <2>3 DEF AnswerIsOwn, RequestOwn, AnswerOwn
<1>4. CASE Head(server_queue[s]) # "RESET_SERVER"
  <2>1. \A t \in Slots : RequestOwn(t)' /\ Requests(t)' = Requests(t)
    BY <1>2, <1>4, RequestsKept
  <2>2. \A t \in Slots \ {s} : AnswerOwn(t)'
    BY <1>1, <1>2, <2>1, OwnParts DEF IInv, AnswerOwn
  <2>3. AnswerOwn(s)'
    <3>1. \A i, j \in Answers(s)' : i = j
      BY <1>1, OwnParts DEF IInv, AnswerOwn
    <3>2. Answers(s)' # {} => Answers(s) # {}
      BY <1>1
    <3> QED BY <1>2, <1>4, <2>1, <3>1, <3>2, OwnParts DEF IInv, AnswerOwn
  <2> QED BY <2>1, <2>2, <2>3 DEF AnswerIsOwn, RequestOwn, AnswerOwn
<1> QED BY <1>3, <1>4

LEMMA BroadcastInv ==
  ASSUME IInv, Broadcast
  PROVE  AnswerIsOwn'
<1>1. \A t \in Slots : RequestOwn(t)' /\ Requests(t)' = Requests(t)
  BY RequestsKept DEF Broadcast
<1>2. ASSUME NEW t \in Slots PROVE Answers(t)' = Answers(t)
  <2>1. server_queue'[t] = Append(server_queue[t], "SC_TURN")
    BY DEF Broadcast
  <2>2. "SC_TURN" \in ServerMessages
    BY DEF ServerMessages
  <2>3. /\ Len(server_queue[t]) \in Nat /\ DOMAIN server_queue[t] = 1 .. Len(server_queue[t])
        /\ DOMAIN server_queue'[t] = 1 .. Len(server_queue[t]) + 1
        /\ \A i \in 1 .. Len(server_queue[t]) : server_queue'[t][i] = server_queue[t][i]
        /\ server_queue'[t][Len(server_queue[t]) + 1] = "SC_TURN"
    BY <2>1, <2>2, QueueType, Appended DEF IInv
  <2> QED BY <2>3 DEF Answers
<1>3. \A t \in Slots : AnswerOwn(t)'
  BY <1>1, <1>2, OwnParts DEF Broadcast, IInv, AnswerOwn
<1> QED BY <1>1, <1>3 DEF AnswerIsOwn, RequestOwn, AnswerOwn

\* What a message at the end of the queue to the GameMaster changes.
LEMMA PushedRequests ==
  ASSUME TypeOK, NEW m \in GmMessages,
         NEW n, n = Len(game_master_queue),
         game_master_queue' = Append(game_master_queue, m)
  PROVE     /\ n \in Nat /\ DOMAIN game_master_queue = 1 .. n
            /\ DOMAIN game_master_queue' = 1 .. n + 1
            /\ \A i \in 1 .. n : game_master_queue'[i] = game_master_queue[i]
            /\ game_master_queue'[n + 1] = m
            /\ \A s \in Slots : Requests(s)' = Requests(s) \cup
                 (IF m.server = s /\ m.id = "RESET_SERVER" THEN {n + 1} ELSE {})
            /\ \A s \in Slots : Requests(s) \subseteq 1 .. n
<1>1. /\ n \in Nat /\ DOMAIN game_master_queue = 1 .. n
      /\ DOMAIN game_master_queue' = 1 .. n + 1
      /\ \A i \in 1 .. n : game_master_queue'[i] = game_master_queue[i]
      /\ game_master_queue'[n + 1] = m
  BY MessageType, Appended
<1>2. \A s \in Slots : Requests(s)' = Requests(s) \cup
        (IF m.server = s /\ m.id = "RESET_SERVER" THEN {n + 1} ELSE {})
  BY <1>1 DEF Requests
<1>3. \A s \in Slots : Requests(s) \subseteq 1 .. n
  BY <1>1 DEF Requests
<1> QED BY <1>1, <1>2, <1>3

LEMMA ConfigureInv ==
  ASSUME IInv, NEW s \in Slots, Configure(s)
  PROVE  AnswerIsOwn'
<1> DEFINE m == Request(s, Newest(s))
<1>0. PICK n : n = Len(game_master_queue)
  OBVIOUS
<1>1. m \in GmMessages /\ m.server = s /\ m.id = "RESET_SERVER" /\ m.of = Newest(s)
  BY Indices DEF IInv, Request, GmMessages
<1>2. game_master_queue' = Append(game_master_queue, m)
  BY DEF Configure
<1> HIDE DEF m
<1>3. /\ n \in Nat /\ DOMAIN game_master_queue = 1 .. n
      /\ DOMAIN game_master_queue' = 1 .. n + 1
      /\ \A i \in 1 .. n : game_master_queue'[i] = game_master_queue[i]
      /\ game_master_queue'[n + 1] = m
      /\ \A t \in Slots : Requests(t)' = Requests(t) \cup (IF t = s THEN {n + 1} ELSE {})
      /\ \A t \in Slots : Requests(t) \subseteq 1 .. n
  BY <1>0, <1>1, <1>2, PushedRequests DEF IInv
<1>4. /\ slot[s] = "configuring" /\ slot'[s] = "connecting"
      /\ \A t \in Slots \ {s} : slot'[t] = slot[t]
      /\ UNCHANGED <<sender, server_queue>>
  BY DEF Configure, IInv, TypeOK
<1>5. Requests(s) = {} /\ Answers(s) = {}
  BY <1>4 DEF IInv, AnswerIsOwn
<1>6. \A t \in Slots : Newest(t)' = Newest(t)
  BY <1>4 DEF Newest, Serving
<1>7. \A t \in Slots : Answers(t)' = Answers(t)
  BY <1>4 DEF Answers
<1>8. Requests(s)' = {n + 1}
  BY <1>3, <1>5
<1>9. ASSUME NEW t \in Slots PROVE RequestOwn(t)' /\ AnswerOwn(t)'
  <2>1. CASE t = s
    BY <1>1, <1>3, <1>4, <1>5, <1>6, <1>7, <1>8, <2>1 DEF RequestOwn, AnswerOwn
  <2>2. CASE t # s
    <3>1. Requests(t)' = Requests(t)
      BY <1>3, <2>2
    <3>2. \A i \in Requests(t) : game_master_queue'[i] = game_master_queue[i]
      BY <1>3
    <3> QED BY <1>4, <1>6, <1>7, <2>2, <3>1, <3>2, OwnParts
            DEF IInv, RequestOwn, AnswerOwn
  <2> QED BY <2>1, <2>2
<1> QED BY <1>9, OwnParts DEF AnswerIsOwn, RequestOwn, AnswerOwn

LEMMA ReceiverPushInv ==
  ASSUME IInv, NEW s \in Slots, NEW n \in DOMAIN sender[s], ReceiverPush(s, n)
  PROVE  AnswerIsOwn'
<1>0. PICK l : l = Len(game_master_queue)
  OBVIOUS
<1>1. PICK m \in GmMessages : /\ game_master_queue' = Append(game_master_queue, m)
                             /\ m.server = s /\ m.id # "RESET_SERVER"
  BY PushedMessage DEF IInv
<1>2. /\ DOMAIN game_master_queue = 1 .. l
      /\ \A i \in 1 .. l : game_master_queue'[i] = game_master_queue[i]
      /\ \A t \in Slots : Requests(t)' = Requests(t)
      /\ \A t \in Slots : Requests(t) \subseteq 1 .. l
  <2>1. /\ DOMAIN game_master_queue = 1 .. l
        /\ \A i \in 1 .. l : game_master_queue'[i] = game_master_queue[i]
        /\ \A t \in Slots : Requests(t)' = Requests(t) \cup
             (IF m.server = t /\ m.id = "RESET_SERVER" THEN {l + 1} ELSE {})
        /\ \A t \in Slots : Requests(t) \subseteq 1 .. l
    BY <1>0, <1>1, PushedRequests DEF IInv
  <2> QED BY <1>1, <2>1
<1>3. UNCHANGED <<slot, sender, server_queue>>
  BY DEF ReceiverPush
<1>4. \A t \in Slots : Newest(t)' = Newest(t) /\ Answers(t)' = Answers(t)
  BY <1>3 DEF Newest, Serving, Answers
<1>5. ASSUME NEW t \in Slots PROVE RequestOwn(t)' /\ AnswerOwn(t)'
  <2>1. \A i \in Requests(t) : game_master_queue'[i] = game_master_queue[i]
    BY <1>2
  <2> QED BY <1>2, <1>3, <1>4, <2>1, OwnParts DEF IInv, RequestOwn, AnswerOwn
<1> QED BY <1>5 DEF AnswerIsOwn, RequestOwn, AnswerOwn

\* What taking the first message of the queue to the GameMaster changes.
LEMMA TakenRequests ==
  ASSUME TypeOK, game_master_queue # <<>>, NEW n, n = Len(game_master_queue),
         game_master_queue' = Tail(game_master_queue)
  PROVE  /\ n \in Nat \ {0} /\ DOMAIN game_master_queue = 1 .. n
         /\ DOMAIN game_master_queue' = 1 .. n - 1
         /\ \A i \in 1 .. n - 1 : game_master_queue'[i] = game_master_queue[i + 1]
         /\ \A s \in Slots : \A i \in Requests(s)' : i \in 1 .. n - 1 /\ i + 1 \in Requests(s)
<1>1. /\ n \in Nat \ {0} /\ DOMAIN game_master_queue = 1 .. n
      /\ DOMAIN game_master_queue' = 1 .. n - 1
      /\ \A i \in 1 .. n - 1 : game_master_queue'[i] = game_master_queue[i + 1]
  BY MessageType, HeadIsFirst
<1>2. ASSUME NEW s \in Slots, NEW i \in Requests(s)'
      PROVE  i \in 1 .. n - 1 /\ i + 1 \in Requests(s)
  <2>1. i \in 1 .. n - 1 /\ game_master_queue'[i].server = s
        /\ game_master_queue'[i].id = "RESET_SERVER"
    BY <1>1 DEF Requests
  <2>2. i + 1 \in 1 .. n
    BY <1>1, <2>1
  <2> QED BY <1>1, <2>1, <2>2 DEF Requests
<1> QED BY <1>1, <1>2

LEMMA MainLoopInv ==
  ASSUME IInv, MainLoop
  PROVE  AnswerIsOwn'
<1>0. PICK n : n = Len(game_master_queue)
  OBVIOUS
<1>1. /\ n \in Nat \ {0} /\ DOMAIN game_master_queue = 1 .. n
      /\ DOMAIN game_master_queue' = 1 .. n - 1
      /\ \A i \in 1 .. n - 1 : game_master_queue'[i] = game_master_queue[i + 1]
      /\ \A s \in Slots : \A i \in Requests(s)' : i \in 1 .. n - 1 /\ i + 1 \in Requests(s)
  BY <1>0, TakenRequests DEF IInv, MainLoop
<1>2. UNCHANGED <<slot, sender>>
  BY DEF MainLoop
<1>3. \A t \in Slots : Newest(t)' = Newest(t)
  BY <1>2 DEF Newest, Serving
<1>4. ASSUME NEW t \in Slots PROVE RequestOwn(t)'
  <2>1. \A i, j \in Requests(t)' : i = j
    <3> SUFFICES ASSUME NEW i \in Requests(t)', NEW j \in Requests(t)' PROVE i = j
      OBVIOUS
    <3>1. i \in 1 .. n - 1 /\ j \in 1 .. n - 1
      BY <1>1
    <3>2. i + 1 = j + 1
      BY <1>1 DEF IInv, AnswerIsOwn
    <3> QED BY <1>1, <3>1, <3>2
  <2>2. Requests(t)' # {} => slot'[t] = "connecting"
    BY <1>1, <1>2 DEF IInv, AnswerIsOwn
  <2>3. \A i \in Requests(t)' : game_master_queue'[i].of = Newest(t)'
    BY <1>1, <1>3 DEF IInv, AnswerIsOwn
  <2> QED BY <2>1, <2>2, <2>3 DEF RequestOwn
\* The answer to a request that was the first message: there was no other, and
\* no answer yet.
<1>5. ASSUME NEW t \in Slots, 1 \in Requests(t)
      PROVE  AnswerOwn(t)'
  <2>1. Answers(t) = {} /\ slot[t] = "connecting"
    BY <1>5 DEF IInv, AnswerIsOwn
  <2>2. Requests(t)' = {}
    <3>1. \A i \in Requests(t)' : i \in 1 .. n - 1 /\ i + 1 = 1
      BY <1>1, <1>5 DEF IInv, AnswerIsOwn
    <3> QED BY <1>1, <3>1
  <2>3. server_queue'[t] = server_queue[t] \o <<"RESET_SERVER", "SC_HELLO">>
    <3>1. Head(game_master_queue) = game_master_queue[1]
      BY HeadIsFirst, MessageType DEF MainLoop, IInv
    <3> QED BY <1>5, <3>1 DEF MainLoop, Requests, IInv, TypeOK
  <2> DEFINE l == Len(server_queue[t])
             a == <<"RESET_SERVER", "SC_HELLO">>
  <2>4. /\ server_queue[t] \in Seq(ServerMessages) /\ l \in Nat
        /\ DOMAIN server_queue[t] = 1 .. l
    BY QueueType DEF IInv
  <2>5. a \in Seq(ServerMessages) /\ Len(a) = 2 /\ a[1] = "RESET_SERVER" /\ a[2] = "SC_HELLO"
    BY DEF ServerMessages
  <2> HIDE DEF a
  <2>6. /\ Len(server_queue'[t]) = l + 2
        /\ DOMAIN server_queue'[t] = 1 .. Len(server_queue'[t])
        /\ \A i \in 1 .. l + 2 : server_queue'[t][i] =
             IF i <= l THEN server_queue[t][i] ELSE a[i - l]
    <3>1. server_queue'[t] = server_queue[t] \o a
      BY <2>3 DEF a
    <3>2. /\ server_queue[t] \o a \in Seq(ServerMessages)
          /\ Len(server_queue[t] \o a) = l + 2
          /\ \A i \in 1 .. l + 2 : (server_queue[t] \o a)[i] =
               IF i <= l THEN server_queue[t][i] ELSE a[i - l]
      <4>1. a \in Seq(ServerMessages)
        BY <2>5
      <4>2. /\ server_queue[t] \o a \in Seq(ServerMessages)
            /\ Len(server_queue[t] \o a) = l + Len(a)
            /\ \A i \in 1 .. l + Len(a) : (server_queue[t] \o a)[i] =
                 IF i <= l THEN server_queue[t][i] ELSE a[i - l]
        BY <2>4, <4>1, ConcatProperties
      <4>3. Len(a) = 2
        BY <2>5
      <4> QED BY <4>2, <4>3
    <3>3. DOMAIN (server_queue[t] \o a) = 1 .. Len(server_queue[t] \o a)
      BY <3>2, LenProperties
    <3> QED BY <3>1, <3>2, <3>3
  <2>7. \A i \in 1 .. l : server_queue[t][i] # "RESET_SERVER"
    BY <2>1, <2>4 DEF Answers
  <2>8. ASSUME NEW i \in Answers(t)' PROVE i = l + 1
    <3>1. i \in 1 .. l + 2 /\ server_queue'[t][i] = "RESET_SERVER"
      BY <2>6, <2>8 DEF Answers
    <3>2. CASE i \in 1 .. l
      BY <2>4, <2>6, <2>7, <3>1, <3>2
    <3>3. CASE i = l + 2
      <4>1. server_queue'[t][i] = a[2]
        BY <2>4, <2>6, <3>1, <3>3
      <4> QED BY <2>5, <3>1, <4>1
    <3> QED BY <2>4, <3>1, <3>2, <3>3
  <2> HIDE DEF l
  <2> QED BY <1>2, <2>1, <2>2, <2>8 DEF AnswerOwn
<1>6. ASSUME NEW t \in Slots, 1 \notin Requests(t)
      PROVE  AnswerOwn(t)'
  <2>1. server_queue'[t] = server_queue[t]
    <3>1. Head(game_master_queue) = game_master_queue[1] /\ 1 \in DOMAIN game_master_queue
      BY HeadIsFirst, MessageType DEF MainLoop, IInv
    <3> QED BY <1>6, <3>1 DEF MainLoop, Requests, IInv, TypeOK
  <2>2. Answers(t)' = Answers(t)
    BY <2>1 DEF Answers
  <2>3. Requests(t) = {} => Requests(t)' = {}
    BY <1>1
  <2> QED BY <1>2, <2>2, <2>3, OwnParts DEF IInv, AnswerOwn
<1> QED BY <1>4, <1>5, <1>6 DEF AnswerIsOwn, RequestOwn, AnswerOwn

LEMMA InitInv == Init => IInv
<1>1. Init => TypeOK
  BY InitType
<1>2. \A S : <<>> \in Seq(S) /\ DOMAIN <<>> = {}
  BY EmptySeq
<1>3. Init => AnswerIsOwn
  BY <1>2 DEF Init, AnswerIsOwn, Requests, Answers
<1> QED BY <1>1, <1>3 DEF IInv

LEMMA NextInv == IInv /\ [Next]_vars => IInv'
<1> SUFFICES ASSUME IInv, [Next]_vars PROVE AnswerIsOwn'
  BY NextType DEF IInv
<1>1. CASE \E s \in Slots : SlotStep(s) \/ Spurious(s) \/ Leave(s)
  BY <1>1, SlotQuiet, ConfigureInv, ConnectInv DEF SlotStep
<1>2. CASE \E s \in Slots : \E n \in DOMAIN sender[s] : ThreadStep(s, n)
  BY <1>2, SenderQuiet, SenderPopInv, ReceiverQuiet, ReceiverPushInv DEF ThreadStep
<1>3. CASE Knock
  <2>1. UNCHANGED queues /\ UNCHANGED <<slot, sender>>
    BY <1>3 DEF Knock
  <2> QED BY <2>1, QuietStep
<1>4. CASE MainLoop
  BY <1>4, MainLoopInv
<1>5. CASE Broadcast
  BY <1>5, BroadcastInv
<1>6. CASE UNCHANGED vars
  <2>1. UNCHANGED queues /\ UNCHANGED <<slot, sender>>
    BY <1>6 DEF vars
  <2> QED BY <2>1, QuietStep
<1> QED BY <1>1, <1>2, <1>3, <1>4, <1>5, <1>6 DEF Next

\* However slots, outlived threads and clients interleave, there is never a
\* request or an answer of an earlier client about when client_connect waits.
THEOREM AnswersAreOwn == Spec => []AnswerIsOwn
<1>1. IInv => AnswerIsOwn
  BY DEF IInv
<1> QED BY <1>1, InitInv, NextInv, PTL DEF Spec
=============================================================================
