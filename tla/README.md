# BombIt in TLA+

BombIt is a server and a client for a game of robots that place bombs and
blocks. The server (`bomb-it-server.cpp`) runs one game at a time for up to 25
TCP clients; the client (`bomb-it-client.cpp`) sits between the server and a gui
it talks UDP to. This directory holds a model of both, checked with TLC on small
instances, and proofs of its main invariants checked with TLAPS.

## The system

| Part | State | Operations | Talks to | What makes it correct |
| --- | --- | --- | --- | --- |
| `GameMaster` (server) | `game_state`, `game_turns`, `playing_servers`, `players`, `blocks`, `bombs`, `bomb_count`, `current_turn`, under one mutex | `handle_server_message` (join, move, bomb, block, reset), `make_turn` | called by the main loop and by the clock thread; pushes to all server queues | seats are distinct, a game is on exactly when the lobby is full, no turn in the lobby, no turn missing from the history, fuses are exact, every game ends |
| Server slots (`handle_servers`) | 25 threads, each with its socket, a latch, a sender and a receiver thread | accept, `client_connect`, `send_to_client`, `receive_from_client`, disconnect | push to `game_master_queue`, pop from their own queue | a new client gets nothing of its predecessor's, neither messages nor its seat, and if its predecessor's threads still run, nothing but what they leave it or take from it; a client that goes is noticed, one that comes is accepted |
| `BlockingQueue` | a queue, a mutex, a condition variable | `push`, `pop` | all threads of the server | no wakeup is lost |
| `Latch` | a counter | `decrease`, `wait` | one per connection | the slot goes on when either thread fails |
| Client state (`GameHandler`, `LobbyHandler`) | players, positions, blocks, bombs, explosions, scores | `set_gamers`, `handle_turn`, `add_player` | fed by the server's messages only | shows what the server has |
| Client threads | `game_state` shared by two threads | `from_server_to_gui`, `from_gui_to_server` | server (TCP), gui (UDP) | follows the server's state |
| `DatagramReader` / `DatagramWriter`, sockets | a buffer and a position | read and write of the message types | both programs | what is written is read, however it is cut up |
| Gui input | none | `validate_gui_message`, forwarding | gui (UDP), server (TCP) | what the gui meant is what the server does; valid input is accepted |
| `parse_parameters`, `command_parser` | none after the start | | | |

Hard to test here: two threads in `GameMaster`, with a sleep outside the mutex
between a test and its use; a condition variable that must not be missed; the
history pushed to a late client while the clock pushes new turns; slots whose
queues survive their clients; two copies of the rules (server and client) that
handle the same events in a different order; and unsigned 16-bit counters and
coordinates that wrap. `PROJECT.json` lists each place with the properties about
it.

## Modules

    Board            geometry, explosions in closed form, fuses
      Turn             one turn: events and the world after it      (server)
        GameMaster       lobby, seats, games, clock                 (server)
          GameCycle        what it promises: lobby, turns, lobby, ...
          LateJoin         the history, as a client understands it
            GameMasterMC
          Session          clients, slots, main loop
            SessionMC
        Replica          one game and one client that follows it
      GameHandler      the client's picture of a game               (client)
      ExplosionLoop    the loops behind the closed form
    BlockingQueue    the queues between the threads
    ServerSlot       the threads behind a client, Latch and accept mutex
    Wire             messages as bytes, DatagramWriter and DatagramReader
      ClientInput      both directions of a connection, input of the gui
        ClientInputMC

Proofs are in modules of their own: `TurnProofs`, `GameMasterProofs`,
`SessionProofs`, `ReplicaProofs`, `ExplosionLoopProofs`, `BlockingQueueProofs`,
`ServerSlotProofs` and `ClientInputProofs`.

**Board, Turn.** A world is a record with `players`, `blocks`, `bombs` and
`bomb_count`. `make_turn` is split into the sets the code computes
(`Exploding`, `DestroyedBlocks`, `DestroyedRobots`, `Moving`, `PlacedBombs`, ...)
and the world and the events they make (`Played`, `TurnEvents`). The events of a
turn are a record instead of a list: the code pushes all explosions first and at
most one event per player after them, and events inside each group concern
different bombs, players or fields, so their order tells a reader nothing. `GameHandler` keeps
the order that does matter: explosions are worked out on the blocks before the
turn, and blocks are erased after everything else. Coordinates and timers are
taken modulo `CoordMod` and `TimeMod`, both 65536 in the code, so `p.x--` wraps.

**ExplosionLoop** runs `handle_explosions` iteration by iteration for every bomb
and every set of blocks; it is the same code in server and client.

**GameMaster.** Every critical section of the mutex is one action: each branch
of `handle_server_message`, the clock's first section (`ClockCheck`) and its
second (`make_turn`), with the sleep between them as a state of its own
(`clock = "sleeping"`). The wait on `for_game` is `clock = "parked"`, left by a
notification or a spurious wakeup. `random_position` is any field. The queues of
the servers are part of the state; `ServerPop` stands for whoever empties them.
Players and turns count from 1 where they index a vector (the code: from 0).

**GameCycle** is the abstract specification of `GameMaster`: seats taken, turns
played. A seat is taken at a time, the last one starts the game with turn 0,
turns follow one at a time up to the last, which empties the lobby. `IsGameCycle`
maps it to the lengths of `players` and `game_turns`; resets, actions, late
clients and the clock's tests and wakeups are stutters.

**Session** adds the slots, `game_master_queue`, the main loop and the client
programs. A slot is `accepting`, `resetting` (in `client_connect`) or `serving`.
A message on its way to a client counts as still in the slot's queue; what a
client sends waits in its `sent` until the receiver pushes it on. The gui thread
of a client tests its state twice, as in the code, and the other thread may
change it between (`GuiInput`, `GuiForward`). A client may be closed at any time.
A slot that goes on to its next client has interrupted its two threads and joined
neither. What they may still do to that client is `OutlivedSender`: take a message
of the queue, the answer to the reset too, or send the client one; and
`OutlivedReceiver`: push a JOIN or a command at any time, or take one the client
has sent. This covers `ServerSlot` and more, because much of it is undefined: any
message is one such a receiver may push. A client whose messages were tampered with
is `MISLED`, about which nothing more is said than that it may send anything, and
`spoken_for` marks one that a receiver got in the way of. An outlived thread may also
end the connection (`Disconnect`). That it may end the process is left to
`ServerSlot`: what Session says is about the time before.

**ServerSlot** has the threads behind a slot of Session. A slot's thread locks the
accept mutex, accepts, configures the socket (which throws, uncaught, if the client
has already gone), waits for the answer in `client_connect`, starts the two threads
and waits on the latch (`checking`, `parked`). Thread `n` of a slot is that of its
`n`-th client; `Current` says whether it is still the one the slot waits for.
The sender's steps are those of `send_to_client` around `pop`, where alone an
interruption takes effect (`SenderWait`); the receiver has no interruption point.
A thread that is outlived refers to what was on the stack of the slot's loop.
That is undefined, and the model allows what the build can make of it: a reader
that still has bytes in its buffer, or the next client's reader in the same
place, from which both take bytes and into which a read that was under way may still
put some, so that what is read is anybody's; a write that goes nowhere
or to the next client; a latch that takes no notice, is the next client's, or whose
destroyed mutex throws and ends the process (`down`). The GameMaster is what it
pushes: an answer to each reset, and messages for all at any time. Ids of messages
stand for their contents; `of` records whose request it is, and nothing reads it but
the properties.

**Wire** sends fields as bytes. A field is its size and its value; a writer
appends it to its buffer after sending what has no room, a reader takes it from
as many reads as it needs, and its value (an id, a length, a count) is all the
reader has to tell what is next. **ClientInput** has the server's messages for
the client in one direction, and in the other what the client makes of the gui's
datagrams and what the server's receiver makes of that. The state of the client,
which decides between JOIN and a command, is Session's and free here. The types
of the messages are those of `message_types.h`, with numbers that fit their bytes
(`MessageAssumption`).

**Replica** is the smallest composition of server rules and client: one game,
any actions each turn, one client that handles every turn.

**BlockingQueue** has one step for each time a thread holds the mutex, and the
set of threads that wait.

A definition under a comment `Slip:` is no part of the model: it is the next
definition with a mistake the code could well have made. Each property of a
passing run has one of them that breaks it (`mutants` in `PROJECT.json`).

## Runs

| Run | Instance | Questions |
| --- | --- | --- |
| `explosion_loop` | 3 x 3, radius 2, all blocks, all bombs | the loops equal the closed form (`LoopIsClosedForm`); an explosion is exactly the fields in line and range that no block shields (`ExplosionIsExposure`) |
| `replica_line` | 3 x 1, 2 players, 2 bombs, fuse 1 | client and server agree after every turn (`Agreement`), ids and timers (`BombsFresh`), what is shown as exploding (`ExplosionsShown`), scoring (`OneScorePerTurn`) |
| `game_master_lobby` | 3 servers, games of 2, several games | `SeatsDistinct`, `GameIsFull`, `NoTurnInLobby`, `TurnsNumbered`, `NothingMissed`, `ScoresSent`; games go through their cycle (`IsGameCycle`, the refinement of `GameCycle`) |
| `game_master_game` | 2 x 1, 1 player, 6 turns, timer 0, `TimeMod` 3, fair clock | a bomb explodes when its timer is due, also one of 0 that wraps first (`FuseExact`); the history rebuilds the game at any time (`HistoryReplays`); every game ends (`GamesEnd`) |
| `session_one` | 1 slot, clients of 2 names, games of 1, outlived threads | the seat is the client's own unless an outlived receiver got in its way (`SeatIsOwn`); the picture (`ClientsFollow`) and scores (`ScoresAgree`) of a client that was not misled are the server's |
| `session_pair` | 2 slots, games of 2 | `ClientsFollow` with players that leave and others that watch; a client only exits if it connected during a game (`OnlyLateClientsExit`) |
| `session_late` | 2 slots, games of 1 | violated: see Findings |
| `blocking_queue` | 3 threads pop, 4 messages | `NoLostWakeup`, `MessagesTaken` |
| `server_slot` | 2 slots, 2 clients, fair | the answer a client waits for is its own (`AnswerIsOwn`) and comes unless a sender outlived its client (`AnsweredUnlessOutlived`); a client that goes is noticed (`GoneIsNoticed`), one that comes accepted while a slot is free (`BacklogTaken`) |
| `slot_answer` | 1 slot, 2 clients, fair | violated: see Findings |
| `client_input` | messages of each kind, events of each kind, 3 commands | `ReadAsWritten`, `AllRead`; the server's main loop gets what the gui meant (`CommandsArrive`), and only a direction that is negative as a `char` ends a connection (`OnlyNegativeMovesThrow`) |
| `gui_valid` | the same | violated: see Findings |

**Bounds.** `QueueBound`: in `GameMaster` no join or reset is handled while a
server queue is longer (turns are always pushed), so queues hold up to a game and
a half; in `Session` it only holds back the users' input. `GmQueueBound` and
`SentBound` hold back input while that much is under way. `MaxBombs` ends the
placing of bombs in `Replica`, `Capacity` the pushing in `BlockingQueue`.
`GameLength` and `TurnMod` are small so that games end and the next one starts;
two bombs are enough for one robot to be hit twice, for a bomb in the range of
another, and for a field freed and taken in one turn; two slots for a seat to
change hands while the other plays. In `ServerSlot`, `MaxClients` ends the
connecting, `QueueBound` the messages for all and `GmQueueBound` the reading of
clients' messages while that many are under way (requests are always pushed, and
what was read before); two clients are one that is outlived and its successor, or two
slots at once. `OutlivedBound` is how many steps outlived threads of a slot take after
each disconnection in `Session`: one in `session_one`, which is enough for an
answer taken, a JOIN pushed behind the reset or a connection ended, and
none in `session_pair` and `session_late`, whose question is what clients do to each
other (the proofs leave it open). In `ClientInput`, no message is begun
after `MaxFields` fields and no command after `MaxCommands`; the buffer of 6 bytes
(`DatagramSize`) is shorter than HELLO and a turn and longer than a field, so it
fills in the middle of a message; a byte (`ByteMod`) has 16 values,
of which 8 to 15 are negative as a `char`, and numbers of 2 and 4 bytes use more
than one. No fault of the rules needs more than two
players or bombs at a time, and where the size matters the theorems below have
no bound.

**Fairness.** `GamesEnd`: the clock thread gets the mutex in the end; nothing is
asked of the wakeups except the notification, and nothing of clients.
`MessagesTaken`: a
thread inside `pop` that does not wait gets the mutex. `ServerSlot`: a slot's
thread goes on when it can and some slot gets the free mutex, the main loop takes
messages, and a receiver whose client has gone pushes what it has read and, since
what such a client has left to be read is finite, fails in the end (strong fairness:
it cannot go on reading for ever).
Nothing is asked of senders: a client that does not read holds one up for ever.
`AllRead`: the programs write what they have begun and read what arrives, each a
loop in a thread of its own. Users, clients and the network owe nothing.

Deadlock is not checked where the code may stop: the calls of `explosion_loop`
return, the server of `ServerSlot` may be terminated and its clients run out, and
the connection of `ClientInput` may be given up and its messages run out.

## Proofs

Proved by TLAPS for every value of the constants their assumptions admit.

* `TurnProofs`: from a world with robots, blocks and bombs on the board and
  timers in range, a turn leads to such a world (`PlayedWorld`). The lemmas say
  why: an arm of an explosion and a step are cut off by `is_position_valid`, also
  after a wrap (`ShiftPosition`, `ValidPositions`), and the ids of new bombs lie
  between the old and the new `bomb_count` (`PlacedIds`). `TurnAgrees`: whoever
  shows a world and handles a turn's events shows the world after it; this serves
  `Replica`, `LateJoin` and `Session` alike. Its heart is `DestroyedNotPlaced`: a
  robot on a destroyed block is destroyed too and then places none, so the order
  of erasing and inserting does not matter. `SetInduction` is induction on the
  set of numbers that have a property: with it, what a fold with a given operator
  computes can be proved, one named operator at a time.
* `GameMasterProofs`: `IInv` is the conjunction of `TypeOK`, `SeatsDistinct`,
  `GameIsFull`, `NoTurnInLobby` and `TurnsNumbered`. None is inductive alone: a
  turn keeps the types only because it is not played in a lobby, where a robot
  has no position; that it is not rests on only `make_turn` ending a game, and on
  the clock's test; a seat is a valid index because players only grow until all seats
  are cleared. Each conjunct is a theorem of its own. From `IInv` follows that every
  queue ends with the right scores when the lobby is back
  (`ScoresReachAll`: only the last turn leads there). `FuseExact` needs `FuseInv`:
  every bomb is one of a turn less than `Fuse` back, its timer is what as many
  ticks leave, in the arithmetic of `game_time_t` (`FuseTicks`), and ids below
  `bomb_count` are not given out again (`FusesAreExact`). `NothingMissed` is
  inductive on top of `IInv` (`NobodyMisses`): a queue and the current messages grow
  by the same message, or a message that is a fresh start is followed by all of them.
  `HistoryReplays` (`HistoriesReplay`) rests on `HistoryInv`: in a game, whoever
  handled all recorded turns shows what the server has. `TurnFolds` says what one turn
  more does to the fold; the first turn, which places the robots on an empty view,
  is a case of its own (`StartAgrees`).
  `GameMaster` implements `GameCycle` (`GamesGoThroughCycle`) if `current_turn` can
  exceed the length at all. `IInv` gives that a join only adds to a lobby that is not
  full and that a turn is only played in a game; the invariant `CInv` adds that the
  turns so far are as many as `current_turn` says and not more than the game has.
* `ReplicaProofs`: `TypeOK` and `Agreement` are inductive together
  (`ClientAgrees`, from `TurnAgrees`). `BombsStayFresh`, `ExplosionsAreShown` and
  `ScoresOnce` follow from them; the last needs fresh ids, since a new bomb with
  the id of an exploded one would seem not to have gone.
* `ExplosionLoopProofs`: the loop invariant `LoopInv` says that `explosions`
  holds the stripes of the arms that are done and the running arm's fields up to
  the scanner; at the end that is the closed form (`LoopsAreClosedForm`), for
  boards of every size. It needs that single steps add up although the
  coordinates wrap (`ShiftAgain`). That the closed form is what an explosion means
  (`ExplosionsAreExposure`) rests on `ArmOnBoard`: before the first step that wraps
  lies one that is not on the board, because no board has the largest coordinate;
  without a wrap, lines and what lies between are plain arithmetic.
* `SessionProofs`: the slots, the main loop and the clients drive `GameMaster`
  through calls that are steps of its own, so `IInv` holds there too
  (`GameMasterInSession`). `SInv` adds what each state of a slot says about the
  queues: an accepting slot has neither asked for a reset nor been answered; while
  it is resetting, the request is behind all that earlier clients sent, and once it
  is taken nothing of theirs is left and the seat is free; a serving slot has only
  its client's own JOINs under way. The last two hold unless a receiver of an earlier
  client has got in the way since this one was accepted; outlived senders disturb
  neither, whatever they take. From it `SeatsAreOwn`.
  `FollowInv` follows what a client shows. `ClientsFollow` says that a client that
  has handled its whole queue is up to date, which no step preserves by itself:
  the invariant says it of every queue that is still to be handled. There is a
  sequence of faces (state, roster and view of a client), each from the one before by
  the next message (`Handled`), the first what the client shows, the last up to date
  or exited (`Owed`); while a slot is resetting the first is a fresh client's, and the
  messages are those behind the answer. Whoever pushes adds a face
  at the end (`JoinCarries`, `StartCarries`, `TurnCarries`, `EndCarries`), a reset
  adds all messages of the lobby or the game (`WelcomeFaces`), a client that handles
  one drops the first (`FaceHandled`, which holds of every branch of
  `handle_message`). `MessagesFolded` leads back to the fold of the property. From it
  `ClientsAreKept`, `ScoresAgreeAlways` and `OnlyLateExit`: the only message that
  meets a client in the wrong state is the TURN of a game it was not told of.
* `ServerSlotProofs`: `AnswerIsOwn`, which `server_slot` checks for two clients, for
  any number of slots and clients (`AnswersAreOwn`). It is inductive with `TypeOK`: a
  request is only pushed by a slot that has neither a request nor an answer about, the
  main loop makes the one into the other, and an outlived sender can only take it.
* `BlockingQueueProofs`: `NoLostWakeup` with `TypeOK` is inductive for every
  finite set of threads (`NoWakeupIsLost`).
* `ClientInputProofs`: `ReadAsWritten`, `CommandsArrive` and
  `OnlyNegativeMovesThrow` for messages of every kind with lists of every length,
  every `DatagramSize`, and connections of every length. None is inductive: that the next
  field is read as it was written rests on the bytes in flight and on what the
  reader believes to come next. `WireInv` has both. `BytesInv`: the bytes of the field
  begun, of the reader's buffer, on their way and in the writer's buffer are, end to
  end, the fields written and not yet read. `ParseInv`: a `Chain` over all fields of all
  messages begun, in which each field has the size the stack of reads before it asks for
  and its value makes the next stack, leads from HELLO or the command loop back
  to the loop; the reader stands somewhere on it, and what was pushed by then is
  recorded along it. `Chain` comes from `ParsesMessage`, `ParsesHello` and the three
  command lemmas: what `send_to_client` writes is what `from_server_to_gui` and
  `handle_turn` read, list in list. `RoundTrip` is that `Decode` undoes `Encode`. The
  name of no letters needs care, because it has a field without bytes, which
  is complete before it is written: `WriterInv` says that such a field follows others in
  the writer's buffer, so that the reader has not got there yet (`WrittenBefore`).

Only model-checked: everything temporal under fairness (`GamesEnd`,
`MessagesTaken`, `AllRead`, and of `ServerSlot`
`AnsweredUnlessOutlived`, `GoneIsNoticed`, `BacklogTaken`), which TLAPS does not
do. Every invariant and every action property of a passing run is a theorem.

Assumptions: sizes from 1 (the parser admits 0, and the server then divides by
zero), a `PlayersCount` from 1 (with 0 the lobby never fills), a `--player-name` no
longer than its length byte can say, everything else as wide as its type.

## Findings

`session_late`: `reset_server` builds GAME_STARTED for a client that connects
during a game and does not push it (`bomb-it-server.cpp:539`). The client, in its
lobby, skips the first byte of the TURN that follows, reads on in the middle of
it and exits with "Wrong message from server" (`bomb-it-client.cpp:475`, `:488`).
`OnlyLateClientsExit` shows that no other message ever meets a client in the
wrong state, and `HistoryReplays` that with GAME_STARTED the turns it is sent
would be enough.

`slot_answer`: a slot interrupts its sender and does not join it
(`bomb-it-server.cpp:925`). A sender that is not waiting in `pop` at that moment
may still take messages from the slot's queue, the answer to the reset for the
next client among them, which it drops (`:362`). `client_connect` then waits for
ever, its client is never greeted and the slot is lost.
`AnsweredUnlessOutlived` shows that nothing else takes the answer.

Nor is the receiver joined (`:926`), and it has no interruption point. A JOIN it has
read may reach the main loop behind the reset for the next client (`:235`), which is
meant to detach the slot from the player whose client sent JOIN (`:516`). The slot
then has a seat again, the new client controls a player of the old one's name, and
its own JOIN is ignored (`:588`). No run is about this alone: it is the case
`SeatIsOwn` excepts, and the property shows that nothing but an outlived receiver
makes a slot control another's player.

`gui_valid`: `validate_gui_message` compares a `char` with `MAX_DIRECTION`
(`bomb-it-client.cpp:137`). Where `char` is signed, a direction byte above 127
passes, and the server, which reads it unsigned, ends the connection (`:246` of
the server). `OnlyNegativeMovesThrow` shows that this is the only datagram that
does. Where `char` is unsigned the two agree; the model has it signed, as
it is on x86.

A `GameLength` of 65535 never ends (`current_turn` wraps); `GamesEnd` leaves it
out.

## Not modelled, and the plan

Session bounds from above what outlived threads do instead of following them one by
one, as `ServerSlot` does with a GameMaster reduced to its answers; the product of the
two is out of TLC's reach. What undefined behaviour does beyond the outcomes named
above, a corrupted stack for instance, is not modelled.

What is left, in this order:

1. An abstract protocol of one client (lobby, game, lobby, ...), implemented by
   `Session` under a refinement mapping.
2. A `--player-name` longer than its length byte, once it is said what should
   happen to it.

Left out for good: the command line, which runs once and fills the constants;
the sockets themselves, whose failures are disconnections; a TCP send that
returns early; the contents of names; and the GAME and LOBBY datagrams, which
copy the client's state to a gui that is not in the repository.
