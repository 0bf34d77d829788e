----------------------------- MODULE GameCycle -----------------------------
(***************************************************************************)
(* What the server promises about games, whatever its threads do: players  *)
(* take seats one by one; with the last of them the game starts, and turn  *)
(* 0 is played; turns follow one by one up to turn Length, at least turn 1;*)
(* with the last of them the game ends, and the next lobby starts empty.   *)
(***************************************************************************)
EXTENDS Naturals

CONSTANTS Seats,    \* players of a game
          Length    \* --game-length

VARIABLES
  seated,   \* seats taken
  played    \* turns played, 0 before the game

cycleVars == <<seated, played>>

\* The number of the last turn: a length is looked at only after turn 1.
LastTurn == IF Length = 0 THEN 1 ELSE Length

InGame == played > 0

CycleInit == seated = 0 /\ played = 0

TakeSeat ==
  /\ ~InGame /\ seated + 1 < Seats
  /\ seated' = seated + 1
  /\ UNCHANGED played

\* With turn 0.
StartGame ==
  /\ ~InGame /\ seated + 1 = Seats
  /\ seated' = Seats
  /\ played' = 1

PlayTurn ==
  /\ InGame /\ played < LastTurn
  /\ played' = played + 1
  /\ UNCHANGED seated

\* With the last turn.
EndGame ==
  /\ InGame /\ played = LastTurn
  /\ seated' = 0 /\ played' = 0

CycleNext == TakeSeat \/ StartGame \/ PlayTurn \/ EndGame

CycleSpec == CycleInit /\ [][CycleNext]_cycleVars
=============================================================================
