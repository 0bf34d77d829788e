---------------------------- MODULE ExplosionLoop ----------------------------
(***************************************************************************)
(* handle_explosions and handle_explosion_stripe as the loops they are, on *)
(* the server and, line for line the same, on the client. Board.tla gives  *)
(* their result in closed form; here the loops are shown to compute it,    *)
(* and it is compared with what an explosion means on the board.           *)
(***************************************************************************)
EXTENDS Board, Sequences

VARIABLES bomb,         \* the arguments of one call: the field of the bomb
          blocks,       \* and the blocks on the board
          explosions,   \* the fields found so far
          arm,          \* which call of handle_explosion_stripe is running
          scanner, i    \* its local variables
vars == <<bomb, blocks, explosions, arm, scanner, i>>

\* The four calls, in the order of the code.
Arms == <<"RIGHT", "LEFT", "UP", "DOWN">>

Done == arm > Len(Arms)

Init ==
  /\ bomb \in Cells
  /\ blocks \in SUBSET Cells
  /\ explosions = {bomb}
  /\ arm = IF bomb \in blocks THEN Len(Arms) + 1 ELSE 1
  /\ scanner = bomb
  /\ i = 0

\* Slip: the stripe moves the scanner of its caller.
NextArm_by_reference == arm' = arm + 1 /\ i' = 0 /\ UNCHANGED scanner

\* Slip: the counter goes on from one stripe to the next.
NextArm_counting == arm' = arm + 1 /\ scanner' = bomb /\ UNCHANGED i

\* Leaving the loop, by its condition or by a break.
NextArm == arm' = arm + 1 /\ scanner' = bomb /\ i' = 0

\* One iteration: shifter(scanner) and the two tests after it.
Scan ==
  /\ ~Done
  /\ i < ExplosionRadius
  /\ LET next == Shift(scanner, Arms[arm], 1)
     IN \/ /\ ~is_position_valid(next)
           /\ NextArm
           /\ UNCHANGED explosions
        \/ /\ is_position_valid(next)
           /\ explosions' = explosions \cup {next}
           /\ \/ next \in blocks /\ NextArm
              \/ /\ next \notin blocks
                 /\ scanner' = next
                 /\ i' = i + 1
                 /\ UNCHANGED arm
  /\ UNCHANGED <<bomb, blocks>>

EndOfRadius ==
  /\ ~Done
  /\ i = ExplosionRadius
  /\ NextArm
  /\ UNCHANGED <<bomb, blocks, explosions>>

Next == Scan \/ EndOfRadius

Spec == Init /\ [][Next]_vars

-----------------------------------------------------------------------------
TypeOK ==
  /\ bomb \in Cells
  /\ blocks \subseteq Cells
  /\ explosions \subseteq Cells
  /\ arm \in 1 .. Len(Arms) + 1
  /\ scanner \in Cells
  /\ i \in 0 .. ExplosionRadius

\* The loops compute the closed form the other modules use.
LoopIsClosedForm == Done => explosions = handle_explosions(bomb, blocks)

\* Field c lies on a straight line with p, at most n fields away, and f lies
\* between them.
InLine(p, c, n) ==
  \/ c.x = p.x /\ c.y \in p.y - n .. p.y + n
  \/ c.y = p.y /\ c.x \in p.x - n .. p.x + n

Between(p, f, c) ==
  \/ /\ p.x = f.x /\ f.x = c.x
     /\ \/ p.y < f.y /\ f.y < c.y
        \/ c.y < f.y /\ f.y < p.y
  \/ /\ p.y = f.y /\ f.y = c.y
     /\ \/ p.x < f.x /\ f.x < c.x
        \/ c.x < f.x /\ f.x < p.x

\* What an explosion means, without loops and without uint16_t: the fields of
\* the board in a straight line within the radius that no block shields.
Exposed(p, c) ==
  \/ c = p
  \/ /\ p \notin blocks
     /\ InLine(p, c, ExplosionRadius)
     /\ \A f \in blocks : ~Between(p, f, c)

\* An explosion destroys exactly the exposed fields: the wrap of the unsigned
\* coordinates below 0 never brings a field back onto the board.
ExplosionIsExposure == Done => explosions = {c \in Cells : Exposed(bomb, c)}
=============================================================================
