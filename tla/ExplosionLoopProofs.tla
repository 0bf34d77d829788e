------------------------- MODULE ExplosionLoopProofs -------------------------
(***************************************************************************)
(* The loops of handle_explosions compute the closed form of Board.tla on  *)
(* boards of every size, for every radius and every set of blocks.         *)
(***************************************************************************)
EXTENDS ExplosionLoop, TLAPS

-----------------------------------------------------------------------------
(* Unsigned arithmetic *)

LEMMA Remainder ==
  ASSUME NEW m \in Nat \ {0}, NEW k \in Int, NEW r \in 0 .. m - 1,
         NEW n \in Int, n = m * k + r
  PROVE  n % m = r
OBVIOUS

\* Adding to a counter that has wrapped.
LEMMA ModAdd ==
  ASSUME NEW m \in Nat \ {0}, NEW n \in Int, NEW e \in Int
  PROVE  ((n % m) + e) % m = (n + e) % m
<1> DEFINE r == n % m
           k == n \div m
<1>1. n = m * k + r /\ r \in 0 .. m - 1 /\ k \in Int
  OBVIOUS
<1> HIDE DEF r, k
<1> DEFINE s == r + e
           s2 == s % m
           k2 == s \div m
<1>2. s \in Int /\ n + e \in Int /\ n + e = m * k + s
  BY <1>1
<1> HIDE DEF s
<1>3. s = m * k2 + s2 /\ s2 \in 0 .. m - 1 /\ k2 \in Int
  BY <1>2
<1> HIDE DEF s2, k2
<1>4. k + k2 \in Int /\ m * (k + k2) = m * k + m * k2
  BY <1>1, <1>3
<1>5. n + e = m * (k + k2) + s2
  BY <1>1, <1>2, <1>3, <1>4
<1>6. (n + e) % m = s2
  BY <1>2, <1>3, <1>4, <1>5, Remainder, SMTT(40)
<1> QED BY <1>6 DEF s2, s, r

\* The scanner after one more step is where a longer step leads.
LEMMA ShiftAgain ==
  ASSUME NEW p \in Cells, NEW d \in Direction, NEW k \in Nat
  PROVE  Shift(Shift(p, d, k), d, 1) = Shift(p, d, k + 1)
<1>1. /\ p.x \in Int /\ p.y \in Int /\ CoordMod \in Nat \ {0}
      /\ k \in Int /\ -1 \in Int /\ 1 \in Int
  BY BoardAssumption DEF Cells
<1>2. \A n \in Int : /\ ((n % CoordMod) + 1) % CoordMod = (n + 1) % CoordMod
                     /\ ((n % CoordMod) + (-1)) % CoordMod = (n + (-1)) % CoordMod
  BY <1>1, ModAdd
<1>3. \A n \in Int : n % CoordMod \in Int
  BY <1>1
<1>4. \A n \in Int : n + (-1) = n - 1
  OBVIOUS
<1>5. \A n \in Int : ((n % CoordMod) - 1) % CoordMod = (n - 1) % CoordMod
  BY <1>2, <1>3, <1>4
<1>6. /\ p.x + k \in Int /\ p.x - k \in Int /\ p.y + k \in Int /\ p.y - k \in Int
      /\ (p.x + k) + 1 = p.x + (k + 1) /\ (p.x - k) - 1 = p.x - (k + 1)
      /\ (p.y + k) + 1 = p.y + (k + 1) /\ (p.y - k) - 1 = p.y - (k + 1)
  BY <1>1
<1>7. /\ (((p.x + k) % CoordMod) + 1) % CoordMod = (p.x + (k + 1)) % CoordMod
      /\ (((p.x - k) % CoordMod) - 1) % CoordMod = (p.x - (k + 1)) % CoordMod
      /\ (((p.y + k) % CoordMod) + 1) % CoordMod = (p.y + (k + 1)) % CoordMod
      /\ (((p.y - k) % CoordMod) - 1) % CoordMod = (p.y - (k + 1)) % CoordMod
  BY <1>2, <1>5, <1>6
<1>8. CASE d = "RIGHT"
  BY <1>7, <1>8 DEF Shift
<1>9. CASE d = "LEFT"
  BY <1>7, <1>9 DEF Shift
<1>10. CASE d = "UP"
  BY <1>7, <1>10 DEF Shift
<1>11. CASE d = "DOWN"
  BY <1>7, <1>11 DEF Shift
<1> QED BY <1>8, <1>9, <1>10, <1>11 DEF Direction

LEMMA NoShift ==
  ASSUME NEW p \in Cells, NEW d \in Direction
  PROVE  Shift(p, d, 0) = p
<1>1. /\ p = [x |-> p.x, y |-> p.y]
      /\ p.x \in 0 .. CoordMod - 1 /\ p.y \in 0 .. CoordMod - 1
      /\ CoordMod \in Nat \ {0}
  BY BoardAssumption DEF Cells
<1>2. \A n \in 0 .. CoordMod - 1 : (n + 0) % CoordMod = n /\ (n - 0) % CoordMod = n
  <2> SUFFICES ASSUME NEW n \in 0 .. CoordMod - 1 PROVE n % CoordMod = n
    OBVIOUS
  <2> QED BY <1>1
<1> QED BY <1>1, <1>2 DEF Shift

-----------------------------------------------------------------------------
(* One arm *)

\* The fields of an arm up to the n-th.
Fields(p, d, n) == {Shift(p, d, k) : k \in 1 .. n}

\* The n-th field can be reached along the arm.
Open(p, d, n, bs) ==
  \A j \in 1 .. n : /\ is_position_valid(Shift(p, d, j))
                    /\ j < n => Shift(p, d, j) \notin bs

\* Where the loop may stop, its fields are the stripe.
LEMMA StripeEnds ==
  ASSUME NEW p, NEW d, NEW bs, NEW n \in 0 .. ExplosionRadius, Open(p, d, n, bs),
         \/ n = ExplosionRadius
         \/ ~is_position_valid(Shift(p, d, n + 1))
         \/ n > 0 /\ Shift(p, d, n) \in bs
  PROVE  Stripe(p, d, bs) = Fields(p, d, n)
<1>1. ExplosionRadius \in Nat
  BY BoardAssumption
<1>2. ASSUME NEW k \in 1 .. n PROVE Open(p, d, k, bs) /\ k \in 1 .. ExplosionRadius
  BY <1>1, <1>2 DEF Open
<1>3. ASSUME NEW k \in 1 .. ExplosionRadius, Open(p, d, k, bs), k \notin 1 .. n
      PROVE  FALSE
  <2>1. n + 1 \in 1 .. k /\ n < k /\ n # ExplosionRadius
    BY <1>1, <1>3
  <2>2. is_position_valid(Shift(p, d, n + 1))
    BY <1>3, <2>1 DEF Open
  <2>3. n > 0 => Shift(p, d, n) \notin bs
    BY <1>1, <1>3, <2>1 DEF Open
  <2> QED BY <2>1, <2>2, <2>3
<1>4. {k \in 1 .. ExplosionRadius : Open(p, d, k, bs)} = 1 .. n
  BY <1>2, <1>3
<1>5. Stripe(p, d, bs) = {Shift(p, d, k) : k \in {m \in 1 .. ExplosionRadius : Open(p, d, m, bs)}}
  BY DEF Stripe, Open
<1> QED BY <1>4, <1>5 DEF Fields

-----------------------------------------------------------------------------
(* The inductive invariant *)

\* The stripes of the arms before the one that is running.
Stripes(n) == UNION {Stripe(bomb, Arms[a], blocks) : a \in 1 .. n - 1}

\* The invariant of the loops: the stripes of the arms that are done, and of
\* the running one the fields up to the scanner.
LoopInv ==
  /\ bomb \in Cells
  /\ arm \in 1 .. 5
  /\ i \in 0 .. ExplosionRadius
  /\ Done => explosions = handle_explosions(bomb, blocks)
  /\ ~Done =>
       /\ bomb \notin blocks
       /\ scanner = Shift(bomb, Arms[arm], i)
       /\ Open(bomb, Arms[arm], i, blocks)
       /\ i > 0 => Shift(bomb, Arms[arm], i) \notin blocks
       /\ explosions = {bomb} \cup Stripes(arm) \cup Fields(bomb, Arms[arm], i)

LEMMA ArmsAre ==
  /\ Len(Arms) = 4
  /\ \A a \in 1 .. 4 : Arms[a] \in Direction
  /\ \A d \in Direction : \E a \in 1 .. 4 : Arms[a] = d
<1>1. /\ Arms[1] = "RIGHT" /\ Arms[2] = "LEFT" /\ Arms[3] = "UP" /\ Arms[4] = "DOWN"
      /\ Len(Arms) = 4
  BY DEF Arms
<1>2. \A a \in 1 .. 4 : a = 1 \/ a = 2 \/ a = 3 \/ a = 4
  OBVIOUS
<1>3. 1 \in 1 .. 4 /\ 2 \in 1 .. 4 /\ 3 \in 1 .. 4 /\ 4 \in 1 .. 4
  OBVIOUS
<1> QED BY <1>1, <1>2, <1>3 DEF Direction

\* After the last arm the stripes are the explosion.
LEMMA AllArms ==
  ASSUME bomb \notin blocks
  PROVE  {bomb} \cup Stripes(5) = handle_explosions(bomb, blocks)
<1>1. 1 .. 5 - 1 = 1 .. 4
  OBVIOUS
<1>2. {Stripe(bomb, Arms[a], blocks) : a \in 1 .. 4}
        = {Stripe(bomb, d, blocks) : d \in Direction}
  BY ArmsAre
<1> QED BY <1>1, <1>2 DEF Stripes, handle_explosions

\* No arm has begun.
LEMMA Begin ==
  ASSUME NEW p \in Cells, NEW a \in 1 .. 4
  PROVE  /\ Shift(p, Arms[a], 0) = p
         /\ \A bs : Open(p, Arms[a], 0, bs)
         /\ Fields(p, Arms[a], 0) = {}
<1>1. 1 .. 0 = {}
  OBVIOUS
<1>2. Shift(p, Arms[a], 0) = p
  BY NoShift, ArmsAre
<1> QED BY <1>1, <1>2 DEF Open, Fields

\* Leaving an arm with its stripe complete.
LEMMA ArmEnds ==
  ASSUME LoopInv, ~Done, NextArm, UNCHANGED <<bomb, blocks>>,
         explosions' = {bomb} \cup Stripes(arm) \cup Stripe(bomb, Arms[arm], blocks)
  PROVE  LoopInv'
<1>1. arm \in 1 .. 4 /\ arm' = arm + 1 /\ arm' \in 1 .. 5 /\ Len(Arms) = 4
  BY ArmsAre DEF LoopInv, Done, NextArm
<1>2. Stripes(arm + 1) = Stripes(arm) \cup Stripe(bomb, Arms[arm], blocks)
  <2>1. 1 .. (arm + 1) - 1 = (1 .. arm - 1) \cup {arm}
    BY <1>1
  <2> QED BY <2>1 DEF Stripes
<1>3. explosions' = {bomb} \cup Stripes(arm + 1)
  BY <1>2
<1>4. bomb' = bomb /\ blocks' = blocks /\ bomb \in Cells /\ bomb \notin blocks
      /\ scanner' = bomb /\ i' = 0
  BY DEF LoopInv, NextArm
<1>5. i' \in 0 .. ExplosionRadius
  BY <1>4, BoardAssumption
<1>6. CASE arm = 4
  <2>1. Done' /\ arm + 1 = 5
    BY <1>1, <1>6 DEF Done
  <2>2. explosions' = handle_explosions(bomb, blocks)
    BY <1>3, <1>4, <2>1, AllArms
  <2> QED BY <1>1, <1>4, <1>5, <2>1, <2>2 DEF LoopInv
<1>7. CASE arm # 4
  <2>1. ~Done' /\ arm' \in 1 .. 4
    BY <1>1, <1>7 DEF Done
  <2>2. /\ Shift(bomb, Arms[arm'], 0) = bomb
        /\ Open(bomb, Arms[arm'], 0, blocks)
        /\ Fields(bomb, Arms[arm'], 0) = {}
    BY <1>4, <2>1, Begin
  <2>3. Stripes(arm)' = Stripes(arm + 1)
    BY <1>1, <1>4 DEF Stripes
  <2>4. /\ scanner' = Shift(bomb, Arms[arm'], i')
        /\ explosions' = {bomb} \cup Stripes(arm)' \cup Fields(bomb, Arms[arm'], i')
        /\ Open(bomb, Arms[arm'], i', blocks)
    BY <1>3, <1>4, <2>2, <2>3
  <2>5. ~(i' > 0)
    BY <1>4
  <2> QED BY <1>1, <1>4, <1>5, <2>1, <2>4, <2>5 DEF LoopInv
<1> QED BY <1>6, <1>7

LEMMA InitInv == Init => LoopInv
<1> SUFFICES ASSUME Init PROVE LoopInv
  OBVIOUS
<1>1. i \in 0 .. ExplosionRadius /\ i = 0 /\ ~(i > 0)
  BY BoardAssumption DEF Init
<1>2. CASE bomb \in blocks
  <2>1. arm = 5 /\ Done
    BY <1>2, ArmsAre DEF Init, Done
  <2>2. explosions = handle_explosions(bomb, blocks)
    BY <1>2 DEF Init, handle_explosions
  <2> QED BY <1>1, <2>1, <2>2 DEF LoopInv, Init
<1>3. CASE bomb \notin blocks
  <2>1. arm = 1 /\ ~Done /\ arm \in 1 .. 4
    BY <1>3, ArmsAre DEF Init, Done
  <2>2. 1 .. 1 - 1 = {}
    OBVIOUS
  <2>3. Stripes(arm) = {}
    BY <2>1, <2>2 DEF Stripes
  <2>4. /\ Shift(bomb, Arms[arm], 0) = bomb
        /\ Open(bomb, Arms[arm], 0, blocks)
        /\ Fields(bomb, Arms[arm], 0) = {}
    BY <2>1, Begin DEF Init
  <2> QED BY <1>1, <1>3, <2>1, <2>3, <2>4 DEF LoopInv, Init
<1> QED BY <1>2, <1>3

-----------------------------------------------------------------------------
(* Steps *)

LEMMA ScanInv == LoopInv /\ Scan => LoopInv'
<1> SUFFICES ASSUME LoopInv, Scan PROVE LoopInv'
  OBVIOUS
<1> DEFINE d == Arms[arm]
           next == Shift(scanner, Arms[arm], 1)
<1>1. /\ ~Done /\ arm \in 1 .. 4 /\ i \in Nat /\ ExplosionRadius \in Nat
      /\ i < ExplosionRadius /\ bomb \in Cells
  BY ArmsAre, BoardAssumption DEF Scan, Done, LoopInv
<1>2. d \in Direction
  BY <1>1, ArmsAre
<1>3. /\ scanner = Shift(bomb, d, i) /\ Open(bomb, d, i, blocks)
      /\ i > 0 => Shift(bomb, d, i) \notin blocks
      /\ explosions = {bomb} \cup Stripes(arm) \cup Fields(bomb, d, i)
  BY <1>1 DEF LoopInv
<1>4. next = Shift(bomb, d, i + 1)
  BY <1>1, <1>2, <1>3, ShiftAgain
<1>5. /\ bomb' = bomb /\ blocks' = blocks
      /\ \/ ~is_position_valid(next) /\ NextArm /\ explosions' = explosions
         \/ /\ is_position_valid(next) /\ explosions' = explosions \cup {next}
            /\ \/ next \in blocks /\ NextArm
               \/ next \notin blocks /\ scanner' = next /\ i' = i + 1 /\ arm' = arm
  BY DEF Scan
<1> HIDE DEF d, next
<1>6. ASSUME is_position_valid(next) PROVE Open(bomb, d, i + 1, blocks)
  <2> SUFFICES ASSUME NEW j \in 1 .. i + 1
               PROVE  /\ is_position_valid(Shift(bomb, d, j))
                      /\ j < i + 1 => Shift(bomb, d, j) \notin blocks
    BY DEF Open
  <2>1. CASE j = i + 1
    BY <1>1, <1>4, <1>6, <2>1
  <2>2. CASE j = i
    <3>1. j \in 1 .. i /\ i > 0
      BY <1>1, <2>2
    <3> QED BY <1>3, <2>2, <3>1 DEF Open
  <2>3. CASE j # i + 1 /\ j # i
    <3>1. j \in 1 .. i /\ j < i
      BY <1>1, <2>3
    <3> QED BY <1>3, <3>1 DEF Open
  <2> QED BY <2>1, <2>2, <2>3
<1>7. Fields(bomb, d, i + 1) = Fields(bomb, d, i) \cup {next}
  <2>1. 1 .. i + 1 = (1 .. i) \cup {i + 1}
    BY <1>1
  <2> QED BY <1>4, <2>1 DEF Fields
<1>8. i \in 0 .. ExplosionRadius /\ i + 1 \in 0 .. ExplosionRadius /\ i + 1 > 0
  BY <1>1
<1>9. CASE ~is_position_valid(next)
  <2>1. Stripe(bomb, d, blocks) = Fields(bomb, d, i)
    BY <1>3, <1>4, <1>8, <1>9, StripeEnds
  <2> QED BY <1>1, <1>3, <1>5, <1>9, <2>1, ArmEnds DEF d
<1>10. CASE is_position_valid(next) /\ next \in blocks
  <2>1. Open(bomb, d, i + 1, blocks)
    BY <1>6, <1>10
  <2>2. Stripe(bomb, d, blocks) = Fields(bomb, d, i + 1)
    BY <1>4, <1>8, <1>10, <2>1, StripeEnds
  <2> QED BY <1>1, <1>3, <1>5, <1>7, <1>10, <2>2, ArmEnds DEF d
<1>11. CASE is_position_valid(next) /\ next \notin blocks
  <2>1. Open(bomb, d, i + 1, blocks)
    BY <1>6, <1>11
  <2>2. arm' = arm /\ i' = i + 1 /\ scanner' = next /\ explosions' = explosions \cup {next}
    BY <1>5, <1>11
  <2>3. ~Done'
    BY <1>1, <2>2 DEF Done
  <2>4. Stripes(arm)' = Stripes(arm)
    BY <1>5, <2>2 DEF Stripes
  <2>5. bomb \notin blocks
    BY <1>1 DEF LoopInv
  <2>6. explosions' = {bomb} \cup Stripes(arm)' \cup Fields(bomb, d, i + 1)
    BY <1>3, <1>7, <2>2, <2>4
  <2> QED BY <1>1, <1>4, <1>5, <1>8, <1>11, <2>1, <2>2, <2>3, <2>5, <2>6 DEF LoopInv, d
<1> QED BY <1>9, <1>10, <1>11

LEMMA EndInv == LoopInv /\ EndOfRadius => LoopInv'
<1> SUFFICES ASSUME LoopInv, EndOfRadius PROVE LoopInv'
  OBVIOUS
<1>1. /\ ~Done /\ i = ExplosionRadius /\ i \in 0 .. ExplosionRadius
      /\ Open(bomb, Arms[arm], i, blocks)
      /\ explosions = {bomb} \cup Stripes(arm) \cup Fields(bomb, Arms[arm], i)
      /\ NextArm /\ explosions' = explosions /\ UNCHANGED <<bomb, blocks>>
  BY DEF EndOfRadius, LoopInv
<1>2. Stripe(bomb, Arms[arm], blocks) = Fields(bomb, Arms[arm], i)
  BY <1>1, StripeEnds
<1> QED BY <1>1, <1>2, ArmEnds

LEMMA LoopInvariance == Spec => []LoopInv
<1>1. Init => LoopInv
  BY InitInv
<1>2. LoopInv /\ [Next]_vars => LoopInv'
  <2>1. LoopInv /\ UNCHANGED vars => LoopInv'
    BY DEF LoopInv, vars, Done, Stripes
  <2> QED BY <2>1, ScanInv, EndInv DEF Next
<1> QED BY <1>1, <1>2, PTL DEF Spec

\* The loops of handle_explosions compute the closed form, for every board,
\* radius, bomb and set of blocks.
THEOREM LoopsAreClosedForm == Spec => []LoopIsClosedForm
<1>1. LoopInv => LoopIsClosedForm
  BY DEF LoopInv, LoopIsClosedForm
<1> QED BY <1>1, LoopInvariance, PTL

-----------------------------------------------------------------------------
(* What an explosion means *)

\* Steps upwards and to the right stay on the board as long as the coordinate
\* without a wrap does: before one that wraps lies one that is not on the board.
LEMMA StepsUp ==
  ASSUME NEW m \in Nat, NEW size \in 1 .. m - 1, NEW a \in 0 .. size - 1,
         NEW n \in Nat
  PROVE  /\ (\A j \in 1 .. n : (a + j) % m < size) <=> a + n < size
         /\ a + n < size => \A j \in 0 .. n : (a + j) % m = a + j
<1>1. ASSUME NEW j \in Nat, a + j <= size
      PROVE  (a + j) % m = a + j
  <2>1. /\ m \in Nat \ {0} /\ a + j \in 0 .. m - 1 /\ a + j \in Int
        /\ a + j = m * 0 + (a + j)
    BY <1>1
  <2> QED BY <2>1, Remainder
<1>2. ASSUME \A j \in 1 .. n : (a + j) % m < size, ~(a + n < size)
      PROVE  FALSE
  <2>1. size - a \in 1 .. n /\ a + (size - a) = size /\ size - a \in Nat
    BY <1>2
  <2>2. size % m = size
    BY <1>1, <2>1
  <2> QED BY <1>2, <2>1, <2>2
<1>3. ASSUME a + n < size, NEW j \in 0 .. n
      PROVE  (a + j) % m = a + j /\ a + j < size
  <2>1. j \in Nat /\ a + j < size /\ a + j <= size
    BY <1>3
  <2> QED BY <1>1, <2>1
<1>4. \A j \in 1 .. n : j \in 0 .. n
  OBVIOUS
<1>5. a + n < size => \A j \in 1 .. n : (a + j) % m < size
  <2> SUFFICES ASSUME a + n < size, NEW j \in 1 .. n
               PROVE  (a + j) % m < size
    OBVIOUS
  <2>1. (a + j) % m = a + j /\ a + j < size
    BY <1>3, <1>4
  <2> QED BY <2>1
<1> QED BY <1>2, <1>3, <1>5

\* Steps downwards and to the left: the first below 0 wraps to the largest
\* coordinate, which no board has.
LEMMA StepsDown ==
  ASSUME NEW m \in Nat, NEW size \in 1 .. m - 1, NEW a \in 0 .. size - 1,
         NEW n \in Nat
  PROVE  /\ (\A j \in 1 .. n : (a - j) % m < size) <=> n <= a
         /\ n <= a => \A j \in 0 .. n : (a - j) % m = a - j
<1>1. ASSUME NEW j \in Nat, j <= a
      PROVE  (a - j) % m = a - j /\ a - j < size
  <2>1. /\ m \in Nat \ {0} /\ a - j \in 0 .. m - 1 /\ a - j \in Int
        /\ a - j = m * 0 + (a - j) /\ a - j < size
    BY <1>1
  <2> QED BY <2>1, Remainder
<1>2. ASSUME \A j \in 1 .. n : (a - j) % m < size, ~(n <= a)
      PROVE  FALSE
  <2>1. a + 1 \in 1 .. n /\ a - (a + 1) = 0 - 1
    BY <1>2
  <2>2. /\ m \in Nat \ {0} /\ 0 - 1 = m * (0 - 1) + (m - 1)
        /\ m - 1 \in 0 .. m - 1 /\ 0 - 1 \in Int /\ ~(m - 1 < size)
    OBVIOUS
  <2>3. (0 - 1) % m = m - 1
    BY <2>2, Remainder
  <2> QED BY <1>2, <2>1, <2>2, <2>3
<1>3. ASSUME n <= a, NEW j \in 0 .. n
      PROVE  (a - j) % m = a - j /\ (a - j) % m < size
  <2>1. j \in Nat /\ j <= a
    BY <1>3
  <2> QED BY <1>1, <2>1
<1>4. \A j \in 1 .. n : j \in 0 .. n
  OBVIOUS
<1> QED BY <1>2, <1>3, <1>4

\* The field k steps from p if coordinates were integers.
Step(p, d, k) ==
  [x |-> CASE d = "RIGHT" -> p.x + k [] d = "LEFT" -> p.x - k [] OTHER -> p.x,
   y |-> CASE d = "UP" -> p.y + k [] d = "DOWN" -> p.y - k [] OTHER -> p.y]

LEMMA CellCoordinates ==
  /\ CoordMod \in Nat /\ SizeX \in 1 .. CoordMod - 1 /\ SizeY \in 1 .. CoordMod - 1
  /\ ExplosionRadius \in Nat
  /\ \A p \in Cells : /\ p.x \in 0 .. SizeX - 1 /\ p.y \in 0 .. SizeY - 1
                      /\ p = [x |-> p.x, y |-> p.y]
  /\ \A u, v : [x |-> u, y |-> v] \in Cells
                 <=> u \in 0 .. SizeX - 1 /\ v \in 0 .. SizeY - 1
BY BoardAssumption DEF Cells

\* The arm can be followed for n steps exactly if the n-th field is on the board,
\* and then no step has wrapped.
LEMMA ArmOnBoard ==
  ASSUME NEW p \in Cells, NEW d \in Direction, NEW n \in Nat
  PROVE  /\ (\A j \in 1 .. n : is_position_valid(Shift(p, d, j)))
              <=> Step(p, d, n) \in Cells
         /\ Step(p, d, n) \in Cells => \A j \in 0 .. n : Shift(p, d, j) = Step(p, d, j)
<1>1. /\ CoordMod \in Nat
      /\ SizeX \in 1 .. CoordMod - 1 /\ SizeY \in 1 .. CoordMod - 1
      /\ p.x \in 0 .. SizeX - 1 /\ p.y \in 0 .. SizeY - 1
      /\ p.x < SizeX /\ p.y < SizeY
  BY CellCoordinates
<1>2. /\ p.x + n \in 0 .. SizeX - 1 <=> p.x + n < SizeX
      /\ p.y + n \in 0 .. SizeY - 1 <=> p.y + n < SizeY
      /\ p.x - n \in 0 .. SizeX - 1 <=> n <= p.x
      /\ p.y - n \in 0 .. SizeY - 1 <=> n <= p.y
  BY <1>1
<1>3. CASE d = "RIGHT"
  <2>1. /\ \A k : Shift(p, d, k) = [x |-> (p.x + k) % CoordMod, y |-> p.y]
        /\ \A k : Step(p, d, k) = [x |-> p.x + k, y |-> p.y]
    BY <1>3 DEF Shift, Step
  <2>2. Step(p, d, n) \in Cells <=> p.x + n < SizeX
    BY <1>1, <1>2, <2>1, CellCoordinates
  <2>3. \A k : is_position_valid(Shift(p, d, k)) <=> (p.x + k) % CoordMod < SizeX
    BY <1>1, <2>1 DEF is_position_valid
  <2> QED BY <1>1, <2>1, <2>2, <2>3, StepsUp
<1>4. CASE d = "LEFT"
  <2>1. /\ \A k : Shift(p, d, k) = [x |-> (p.x - k) % CoordMod, y |-> p.y]
        /\ \A k : Step(p, d, k) = [x |-> p.x - k, y |-> p.y]
    BY <1>4 DEF Shift, Step
  <2>2. Step(p, d, n) \in Cells <=> n <= p.x
    BY <1>1, <1>2, <2>1, CellCoordinates
  <2>3. \A k : is_position_valid(Shift(p, d, k)) <=> (p.x - k) % CoordMod < SizeX
    BY <1>1, <2>1 DEF is_position_valid
  <2> QED BY <1>1, <2>1, <2>2, <2>3, StepsDown
<1>5. CASE d = "UP"
  <2>1. /\ \A k : Shift(p, d, k) = [x |-> p.x, y |-> (p.y + k) % CoordMod]
        /\ \A k : Step(p, d, k) = [x |-> p.x, y |-> p.y + k]
    BY <1>5 DEF Shift, Step
  <2>2. Step(p, d, n) \in Cells <=> p.y + n < SizeY
    BY <1>1, <1>2, <2>1, CellCoordinates
  <2>3. \A k : is_position_valid(Shift(p, d, k)) <=> (p.y + k) % CoordMod < SizeY
    BY <1>1, <2>1 DEF is_position_valid
  <2> QED BY <1>1, <2>1, <2>2, <2>3, StepsUp
<1>6. CASE d = "DOWN"
  <2>1. /\ \A k : Shift(p, d, k) = [x |-> p.x, y |-> (p.y - k) % CoordMod]
        /\ \A k : Step(p, d, k) = [x |-> p.x, y |-> p.y - k]
    BY <1>6 DEF Shift, Step
  <2>2. Step(p, d, n) \in Cells <=> n <= p.y
    BY <1>1, <1>2, <2>1, CellCoordinates
  <2>3. \A k : is_position_valid(Shift(p, d, k)) <=> (p.y - k) % CoordMod < SizeY
    BY <1>1, <2>1 DEF is_position_valid
  <2> QED BY <1>1, <2>1, <2>2, <2>3, StepsDown
<1> QED BY <1>3, <1>4, <1>5, <1>6 DEF Direction

\* A stripe without the wrap.
LEMMA StripeSteps ==
  ASSUME NEW p \in Cells, NEW d \in Direction, NEW bs, NEW c
  PROVE  c \in Stripe(p, d, bs) <=>
           \E n \in 1 .. ExplosionRadius :
             /\ c = Step(p, d, n) /\ c \in Cells
             /\ \A j \in 1 .. n - 1 : Step(p, d, j) \notin bs
<1>1. ASSUME NEW n \in 1 .. ExplosionRadius
      PROVE  c = Shift(p, d, n) /\ Open(p, d, n, bs) <=>
               /\ c = Step(p, d, n) /\ c \in Cells
               /\ \A j \in 1 .. n - 1 : Step(p, d, j) \notin bs
  <2>1. n \in Nat /\ n \in 0 .. n
    BY CellCoordinates
  <2>2. /\ (\A j \in 1 .. n : is_position_valid(Shift(p, d, j)))
             <=> Step(p, d, n) \in Cells
        /\ Step(p, d, n) \in Cells => \A j \in 0 .. n : Shift(p, d, j) = Step(p, d, j)
    BY <2>1, ArmOnBoard
  <2>3. \A j \in 1 .. n : j \in 0 .. n
    BY <2>1
  <2>4. \A j : j \in 1 .. n - 1 <=> j \in 1 .. n /\ j < n
    BY <2>1
  <2>5. Open(p, d, n, bs) <=>
          /\ \A j \in 1 .. n : is_position_valid(Shift(p, d, j))
          /\ \A j \in 1 .. n - 1 : Shift(p, d, j) \notin bs
    BY <2>4 DEF Open
  <2>6. Step(p, d, n) \in Cells =>
          ((\A j \in 1 .. n - 1 : Shift(p, d, j) \notin bs)
             <=> \A j \in 1 .. n - 1 : Step(p, d, j) \notin bs)
    BY <2>2, <2>3, <2>4
  <2> QED BY <2>1, <2>2, <2>5, <2>6
<1>2. c \in Stripe(p, d, bs) <=>
        \E n \in 1 .. ExplosionRadius : c = Shift(p, d, n) /\ Open(p, d, n, bs)
  BY DEF Stripe, Open
<1> QED BY <1>1, <1>2

\* The fields in line with p are those that steps lead to.
LEMMA InLineSteps ==
  ASSUME NEW p \in Cells, NEW c \in Cells, c # p, NEW r \in Nat
  PROVE  InLine(p, c, r) <=> \E d \in Direction, n \in 1 .. r : c = Step(p, d, n)
<1>1. /\ p.x \in Nat /\ p.y \in Nat /\ c.x \in Nat /\ c.y \in Nat
      /\ p = [x |-> p.x, y |-> p.y] /\ c = [x |-> c.x, y |-> c.y]
  BY CellCoordinates
<1>2. /\ \A n : Step(p, "RIGHT", n) = [x |-> p.x + n, y |-> p.y]
      /\ \A n : Step(p, "LEFT", n) = [x |-> p.x - n, y |-> p.y]
      /\ \A n : Step(p, "UP", n) = [x |-> p.x, y |-> p.y + n]
      /\ \A n : Step(p, "DOWN", n) = [x |-> p.x, y |-> p.y - n]
  BY DEF Step
<1>3. ASSUME InLine(p, c, r)
      PROVE  \E d \in Direction, n \in 1 .. r : c = Step(p, d, n)
  <2>1. CASE c.x = p.x /\ c.y \in p.y + 1 .. p.y + r
    <3>1. c.y - p.y \in 1 .. r /\ p.y + (c.y - p.y) = c.y
      BY <1>1, <2>1
    <3> QED BY <1>1, <1>2, <2>1, <3>1 DEF Direction
  <2>2. CASE c.x = p.x /\ c.y \in p.y - r .. p.y - 1
    <3>1. p.y - c.y \in 1 .. r /\ p.y - (p.y - c.y) = c.y
      BY <1>1, <2>2
    <3> QED BY <1>1, <1>2, <2>2, <3>1 DEF Direction
  <2>3. CASE c.y = p.y /\ c.x \in p.x + 1 .. p.x + r
    <3>1. c.x - p.x \in 1 .. r /\ p.x + (c.x - p.x) = c.x
      BY <1>1, <2>3
    <3> QED BY <1>1, <1>2, <2>3, <3>1 DEF Direction
  <2>4. CASE c.y = p.y /\ c.x \in p.x - r .. p.x - 1
    <3>1. p.x - c.x \in 1 .. r /\ p.x - (p.x - c.x) = c.x
      BY <1>1, <2>4
    <3> QED BY <1>1, <1>2, <2>4, <3>1 DEF Direction
  <2>5. ~(c.x = p.x /\ c.y = p.y)
    BY <1>1
  <2> QED BY <1>1, <1>3, <2>1, <2>2, <2>3, <2>4, <2>5 DEF InLine
<1>4. ASSUME NEW d \in Direction, NEW n \in 1 .. r, c = Step(p, d, n)
      PROVE  InLine(p, c, r)
  <2>1. \/ c.x = p.x + n /\ c.y = p.y
        \/ c.x = p.x - n /\ c.y = p.y
        \/ c.x = p.x /\ c.y = p.y + n
        \/ c.x = p.x /\ c.y = p.y - n
    BY <1>2, <1>4 DEF Direction
  <2> QED BY <1>1, <2>1 DEF InLine
<1> QED BY <1>3, <1>4

\* What lies between p and a field of an arm are the fields of the arm before it.
LEMMA BetweenSteps ==
  ASSUME NEW p \in Cells, NEW d \in Direction, NEW n \in Nat, NEW f \in Cells
  PROVE  Between(p, f, Step(p, d, n)) <=> \E j \in 1 .. n - 1 : f = Step(p, d, j)
<1> DEFINE c == Step(p, d, n)
<1>1. /\ p.x \in Nat /\ p.y \in Nat /\ f.x \in Nat /\ f.y \in Nat
      /\ f = [x |-> f.x, y |-> f.y]
  BY CellCoordinates
<1>2. CASE d = "RIGHT"
  <2>1. \A k : Step(p, d, k) = [x |-> p.x + k, y |-> p.y]
    BY <1>2 DEF Step
  <2>2. c.x = p.x + n /\ c.y = p.y
    BY <2>1
  <2> HIDE DEF c
  <2>3. Between(p, f, c) <=> f.y = p.y /\ p.x < f.x /\ f.x < p.x + n
    BY <1>1, <2>2 DEF Between
  <2>4. f.y = p.y /\ p.x < f.x /\ f.x < p.x + n =>
          f.x - p.x \in 1 .. n - 1 /\ p.x + (f.x - p.x) = f.x
    BY <1>1
  <2>5. \A j \in 1 .. n - 1 : f = [x |-> p.x + j, y |-> p.y] =>
          f.y = p.y /\ p.x < f.x /\ f.x < p.x + n
    BY <1>1
  <2> QED BY <1>1, <2>1, <2>3, <2>4, <2>5 DEF c
<1>3. CASE d = "LEFT"
  <2>1. \A k : Step(p, d, k) = [x |-> p.x - k, y |-> p.y]
    BY <1>3 DEF Step
  <2>2. c.x = p.x - n /\ c.y = p.y
    BY <2>1
  <2> HIDE DEF c
  <2>3. Between(p, f, c) <=> f.y = p.y /\ f.x < p.x /\ p.x - n < f.x
    BY <1>1, <2>2 DEF Between
  <2>4. f.y = p.y /\ f.x < p.x /\ p.x - n < f.x =>
          p.x - f.x \in 1 .. n - 1 /\ p.x - (p.x - f.x) = f.x
    BY <1>1
  <2>5. \A j \in 1 .. n - 1 : f = [x |-> p.x - j, y |-> p.y] =>
          f.y = p.y /\ f.x < p.x /\ p.x - n < f.x
    BY <1>1
  <2> QED BY <1>1, <2>1, <2>3, <2>4, <2>5 DEF c
<1>4. CASE d = "UP"
  <2>1. \A k : Step(p, d, k) = [x |-> p.x, y |-> p.y + k]
    BY <1>4 DEF Step
  <2>2. c.x = p.x /\ c.y = p.y + n
    BY <2>1
  <2> HIDE DEF c
  <2>3. Between(p, f, c) <=> f.x = p.x /\ p.y < f.y /\ f.y < p.y + n
    BY <1>1, <2>2 DEF Between
  <2>4. f.x = p.x /\ p.y < f.y /\ f.y < p.y + n =>
          f.y - p.y \in 1 .. n - 1 /\ p.y + (f.y - p.y) = f.y
    BY <1>1
  <2>5. \A j \in 1 .. n - 1 : f = [x |-> p.x, y |-> p.y + j] =>
          f.x = p.x /\ p.y < f.y /\ f.y < p.y + n
    BY <1>1
  <2> QED BY <1>1, <2>1, <2>3, <2>4, <2>5 DEF c
<1>5. CASE d = "DOWN"
  <2>1. \A k : Step(p, d, k) = [x |-> p.x, y |-> p.y - k]
    BY <1>5 DEF Step
  <2>2. c.x = p.x /\ c.y = p.y - n
    BY <2>1
  <2> HIDE DEF c
  <2>3. Between(p, f, c) <=> f.x = p.x /\ f.y < p.y /\ p.y - n < f.y
    BY <1>1, <2>2 DEF Between
  <2>4. f.x = p.x /\ f.y < p.y /\ p.y - n < f.y =>
          p.y - f.y \in 1 .. n - 1 /\ p.y - (p.y - f.y) = f.y
    BY <1>1
  <2>5. \A j \in 1 .. n - 1 : f = [x |-> p.x, y |-> p.y - j] =>
          f.x = p.x /\ f.y < p.y /\ p.y - n < f.y
    BY <1>1
  <2> QED BY <1>1, <2>1, <2>3, <2>4, <2>5 DEF c
<1> QED BY <1>2, <1>3, <1>4, <1>5 DEF Direction

\* A step of one or more leads away.
LEMMA StepLeaves ==
  ASSUME NEW p \in Cells, NEW d \in Direction, NEW n \in Nat \ {0}
  PROVE  Step(p, d, n) # p
<1>1. p.x \in Nat /\ p.y \in Nat
  BY CellCoordinates
<1>2. \/ Step(p, d, n).x = p.x + n \/ Step(p, d, n).x = p.x - n
      \/ Step(p, d, n).y = p.y + n \/ Step(p, d, n).y = p.y - n
  BY DEF Step, Direction
<1> QED BY <1>1, <1>2

LEMMA ClosedFormIsExposure ==
  ASSUME bomb \in Cells, blocks \subseteq Cells
  PROVE  handle_explosions(bomb, blocks) = {c \in Cells : Exposed(bomb, c)}
<1>1. ASSUME NEW c
      PROVE  c \in handle_explosions(bomb, blocks) <=> c \in Cells /\ Exposed(bomb, c)
  <2>1. c \in handle_explosions(bomb, blocks) <=>
          \/ c = bomb
          \/ bomb \notin blocks /\ \E d \in Direction : c \in Stripe(bomb, d, blocks)
    BY DEF handle_explosions
  <2>2. ASSUME c # bomb, bomb \notin blocks, NEW d \in Direction,
               c \in Stripe(bomb, d, blocks)
        PROVE  c \in Cells /\ Exposed(bomb, c)
    <3>1. PICK n \in 1 .. ExplosionRadius :
            /\ c = Step(bomb, d, n) /\ c \in Cells
            /\ \A j \in 1 .. n - 1 : Step(bomb, d, j) \notin blocks
      BY <2>2, StripeSteps
    <3>2. n \in Nat /\ ExplosionRadius \in Nat
      BY CellCoordinates
    <3>3. InLine(bomb, c, ExplosionRadius)
      BY <2>2, <3>1, <3>2, InLineSteps
    <3>4. \A f \in blocks : ~Between(bomb, f, c)
      BY <3>1, <3>2, BetweenSteps
    <3> QED BY <2>2, <3>1, <3>3, <3>4 DEF Exposed
  <2>3. ASSUME c # bomb, c \in Cells, Exposed(bomb, c)
        PROVE  bomb \notin blocks /\ \E d \in Direction : c \in Stripe(bomb, d, blocks)
    <3>1. /\ bomb \notin blocks /\ InLine(bomb, c, ExplosionRadius)
          /\ \A f \in blocks : ~Between(bomb, f, c)
      BY <2>3 DEF Exposed
    <3>2. PICK d \in Direction, n \in 1 .. ExplosionRadius : c = Step(bomb, d, n)
      BY <2>3, <3>1, InLineSteps, CellCoordinates
    <3>3. n \in Nat
      BY CellCoordinates
    <3>4. \A j \in 1 .. n - 1 : Step(bomb, d, j) \notin blocks
      BY <3>1, <3>2, <3>3, BetweenSteps
    <3>5. c \in Stripe(bomb, d, blocks)
      BY <2>3, <3>2, <3>4, StripeSteps
    <3> QED BY <3>1, <3>5
  <2> QED BY <2>1, <2>2, <2>3 DEF Exposed
<1> QED BY <1>1

\* An explosion destroys exactly the fields in line with the bomb, within the
\* radius, that no block shields, on boards of every size a uint16_t can hold.
THEOREM ExplosionsAreExposure == Spec => []ExplosionIsExposure
<1>1. Init => blocks \subseteq Cells
  BY DEF Init
<1>2. blocks \subseteq Cells /\ [Next]_vars => (blocks \subseteq Cells)'
  BY DEF Next, Scan, EndOfRadius, vars
<1>3. LoopInv /\ blocks \subseteq Cells => ExplosionIsExposure
  BY ClosedFormIsExposure DEF LoopInv, ExplosionIsExposure
<1> QED BY <1>1, <1>2, <1>3, LoopInvariance, PTL DEF Spec

-----------------------------------------------------------------------------
(* Types *)

\* The scanner only stops on the board.
LEMMA TypeStep ==
  ASSUME LoopInv, TypeOK, [Next]_vars
  PROVE  TypeOK'
<1>1. Len(Arms) = 4 /\ ExplosionRadius \in Nat
  BY ArmsAre, CellCoordinates
<1>2. ASSUME NextArm, ~Done
      PROVE  arm' \in 1 .. 5 /\ scanner' = bomb /\ i' = 0
  <2>1. arm \in 1 .. 4
    BY <1>1, <1>2 DEF TypeOK, Done
  <2> QED BY <1>2, <2>1 DEF NextArm
<1>3. CASE Scan
  <2> DEFINE next == Shift(scanner, Arms[arm], 1)
  <2>1. arm \in 1 .. 4 /\ ~Done
    BY <1>1, <1>3 DEF Scan, TypeOK, Done
  <2>2. Arms[arm] \in Direction
    BY <2>1, ArmsAre
  <2>3. bomb \in Cells /\ i \in Nat /\ i + 1 \in 0 .. ExplosionRadius
    BY <1>1, <1>3 DEF Scan, TypeOK
  <2>4. next = Shift(bomb, Arms[arm], i + 1) /\ Open(bomb, Arms[arm], i, blocks)
    <3>1. scanner = Shift(bomb, Arms[arm], i) /\ Open(bomb, Arms[arm], i, blocks)
      BY <2>1 DEF LoopInv
    <3> QED BY <2>2, <2>3, <3>1, ShiftAgain
  <2>5. ASSUME is_position_valid(next)
        PROVE  next \in Cells
    <3>1. \A j \in 1 .. i + 1 : is_position_valid(Shift(bomb, Arms[arm], j))
      <4>1. \A j \in 1 .. i + 1 : j \in 1 .. i \/ j = i + 1
        BY <2>3
      <4> QED BY <2>4, <2>5, <4>1 DEF Open
    <3>2. i + 1 \in Nat /\ i + 1 \in 0 .. i + 1
      BY <2>3
    <3> HIDE DEF next
    <3> QED BY <2>2, <2>3, <2>4, <3>1, <3>2, ArmOnBoard
  <2>6. /\ bomb' = bomb /\ blocks' = blocks
        /\ \/ NextArm /\ explosions' = explosions
           \/ is_position_valid(next) /\ explosions' = explosions \cup {next} /\ NextArm
           \/ /\ is_position_valid(next) /\ explosions' = explosions \cup {next}
              /\ scanner' = next /\ i' = i + 1 /\ arm' = arm
    BY <1>3 DEF Scan
  <2> HIDE DEF next
  <2>7. 0 \in 0 .. ExplosionRadius
    BY <1>1
  <2> QED BY <1>1, <1>2, <2>1, <2>3, <2>5, <2>6, <2>7 DEF TypeOK
<1>4. CASE EndOfRadius
  BY <1>1, <1>2, <1>4 DEF EndOfRadius, TypeOK
<1>5. CASE UNCHANGED vars
  BY <1>5 DEF vars, TypeOK
<1> QED BY <1>3, <1>4, <1>5 DEF Next

\* Nothing the loops look at or collect lies off the board.
THEOREM TypeCorrect == Spec => []TypeOK
<1>1. Init => TypeOK
  <2>1. Len(Arms) = 4 /\ ExplosionRadius \in Nat
    BY ArmsAre, CellCoordinates
  <2> QED BY <2>1 DEF Init, TypeOK
<1>2. LoopInv /\ TypeOK /\ [Next]_vars => TypeOK'
  BY TypeStep
<1> QED BY <1>1, <1>2, LoopInvariance, PTL DEF Spec
=============================================================================
