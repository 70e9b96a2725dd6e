--------------------------- MODULE GridTrading_proofs ---------------------------
(* What the risk manager guarantees of a decision, and what that gives the *)
(* grid strategy that trades under it: for every price, ATR, cap, size and *)
(* number of levels, however orders fail and the strategy is restarted.    *)
EXTENDS GridTrading, WellFoundedInduction, TLAPS

(* A decision never lets more through than the cap, long or short.         *)
THEOREM DecisionCapped ==
    ASSUME NEW current \in Int, NEW desired \in Int,
           NEW circuit \in BOOLEAN, NEW kill \in BOOLEAN,
           Evaluate(current, desired, circuit, kill).allowed
    PROVE  Abs(Evaluate(current, desired, circuit, kill).target) <= MaxPosition
  BY MaxPositionAssumption
  DEF Evaluate, RestrictToReduction, Allowed, Rejected, ApplyPositionCap, IsFlip, Increases, Opposed, Abs

(* Under the circuit breaker or the kill switch, what is held afterwards   *)
(* lies between flat and what was held before: no larger, and never on the *)
(* other side.                                                             *)
THEOREM NothingAdded ==
    ASSUME NEW current \in Int, NEW desired \in Int,
           NEW circuit \in BOOLEAN, NEW kill \in BOOLEAN,
           circuit \/ kill
    PROVE  LET held == Held(current, desired, circuit, kill)
           IN  \/ 0 <= held /\ held <= current
               \/ current <= held /\ held <= 0
  BY MaxPositionAssumption
  DEF Held, Evaluate, RestrictToReduction, Allowed, Rejected, ApplyPositionCap, IsFlip,
      Increases, Opposed, Abs

(* The switches never trap a position: going flat is always allowed.       *)
THEOREM FlatteningAllowed ==
    ASSUME NEW current \in Int, NEW circuit \in BOOLEAN, NEW kill \in BOOLEAN
    PROVE  Evaluate(current, 0, circuit, kill) = Allowed(0)
<1>1. ApplyPositionCap(0) = 0
  BY MaxPositionAssumption DEF ApplyPositionCap
<1>2. ~IsFlip(current, 0) /\ ~Increases(current, 0)
  BY DEF IsFlip, Increases, Opposed, Abs
<1>. QED
  BY <1>1, <1>2 DEF Evaluate, RestrictToReduction

-----------------------------------------------------------------------------
(* What risk makes of the grid's targets.                                  *)

LEMMA HeldStays ==
    ASSUME NEW current \in Int, Abs(current) <= MaxPosition,
           NEW circuit \in BOOLEAN, NEW kill \in BOOLEAN
    PROVE  Held(current, current, circuit, kill) = current
  BY MaxPositionAssumption
  DEF Held, Evaluate, RestrictToReduction, Allowed, Rejected, ApplyPositionCap, IsFlip,
      Increases, Opposed, Abs

LEMMA HeldInteger ==
    ASSUME NEW current \in Int, NEW desired \in Int,
           NEW circuit \in BOOLEAN, NEW kill \in BOOLEAN
    PROVE  Held(current, desired, circuit, kill) \in Int
  BY MaxPositionAssumption
  DEF Held, Evaluate, RestrictToReduction, Allowed, Rejected, ApplyPositionCap

LEMMA HeldFlat ==
    ASSUME NEW current \in Int, NEW circuit \in BOOLEAN, NEW kill \in BOOLEAN
    PROVE  Held(current, 0, circuit, kill) = 0
  BY FlatteningAllowed DEF Held, Allowed

(* One size more on the side that is held: nothing, or as much of it as    *)
(* fits under the cap.                                                     *)
Grown(current, direction) == direction * Smaller(Abs(current) + PositionSize, MaxPosition)

LEMMA HeldGrows ==
    ASSUME NEW current \in Int, Abs(current) <= MaxPosition,
           NEW direction \in {-1, 1}, current # 0 => direction = Sign(current),
           NEW circuit \in BOOLEAN, NEW kill \in BOOLEAN
    PROVE  Held(current, current + PositionSize * direction, circuit, kill)
               \in {current, Grown(current, direction)}
<1>. PositionSize \in Nat \ {0} /\ MaxPosition \in Nat \ {0}
  BY SizeAssumption, MaxPositionAssumption
<1>1. CASE direction = 1
  BY <1>1
  DEF Held, Evaluate, RestrictToReduction, Allowed, Rejected, ApplyPositionCap, IsFlip,
      Increases, Opposed, Abs, Grown, Smaller, Sign
<1>2. CASE direction = -1
  BY <1>2
  DEF Held, Evaluate, RestrictToReduction, Allowed, Rejected, ApplyPositionCap, IsFlip,
      Increases, Opposed, Abs, Grown, Smaller, Sign
<1>. QED
  BY <1>1, <1>2

-----------------------------------------------------------------------------
(* Products and quotients.                                                 *)

LEMMA ProductType ==
    ASSUME NEW a \in Nat, NEW b \in Nat
    PROVE  a * b \in Nat
  OBVIOUS

LEMMA ProductMonotone ==
    ASSUME NEW a \in Nat, NEW b \in Nat, NEW c \in Nat, a <= b
    PROVE  a * c <= b * c
<1>1. b - a \in Nat
  OBVIOUS
<1>2. (b - a) * c \in Nat
  BY <1>1, ProductType
<1>3. b * c = a * c + (b - a) * c
  OBVIOUS
<1>. QED
  BY <1>2, <1>3

LEMMA Quotient ==
    ASSUME NEW n \in Nat, NEW d \in Nat \ {0}
    PROVE  /\ n \div d \in Nat
           /\ (n \div d) * d <= n
           /\ n < (n \div d + 1) * d
  OBVIOUS

LEMMA QuotientAtMost ==
    ASSUME NEW n \in Nat, NEW d \in Nat \ {0}, NEW k \in Nat, n < (k + 1) * d
    PROVE  n \div d <= k
<1>. DEFINE x == n \div d
<1>1. x \in Nat /\ x * d <= n
  BY Quotient
<1>. HIDE DEF x
<1>. SUFFICES ASSUME k + 1 <= x
              PROVE  FALSE
  BY <1>1 DEF x
<1>2. (k + 1) * d <= x * d
  BY <1>1, ProductMonotone
<1>3. (k + 1) * d \in Nat /\ x * d \in Nat
  BY <1>1, ProductType
<1>. QED
  BY <1>1, <1>2, <1>3

LEMMA QuotientAtLeast ==
    ASSUME NEW n \in Nat, NEW d \in Nat \ {0}, NEW k \in Nat, k * d <= n
    PROVE  k <= n \div d
<1>. DEFINE x == n \div d
<1>1. x \in Nat /\ n < (x + 1) * d
  BY Quotient
<1>. HIDE DEF x
<1>. SUFFICES ASSUME x + 1 <= k
              PROVE  FALSE
  BY <1>1 DEF x
<1>2. (x + 1) * d <= k * d
  BY <1>1, ProductMonotone
<1>3. (x + 1) * d \in Nat /\ k * d \in Nat
  BY <1>1, ProductType
<1>. QED
  BY <1>1, <1>2, <1>3

LEMMA QuotientExact ==
    ASSUME NEW k \in Nat, NEW d \in Nat \ {0}
    PROVE  (k * d) \div d = k
<1>1. k * d \in Nat /\ k * d < (k + 1) * d
  <2>1. (k + 1) * d = k * d + d
    OBVIOUS
  <2>. QED
    BY <2>1, ProductType
<1>2. (k * d) \div d \in Nat
  BY <1>1, Quotient
<1>. QED
  BY <1>1, <1>2, QuotientAtMost, QuotientAtLeast

-----------------------------------------------------------------------------
(* The inductive invariant.  The grid's answer depends on the position as  *)
(* a number of levels (Lots: a whole number of lots, but for a last one    *)
(* cut by the cap) and on an entry price that a restart moves; so the      *)
(* prices it can be computed from are never behind the opening (Ahead).    *)

Ahead(quantity, m, n) == IF quantity > 0 THEN m >= n ELSE m <= n

Lots(quantity) ==
    /\ Abs(quantity) <= MaxPosition
    /\ Abs(quantity) = MaxPosition \/ \E k \in Nat : Abs(quantity) = k * PositionSize

GridIs(g, quantity) ==
    /\ g.direction = Sign(quantity)
    /\ Ahead(quantity, g.entry_price, opened)

PricesAhead ==
    position.quantity # 0 =>
        /\ Ahead(position.quantity, position.avg_price, opened)
        /\ Ahead(position.quantity, best, opened)
        /\ grid # NoGrid => GridIs(grid, position.quantity)

IInv ==
    /\ TypeOK
    /\ Lots(position.quantity)
    /\ PricesAhead
    /\ SizeLimited
    /\ LevelsEarned
    /\ StopHonoured

-----------------------------------------------------------------------------
(* One bar: the strategy's answer, ...                                     *)

LEMMA Constants ==
    /\ PositionSize \in Nat \ {0} /\ MaxPosition \in Nat \ {0} /\ MaxLevels \in Nat \ {0}
    /\ SpacingMultiplier \in Nat \ {0} /\ StopMultiplier \in Nat \ {0}
    /\ Prices \subseteq Nat /\ Atrs \subseteq Nat \ {0}
  BY SizeAssumption, MaxPositionAssumption, LevelsAssumption, MultipliersAssumption,
     PricesAssumption, AtrsAssumption

LEMMA AnswerWhenFlat ==
    ASSUME position.quantity = 0, NEW price \in Nat, NEW atr \in Nat, NEW signal \in Signals
    PROVE  LET answer == CalculateTarget(grid, position, price, atr, signal)
           IN  \/ answer.target = 0 /\ answer.grid = grid
               \/ \E d \in {-1, 1} : answer.target = 0 + PositionSize * d /\ answer.grid = Grid(price, d)
<1>1. CASE signal = "oversold"
  <2>1. CalculateTarget(grid, position, price, atr, signal)
            = [target |-> PositionSize * 1, grid |-> Grid(price, 1)]
    BY <1>1 DEF CalculateTarget, Entry
  <2>. QED
    BY <2>1, Constants
<1>2. CASE signal = "overbought"
  <2>1. CalculateTarget(grid, position, price, atr, signal)
            = [target |-> PositionSize * (-1), grid |-> Grid(price, -1)]
    BY <1>2 DEF CalculateTarget, Entry
  <2>. QED
    BY <2>1, Constants
<1>3. CASE signal = "neutral"
  BY <1>3 DEF CalculateTarget, Entry
<1>. QED
  BY <1>1, <1>2, <1>3 DEF Signals

(* ... which, with a position, is to stop out, to hold it or to add to it,  *)
(* on a grid - the one remembered or the one recovered - of its side.      *)
StopsOut(answer) == answer.target = 0 /\ answer.grid = NoGrid

Holds(answer, g) == answer.target = position.quantity /\ answer.grid = g

Adds(answer, g, price, atr) ==
    /\ Levels(position.quantity) < MaxLevels
    /\ ShouldAddPyramid(price, g, position.quantity, atr * SpacingMultiplier)
    /\ answer.target = position.quantity + PositionSize * g.direction
    /\ answer.grid = g

LEMMA AnswerInPosition ==
    ASSUME IInv, position.quantity # 0, NEW price \in Nat, NEW atr \in Nat, NEW signal \in Signals
    PROVE  LET answer == CalculateTarget(grid, position, price, atr, signal)
           IN  \E g \in GridStates :
                 /\ GridIs(g, position.quantity)
                 /\ \/ StopsOut(answer)
                    \/ /\ ~ShouldStopOut(price, g, atr * StopMultiplier)
                       /\ Holds(answer, g) \/ Adds(answer, g, price, atr)
<1>. DEFINE g == IF grid = NoGrid THEN Recovered(position) ELSE grid
<1>1. position.quantity \in Int /\ position.avg_price \in Nat /\ opened \in Nat
  BY DEF IInv, TypeOK, Positions
<1>2. g \in GridStates /\ GridIs(g, position.quantity)
  <2>1. CASE grid = NoGrid
    BY <1>1, <2>1 DEF Recovered, Grid, GridStates, GridIs, IInv, PricesAhead, Sign
  <2>2. CASE grid # NoGrid
    BY <2>2 DEF GridStates, IInv, TypeOK, PricesAhead
  <2>. QED
    BY <2>1, <2>2
<1>3. CalculateTarget(grid, position, price, atr, signal)
          = InPosition(g, position.quantity, price, atr)
  BY DEF CalculateTarget
<1>. HIDE DEF g
<1>. QED
  BY <1>2, <1>3 DEF InPosition, StopsOut, Holds, Adds

(* ... and what becomes of the position.                                   *)
LEMMA AddAhead ==
    ASSUME NEW p \in Positions, NEW signed \in Int, p.quantity # 0, Sign(p.quantity) = Sign(signed),
           signed # 0, NEW price \in Nat, NEW start \in Nat,
           Ahead(p.quantity, p.avg_price, start), Ahead(p.quantity, price, start)
    PROVE  /\ ApplyFill(p, signed, price).avg_price \in Nat
           /\ Ahead(p.quantity, ApplyFill(p, signed, price).avg_price, start)
<1>. DEFINE a == p.avg_price
            m == Abs(p.quantity)
            n == Abs(signed)
<1>1. a \in Nat /\ m \in Nat \ {0} /\ n \in Nat \ {0} /\ p.quantity \in Int
  BY DEF Positions, Abs
<1>2. Abs(p.quantity + signed) = m + n
  BY <1>1 DEF Abs, Sign
<1>3. ApplyFill(p, signed, price).avg_price = (a * m + price * n) \div (m + n)
  BY <1>1, <1>2 DEF ApplyFill, WeightedAverage, Sign, Abs
<1>. HIDE DEF a, m, n
<1>4. a * m \in Nat /\ price * n \in Nat /\ start * m \in Nat /\ start * n \in Nat
  BY <1>1, ProductType
<1>5. start * (m + n) = start * m + start * n /\ (start + 1) * (m + n) = start * m + start * n + m + n
  BY <1>1
<1>6. (a * m + price * n) \div (m + n) \in Nat
  BY <1>1, <1>4, Quotient
<1>7. CASE p.quantity > 0
  <2>1. start * m <= a * m /\ start * n <= price * n
    BY <1>1, <1>7, ProductMonotone DEF Ahead, a
  <2>2. start * (m + n) <= a * m + price * n
    BY <1>4, <1>5, <2>1
  <2>3. start <= (a * m + price * n) \div (m + n)
    BY <1>1, <1>4, <2>2, QuotientAtLeast
  <2>. QED
    BY <1>3, <1>6, <1>7, <2>3 DEF Ahead
<1>8. CASE ~(p.quantity > 0)
  <2>1. a * m <= start * m /\ price * n <= start * n
    BY <1>1, <1>8, ProductMonotone DEF Ahead, a
  <2>2. a * m + price * n < (start + 1) * (m + n)
    BY <1>1, <1>4, <1>5, <2>1
  <2>3. (a * m + price * n) \div (m + n) <= start
    BY <1>1, <1>4, <2>2, QuotientAtMost
  <2>. QED
    BY <1>3, <1>6, <1>8, <2>3 DEF Ahead
<1>. QED
  BY <1>7, <1>8

LEMMA AverageType ==
    ASSUME NEW p \in Positions, NEW signed \in Int, NEW price \in Nat
    PROVE  ApplyFill(p, signed, price).avg_price \in Nat
<1>. DEFINE n == Abs(p.quantity + signed)
<1>1. p.quantity \in Int /\ p.avg_price \in Nat
  BY DEF Positions
<1>2. CASE p.quantity + signed = 0
  BY <1>2 DEF ApplyFill
<1>3. CASE p.quantity + signed # 0
  <2>1. n \in Nat \ {0} /\ Abs(p.quantity) \in Nat /\ Abs(signed) \in Nat
    BY <1>1, <1>3 DEF Abs
  <2>2. p.avg_price * Abs(p.quantity) \in Nat /\ price * Abs(signed) \in Nat
    BY <1>1, <2>1, ProductType
  <2>. HIDE DEF n
  <2>3. (p.avg_price * Abs(p.quantity) + price * Abs(signed)) \div n \in Nat
    BY <2>1, <2>2, Quotient
  <2>. QED
    BY <1>1, <2>3 DEF ApplyFill, WeightedAverage, n
<1>. QED
  BY <1>2, <1>3

LEMMA OpenAt ==
    ASSUME NEW p \in Positions, p.quantity = 0, NEW signed \in Int \ {0}, NEW price \in Nat
    PROVE  ApplyFill(p, signed, price).avg_price = price
<1>. DEFINE n == Abs(signed)
<1>1. n \in Nat \ {0} /\ p.avg_price \in Nat /\ Abs(p.quantity) = 0 /\ Abs(p.quantity + signed) = n
  BY DEF Positions, Abs
<1>2. ApplyFill(p, signed, price).avg_price = (p.avg_price * 0 + price * n) \div n
  BY <1>1 DEF ApplyFill, WeightedAverage
<1>. HIDE DEF n
<1>3. p.avg_price * 0 + price * n = price * n
  BY <1>1, ProductType
<1>. QED
  BY <1>1, <1>2, <1>3, QuotientExact

-----------------------------------------------------------------------------
(* What a bar makes of the invariant, by what becomes of the position.     *)

Spacing == SpacingMultiplier * (CHOOSE a \in Atrs : \A b \in Atrs : a <= b)

LEMMA LeastSpacing ==
    ASSUME NEW atr \in Atrs
    PROVE  Spacing \in Nat /\ Spacing <= atr * SpacingMultiplier
<1>1. PICK x \in Atrs : \A y \in Atrs : ~ (<<y, x>> \in OpToRel(<, Nat))
  <2>1. Atrs \subseteq Nat /\ Atrs # {}
    BY Constants
  <2>. QED
    BY <2>1, NatLessThanWellFounded, WFMin, Zenon
<1>2. \A y \in Atrs : x <= y
  <2>. SUFFICES ASSUME NEW y \in Atrs, y < x
                PROVE  FALSE
    BY Constants
  <2>1. <<y, x>> \in OpToRel(<, Nat)
    BY Constants DEF OpToRel
  <2>. QED
    BY <1>1, <2>1
<1>. DEFINE least == CHOOSE a \in Atrs : \A b \in Atrs : a <= b
<1>3. least \in Atrs /\ least <= atr
  BY <1>2
<1>. HIDE DEF least
<1>4. least \in Nat /\ atr \in Nat /\ SpacingMultiplier \in Nat
  BY <1>3, Constants
<1>5. least * SpacingMultiplier <= atr * SpacingMultiplier
  BY <1>3, <1>4, ProductMonotone
<1>6. Spacing = least * SpacingMultiplier
  BY <1>4 DEF Spacing, least
<1>. QED
  BY <1>4, <1>5, <1>6, ProductType

LEMMA LevelsType ==
    ASSUME NEW n \in Int
    PROVE  Levels(n) \in Nat
<1>1. Abs(n) \in Nat
  BY DEF Abs
<1>. QED
  BY <1>1, Constants, Quotient DEF Levels

(* What every bar leaves alone or sets, whatever happens to the order.     *)
Ticked(price, atr) ==
    /\ position' \in Positions
    /\ grid' = NoGrid \/ grid' \in GridStates
    /\ kill_switch' \in BOOLEAN /\ breaker' \in BOOLEAN /\ delivered' \in BOOLEAN
    /\ bar' = [price |-> price, atr |-> atr]

LEMMA AfterFlat ==
    ASSUME NEW price \in Prices, NEW atr \in Atrs, Ticked(price, atr),
           position'.quantity = 0, opened' = 0, best' = 0
    PROVE  IInv'
<1>1. TypeOK'
  BY DEF Ticked, TypeOK, GridStates, Bars
<1>2. Lots(position.quantity)'
  <2>1. Abs(0) = 0 * PositionSize /\ Abs(0) <= MaxPosition
    BY Constants DEF Abs
  <2>. QED
    BY <2>1 DEF Lots
<1>3. SizeLimited'
  <2>1. PositionSize * MaxLevels \in Nat
    BY Constants, ProductType
  <2>. QED
    BY <2>1 DEF SizeLimited, Abs
<1>. QED
  BY <1>1, <1>2, <1>3 DEF IInv, PricesAhead, LevelsEarned, StopHonoured

LEMMA AfterOpening ==
    ASSUME NEW price \in Prices, NEW atr \in Atrs, Ticked(price, atr), NEW d \in {-1, 1},
           position'.quantity = Grown(0, d), position'.avg_price = price,
           grid' = Grid(price, d), opened' = price, best' = price
    PROVE  IInv'
<1>. DEFINE n == Smaller(PositionSize, MaxPosition)
<1>1. n \in Nat \ {0} /\ n <= PositionSize /\ n <= MaxPosition
  BY Constants DEF Smaller
<1>2. Grown(0, d) = d * n /\ Grown(0, d) \in Int
  BY Constants DEF Grown, Smaller, Abs
<1>3. Abs(Grown(0, d)) = n /\ Sign(Grown(0, d)) = d /\ Grown(0, d) # 0
  BY <1>1, <1>2 DEF Abs, Sign
<1>4. price \in Nat /\ atr \in Nat
  BY Constants
<1>5. TypeOK'
  BY <1>4 DEF Ticked, TypeOK, GridStates, Bars
<1>6. Lots(position.quantity)'
  <2>1. n = MaxPosition \/ n = 1 * PositionSize
    BY Constants DEF Smaller
  <2>. QED
    BY <1>1, <1>3, <2>1 DEF Lots
<1>7. PricesAhead'
  BY <1>3, <1>4 DEF PricesAhead, GridIs, Ahead, Grid
<1>8. SizeLimited'
  <2>1. PositionSize <= PositionSize * MaxLevels
    <3>1. 1 * PositionSize <= MaxLevels * PositionSize
      BY Constants, ProductMonotone
    <3>. QED
      BY <3>1, Constants
  <2>2. PositionSize * MaxLevels \in Nat
    BY Constants, ProductType
  <2>. QED
    BY <1>1, <1>3, <2>1, <2>2, Constants DEF SizeLimited
<1>9. LevelsEarned'
  <2>1. Abs(n - 1) \in Nat /\ Abs(n - 1) < (0 + 1) * PositionSize
    BY <1>1, Constants DEF Abs
  <2>2. Levels(n - 1) = 0
    BY <2>1, Constants, Quotient, QuotientAtMost DEF Levels
  <2>3. Spacing \in Nat
    BY LeastSpacing
  <2>. QED
    BY <1>3, <1>4, <2>2, <2>3 DEF LevelsEarned, Spacing, Abs
<1>10. StopHonoured'
  <2>1. atr * StopMultiplier \in Nat
    BY <1>4, Constants, ProductType
  <2>2. bar.price' = price /\ bar.atr' = atr
    BY DEF Ticked
  <2>. QED
    BY <1>4, <2>1, <2>2 DEF StopHonoured
<1>. QED
  BY <1>5, <1>6, <1>7, <1>8, <1>9, <1>10 DEF IInv

LEMMA AfterHolding ==
    ASSUME IInv, position.quantity # 0,
           NEW price \in Prices, NEW atr \in Atrs, Ticked(price, atr),
           position' = position, opened' = opened,
           best' = Favourable(position.quantity, best, price),
           grid' = NoGrid \/ GridIs(grid', position.quantity),
           delivered' =>
               \E g \in GridStates : /\ GridIs(g, position.quantity)
                                /\ ~ShouldStopOut(price, g, atr * StopMultiplier)
    PROVE  IInv'
<1>. DEFINE q == position.quantity
<1>1. q \in Int /\ opened \in Nat /\ best \in Nat /\ price \in Nat /\ atr \in Nat
  BY Constants DEF IInv, TypeOK, Positions
<1>2. best' \in Nat /\ Ahead(q, best', best) /\ Ahead(q, best, opened)
  BY <1>1 DEF Favourable, Smaller, Ahead, IInv, PricesAhead
<1>3. TypeOK'
  BY <1>1, <1>2 DEF Ticked, TypeOK, GridStates, Bars
<1>4. PricesAhead'
  BY <1>1, <1>2 DEF IInv, PricesAhead, GridIs, Ahead
<1>5. LevelsEarned'
  <2>1. Abs(best - opened) <= Abs(best' - opened)
    BY <1>1, <1>2 DEF Ahead, Abs
  <2>2. Abs(best - opened) \in Nat /\ Abs(best' - opened) \in Nat
    BY <1>1, <1>2 DEF Abs
  <2>3. Levels(Abs(q) - 1) * Spacing \in Nat
    <3>1. Abs(q) - 1 \in Int
      BY <1>1 DEF Abs
    <3>. QED
      BY <3>1, LevelsType, LeastSpacing, ProductType
  <2>4. Levels(Abs(q) - 1) * Spacing <= Abs(best - opened)
    BY DEF IInv, LevelsEarned, Spacing
  <2>. HIDE DEF q
  <2>5. Levels(Abs(q) - 1) * Spacing <= Abs(best' - opened)
    BY <2>1, <2>2, <2>3, <2>4
  <2>. QED
    BY <2>5 DEF LevelsEarned, Spacing, q
<1>6. StopHonoured'
  <2>. SUFFICES ASSUME delivered'
                PROVE  LET loss == IF q > 0 THEN opened - price ELSE price - opened
                       IN  loss <= atr * StopMultiplier
    BY DEF StopHonoured, Ticked
  <2>1. PICK g \in GridStates : /\ GridIs(g, q)
                           /\ ~ShouldStopOut(price, g, atr * StopMultiplier)
    OBVIOUS
  <2>2. atr * StopMultiplier \in Nat
    BY <1>1, Constants, ProductType
  <2>. QED
    BY <1>1, <2>1, <2>2 DEF ShouldStopOut, GridIs, Ahead, Sign, GridStates
<1>. QED
  BY <1>3, <1>4, <1>5, <1>6 DEF IInv, SizeLimited

LEMMA AfterAdding ==
    ASSUME IInv, position.quantity # 0, Abs(position.quantity) # MaxPosition,
           NEW price \in Prices, NEW atr \in Atrs, Ticked(price, atr),
           NEW g \in GridStates, GridIs(g, position.quantity),
           Levels(position.quantity) < MaxLevels,
           ShouldAddPyramid(price, g, position.quantity, atr * SpacingMultiplier),
           ~ShouldStopOut(price, g, atr * StopMultiplier),
           grid' = g,
           position'.quantity = Grown(position.quantity, Sign(position.quantity)),
           position'.avg_price =
               ApplyFill(position, position'.quantity - position.quantity, price).avg_price,
           opened' = opened, best' = Favourable(position'.quantity, best, price)
    PROVE  IInv'
<1>. DEFINE q == position.quantity
            d == Sign(q)
            n == Smaller(Abs(q) + PositionSize, MaxPosition)
            new == d * n
<1>1. q \in Int \ {0} /\ opened \in Nat /\ best \in Nat /\ price \in Nat /\ atr \in Nat
  BY Constants DEF IInv, TypeOK, Positions
<1>2. d \in {-1, 1} /\ Abs(q) \in Nat \ {0} /\ Abs(q) <= MaxPosition /\ q = d * Abs(q)
  BY <1>1 DEF IInv, Lots, Sign, Abs
<1>3. n \in Nat \ {0} /\ n > Abs(q) /\ n <= MaxPosition /\ n <= Abs(q) + PositionSize
  BY <1>2, Constants DEF Smaller
<1>4. new \in Int /\ new # 0 /\ Abs(new) = n /\ Sign(new) = d /\ (new > 0 <=> q > 0)
  <2>. HIDE DEF n, d
  <2>1. d = 1 <=> q > 0
    BY <1>1 DEF Sign, d
  <2>. QED
    BY <1>1, <1>2, <1>3, <2>1 DEF Abs, Sign
<1>5. position'.quantity = new
  BY DEF Grown
<1>6. PICK k \in Nat : Abs(q) = k * PositionSize
  BY DEF IInv, Lots
<1>. HIDE DEF n, d, new
(* The price is ahead of the opening, by a spacing for each level held. *)
<1>7. Levels(q) = k
  <2>1. (k * PositionSize) \div PositionSize = k
    BY Constants, QuotientExact
  <2>. QED
    BY <1>6, <2>1 DEF Levels
<1>8. k * Spacing \in Nat /\ Ahead(q, price, opened) /\ k * Spacing <= Abs(price - opened)
  <2>. DEFINE step == atr * SpacingMultiplier
  <2>1. Spacing \in Nat /\ step \in Nat /\ Spacing <= step
    BY <1>1, Constants, ProductType, LeastSpacing
  <2>2. k * Spacing \in Nat /\ step * k \in Nat /\ k * Spacing <= step * k
    <3>. HIDE DEF step
    <3>1. Spacing * k <= step * k
      BY <2>1, ProductMonotone
    <3>2. Spacing * k = k * Spacing
      BY <2>1
    <3>. QED
      BY <2>1, <3>1, <3>2, ProductType
  <2>. HIDE DEF step
  <2>3. g.entry_price \in Nat /\ g.direction = d /\ Ahead(q, g.entry_price, opened)
    BY DEF GridIs, GridStates, d
  <2>4. IF d > 0 THEN price >= g.entry_price + d * step * k
                 ELSE price <= g.entry_price + d * step * k
    BY <1>7, <2>3 DEF ShouldAddPyramid, NextLevelPrice, step
  <2>5. CASE d = 1
    <3>1. q > 0 /\ d * step * k = step * k
      BY <1>1, <2>1, <2>5 DEF d, Sign
    <3>. QED
      BY <1>1, <2>2, <2>3, <2>4, <2>5, <3>1 DEF Ahead, Abs
  <2>6. CASE d = -1
    <3>1. ~(q > 0) /\ d * step * k = -(step * k)
      BY <1>1, <2>1, <2>6 DEF d, Sign
    <3>. QED
      BY <1>1, <2>2, <2>3, <2>4, <2>6, <3>1 DEF Ahead, Abs
  <2>. QED
    BY <1>2, <2>5, <2>6
<1>9. best' \in Nat /\ Ahead(q, best', price) /\ Ahead(q, best', opened)
  BY <1>1, <1>4, <1>5, <1>8 DEF Favourable, Smaller, Ahead, IInv, PricesAhead
<1>10. TypeOK'
  BY <1>1, <1>9 DEF Ticked, TypeOK, GridStates, Bars
<1>11. Lots(position.quantity)'
  <2>1. n = MaxPosition \/ n = (k + 1) * PositionSize
    BY <1>6, Constants DEF n, Smaller
  <2>. QED
    BY <1>3, <1>4, <1>5, <2>1 DEF Lots
<1>12. PricesAhead'
  <2>1. Ahead(q, position'.avg_price, opened)
    <3>1. position \in Positions /\ new - q \in Int /\ new - q # 0 /\ Sign(new - q) = d
      <4>1. d = 1 => new = n /\ q = Abs(q)
        BY <1>2, <1>3 DEF new
      <4>2. d = -1 => new = -n /\ q = -Abs(q)
        BY <1>2, <1>3 DEF new
      <4>. QED
        BY <1>1, <1>2, <1>3, <4>1, <4>2 DEF IInv, TypeOK, Sign
    <3>2. Ahead(q, position.avg_price, opened)
      BY DEF IInv, PricesAhead
    <3>. QED
      BY <1>1, <1>5, <1>8, <3>1, <3>2, AddAhead DEF d
  <2>. QED
    BY <1>4, <1>5, <1>9, <2>1 DEF PricesAhead, GridIs, Ahead, d
<1>13. SizeLimited'
  <2>1. k + 1 <= MaxLevels /\ k + 1 \in Nat
    BY <1>7, Constants
  <2>2. (k + 1) * PositionSize <= MaxLevels * PositionSize
    BY <2>1, Constants, ProductMonotone
  <2>3. (k + 1) * PositionSize = Abs(q) + PositionSize
    BY <1>6, Constants
  <2>4. MaxLevels * PositionSize = PositionSize * MaxLevels /\ PositionSize * MaxLevels \in Nat
    BY Constants, ProductType
  <2>. QED
    BY <1>2, <1>3, <1>4, <1>5, <2>2, <2>3, <2>4, Constants DEF SizeLimited
<1>14. LevelsEarned'
  <2>1. n - 1 \in Nat /\ Abs(n - 1) = n - 1 /\ n - 1 < (k + 1) * PositionSize
    BY <1>3, <1>6, Constants DEF Abs
  <2>2. Levels(n - 1) <= k /\ Levels(n - 1) \in Nat
    BY <2>1, Constants, Quotient, QuotientAtMost DEF Levels
  <2>3. Levels(n - 1) * Spacing <= k * Spacing /\ Levels(n - 1) * Spacing \in Nat
    BY <2>2, LeastSpacing, ProductMonotone, ProductType
  <2>4. Abs(price - opened) <= Abs(best' - opened)
    BY <1>1, <1>8, <1>9 DEF Ahead, Abs
  <2>5. Abs(price - opened) \in Nat /\ Abs(best' - opened) \in Nat
    BY <1>1, <1>9 DEF Abs
  <2>6. Levels(n - 1) * Spacing <= Abs(best' - opened)
    BY <1>8, <2>3, <2>4, <2>5
  <2>. QED
    BY <1>4, <1>5, <2>6 DEF LevelsEarned, Spacing
<1>15. StopHonoured'
  <2>1. atr * StopMultiplier \in Nat
    BY <1>1, Constants, ProductType
  <2>2. bar'.price = price /\ bar'.atr = atr
    BY DEF Ticked
  <2>3. LET loss == IF q > 0 THEN opened - price ELSE price - opened
        IN  loss <= atr * StopMultiplier
    BY <1>1, <1>8, <2>1 DEF Ahead
  <2>. QED
    BY <1>4, <1>5, <2>2, <2>3 DEF StopHonoured
<1>. QED
  BY <1>10, <1>11, <1>12, <1>13, <1>14, <1>15 DEF IInv

-----------------------------------------------------------------------------
(* The order for what is held: filled, or not.                             *)
LEMMA Unfilled ==
    ASSUME NEW held, NEW price, NEW filled, Settle(held, price, filled),
           held = position.quantity \/ ~filled
    PROVE  /\ position' = position
           /\ opened' = IF position.quantity = 0 THEN 0 ELSE opened
           /\ best' = IF position.quantity = 0 THEN 0
                      ELSE Favourable(position.quantity, best, price)
           /\ delivered' = (held = position.quantity)
  BY DEF Settle

LEMMA Filled ==
    ASSUME position \in Positions, NEW held \in Int, NEW price \in Nat,
           NEW filled, Settle(held, price, filled), held # position.quantity, filled
    PROVE  /\ position' \in [quantity : Int, avg_price : {ApplyFill(position, held - position.quantity, price).avg_price},
                             realized_pnl : {0}]
           /\ position'.quantity = held
           /\ held # 0 =>
                /\ opened' = IF position.quantity = 0 THEN price ELSE opened
                /\ best' = IF position.quantity = 0 THEN price
                           ELSE Favourable(held, best, price)
           /\ held = 0 => opened' = 0 /\ best' = 0
           /\ delivered' = TRUE
<1>. DEFINE new == Unrealized(ApplyFill(position, held - position.quantity, price))
<1>1. position.quantity \in Int
  BY DEF Positions
<1>2. position' = new
  BY DEF Settle
<1>3. ApplyFill(position, held - position.quantity, price).quantity = held
  BY <1>1 DEF ApplyFill
<1>4. new = [quantity |-> held,
             avg_price |-> ApplyFill(position, held - position.quantity, price).avg_price,
             realized_pnl |-> 0]
  BY <1>3 DEF Unrealized, ApplyFill
<1>5. /\ opened' = IF new.quantity = 0 THEN 0
                   ELSE IF position.quantity = 0 THEN price ELSE opened
      /\ best' = IF new.quantity = 0 THEN 0
                 ELSE IF position.quantity = 0 THEN price
                 ELSE Favourable(new.quantity, best, price)
      /\ delivered' = (held = new.quantity)
  BY DEF Settle
<1>. HIDE DEF new
<1>6. new.quantity = held
  BY <1>4
<1>. QED
  BY <1>2, <1>4, <1>5, <1>6

LEMMA BarKeeps ==
    ASSUME IInv, NEW price \in Prices, NEW atr \in Atrs, NEW signal \in Signals,
           NEW filled \in BOOLEAN, Bar(price, atr, signal, filled)
    PROVE  IInv'
<1>. DEFINE q == position.quantity
            answer == CalculateTarget(grid, position, price, atr, signal)
            held == Held(q, answer.target, breaker, kill_switch)
<1>1. /\ q \in Int /\ Abs(q) <= MaxPosition /\ position \in Positions /\ opened \in Nat
      /\ breaker \in BOOLEAN /\ kill_switch \in BOOLEAN
      /\ price \in Nat /\ atr \in Nat
  BY Constants DEF IInv, TypeOK, Positions, Lots
<1>2. /\ grid' = answer.grid /\ bar' = [price |-> price, atr |-> atr]
      /\ Settle(held, price, filled) /\ UNCHANGED <<kill_switch, breaker>>
  BY DEF Bar
<1>. HIDE DEF held, answer
(* With nothing held, nothing stays held or a position is opened. *)
<1>3. CASE q = 0
  <2>1. \/ answer.target = 0 /\ answer.grid = grid
        \/ \E d \in {-1, 1} : answer.target = 0 + PositionSize * d /\ answer.grid = Grid(price, d)
    BY <1>1, <1>3, AnswerWhenFlat DEF answer
  <2>2. \/ held = 0
        \/ \E d \in {-1, 1} : held = Grown(0, d) /\ answer.grid = Grid(price, d)
    BY <1>1, <1>3, <2>1, HeldFlat, HeldGrows DEF held
  <2>3. answer.grid = NoGrid \/ answer.grid \in GridStates
    BY <1>1, <2>1 DEF Grid, GridStates, IInv, TypeOK
  <2>4. CASE held = 0 \/ ~filled
    <3>1. position' = position /\ opened' = 0 /\ best' = 0 /\ delivered' \in BOOLEAN
      BY <1>2, <1>3, <2>4, Unfilled
    <3>2. Ticked(price, atr)
      BY <1>1, <1>2, <2>3, <3>1 DEF Ticked
    <3>. QED
      BY <1>3, <3>1, <3>2, AfterFlat
  <2>5. CASE held # 0 /\ filled
    <3>1. PICK d \in {-1, 1} : held = Grown(0, d) /\ answer.grid = Grid(price, d)
      BY <2>2, <2>5
    <3>2. held \in Int
      BY <3>1, Constants DEF Grown, Smaller, Abs
    <3>3. ApplyFill(position, held - q, price).avg_price = price
      BY <1>1, <1>3, <2>5, <3>2, OpenAt
    <3>4. /\ position' \in [quantity : Int, avg_price : {price}, realized_pnl : {0}]
          /\ position'.quantity = held /\ opened' = price /\ best' = price
          /\ delivered' = TRUE
      BY <1>1, <1>2, <1>3, <2>5, <3>2, <3>3, Filled
    <3>5. Ticked(price, atr) /\ position'.avg_price = price
      BY <1>1, <1>2, <2>3, <3>4 DEF Ticked, Positions
    <3>. QED
      BY <1>2, <3>1, <3>4, <3>5, AfterOpening
  <2>. QED
    BY <2>4, <2>5
(* With a position, it is closed, held or added to. *)
<1>4. CASE q # 0
  <2>1. PICK g \in GridStates :
          /\ GridIs(g, q)
          /\ \/ StopsOut(answer)
             \/ /\ ~ShouldStopOut(price, g, atr * StopMultiplier)
                /\ Holds(answer, g) \/ Adds(answer, g, price, atr)
    BY <1>1, <1>4, AnswerInPosition DEF answer
  <2>2. g.direction = Sign(q) /\ g.direction \in {-1, 1}
    BY <2>1 DEF GridIs, GridStates
  <2>3. StopsOut(answer) => held = 0
    BY <1>1, HeldFlat DEF held, StopsOut
  <2>4. Holds(answer, g) => held = q
    BY <1>1, HeldStays DEF held, Holds
  <2>5. Adds(answer, g, price, atr) => held \in {q, Grown(q, Sign(q))}
    BY <1>1, <1>4, <2>2, HeldGrows DEF held, Adds
  <2>6. grid' = NoGrid \/ grid' = g
    BY <1>2, <2>1 DEF StopsOut, Holds, Adds
  <2>7. CASE held = q \/ ~filled
    <3>1. /\ position' = position /\ opened' = opened
          /\ best' = Favourable(q, best, price) /\ delivered' = (held = q)
      BY <1>2, <1>4, <2>7, Unfilled
    <3>2. Ticked(price, atr)
      BY <1>1, <1>2, <2>6, <3>1 DEF Ticked
    <3>3. delivered' => ~ShouldStopOut(price, g, atr * StopMultiplier)
      BY <1>4, <2>1, <2>3, <3>1
    <3>. QED
      BY <1>4, <2>1, <2>6, <3>1, <3>2, <3>3, AfterHolding
  <2>8. CASE held = 0 /\ filled
    <3>1. held \in Int /\ held # q /\ held = 0 /\ filled
      BY <1>4, <2>8
    <3>2. ApplyFill(position, held - q, price).avg_price = 0
      BY <1>1, <2>8 DEF ApplyFill
    <3>3. /\ position' \in [quantity : Int, avg_price : {ApplyFill(position, held - q, price).avg_price},
                            realized_pnl : {0}]
          /\ position'.quantity = held /\ opened' = 0 /\ best' = 0 /\ delivered' = TRUE
      BY <1>1, <1>2, <3>1, Filled
    <3>4. Ticked(price, atr)
      BY <1>1, <1>2, <2>6, <3>2, <3>3 DEF Ticked, Positions
    <3>. QED
      BY <2>8, <3>3, <3>4, AfterFlat
  <2>9. CASE held # 0 /\ held # q /\ filled
    <3>1. Adds(answer, g, price, atr) /\ held = Grown(q, Sign(q))
          /\ ~ShouldStopOut(price, g, atr * StopMultiplier)
      BY <2>1, <2>3, <2>4, <2>5, <2>9
    <3>2. Abs(q) # MaxPosition /\ held \in Int /\ Sign(held - q) = Sign(q)
          /\ held - q \in Int \ {0}
      BY <1>1, <1>4, <2>9, <3>1, Constants DEF Grown, Smaller, Abs, Sign
    <3>3. /\ position' \in [quantity : Int, avg_price : {ApplyFill(position, held - q, price).avg_price},
                            realized_pnl : {0}]
          /\ position'.quantity = held /\ opened' = opened
          /\ best' = Favourable(held, best, price) /\ delivered' = TRUE
      BY <1>1, <1>2, <1>4, <2>9, <3>2, Filled
    <3>4. ApplyFill(position, held - q, price).avg_price \in Nat
      BY <1>1, <1>4, <3>2, AverageType
    <3>5. position' \in Positions /\ position'.avg_price = ApplyFill(position, held - q, price).avg_price
      BY <3>3, <3>4 DEF Positions
    <3>6. Ticked(price, atr) /\ grid' = g
      BY <1>1, <1>2, <2>6, <3>1, <3>3, <3>5 DEF Ticked, Adds
    <3>. QED
      BY <1>4, <2>1, <3>1, <3>2, <3>3, <3>5, <3>6, AfterAdding DEF Adds
  <2>. QED
    BY <2>7, <2>8, <2>9
<1>. QED
  BY <1>3, <1>4

-----------------------------------------------------------------------------
LEMMA Invariance == Spec => []IInv
<1>1. Init => IInv
  <2>. SUFFICES ASSUME Init
                PROVE  IInv
    OBVIOUS
  <2>1. TypeOK
    <3>1. Flat \in Positions
      BY DEF Flat, Positions
    <3>. QED
      BY <3>1 DEF Init, TypeOK
  <2>2. Abs(0) = 0 * PositionSize /\ Abs(0) <= MaxPosition /\ Abs(0) <= PositionSize * MaxLevels
    BY Constants, ProductType DEF Abs
  <2>. QED
    BY <2>1, <2>2
    DEF Init, Flat, IInv, Lots, PricesAhead, SizeLimited, LevelsEarned, StopHonoured
<1>2. IInv /\ [Next]_vars => IInv'
  <2>. SUFFICES ASSUME IInv, [Next]_vars
                PROVE  IInv'
    OBVIOUS
  <2>1. ASSUME NEW price \in Prices, NEW atr \in Atrs, NEW signal \in Signals,
               NEW filled \in BOOLEAN, Bar(price, atr, signal, filled)
        PROVE  IInv'
    BY <2>1, BarKeeps
  <2>2. CASE Regime
    BY <2>2 DEF Regime, IInv, TypeOK, Lots, PricesAhead, GridIs, SizeLimited, LevelsEarned, StopHonoured
  <2>3. CASE Restart
    BY <2>3 DEF Restart, IInv, TypeOK, Lots, PricesAhead, GridIs, SizeLimited, LevelsEarned, StopHonoured
  <2>4. CASE UNCHANGED vars
    BY <2>4 DEF vars, IInv, TypeOK, Lots, PricesAhead, GridIs, SizeLimited, LevelsEarned, StopHonoured
  <2>. QED
    BY <2>1, <2>2, <2>3, <2>4 DEF Next
<1>. QED
  BY <1>1, <1>2, PTL DEF Spec

(* Type correctness: prices, averages and grids stay what they are.        *)
THEOREM TypeCorrect == Spec => []TypeOK
<1>1. IInv => TypeOK
  BY DEF IInv
<1>. QED
  BY <1>1, Invariance, PTL

(* The pyramid is never larger than max_pyramid_levels lots, whatever      *)
(* orders fail, however often the strategy forgets, and wherever the cap   *)
(* of the risk manager cuts a level.                                       *)
THEOREM PyramidLimited == Spec => []SizeLimited
<1>1. IInv => SizeLimited
  BY DEF IInv
<1>. QED
  BY <1>1, Invariance, PTL

(* The grid that governs a position is of the position's side.             *)
THEOREM GridOfThePosition == Spec => []GridOnPositionSide
<1>1. IInv => GridOnPositionSide
  BY DEF IInv, PricesAhead, GridIs, GridOnPositionSide
<1>. QED
  BY <1>1, Invariance, PTL

(* Every level was paid for by a move in its favour, also across restarts  *)
(* and orders that came to nothing.                                        *)
THEOREM EveryLevelEarned == Spec => []LevelsEarned
<1>1. IInv => LevelsEarned
  BY DEF IInv
<1>. QED
  BY <1>1, Invariance, PTL

(* No position survives a filled bar beyond the stop distance from where   *)
(* it was opened: the average a restart recovers is ahead of the opening.  *)
THEOREM StopAlwaysHonoured == Spec => []StopHonoured
<1>1. IInv => StopHonoured
  BY DEF IInv
<1>. QED
  BY <1>1, Invariance, PTL

(* Whatever the strategy answers and whichever orders fill, a switch that  *)
(* is on lets no exposure be added.                                        *)
THEOREM SwitchesHold == Spec => NoNewExposure
<1>1. IInv /\ [Next]_vars =>
        [breaker \/ kill_switch =>
            \/ 0 <= position'.quantity /\ position'.quantity <= position.quantity
            \/ position.quantity <= position'.quantity /\ position'.quantity <= 0]_vars
  <2>. SUFFICES ASSUME IInv, Next, breaker \/ kill_switch
                PROVE  \/ 0 <= position'.quantity /\ position'.quantity <= position.quantity
                       \/ position.quantity <= position'.quantity /\ position'.quantity <= 0
    OBVIOUS
  <2>1. position.quantity \in Int /\ breaker \in BOOLEAN /\ kill_switch \in BOOLEAN
    BY DEF IInv, TypeOK, Positions
  <2>2. CASE position' = position
    BY <2>1, <2>2
  <2>3. ASSUME NEW price \in Prices, NEW atr \in Atrs, NEW signal \in Signals,
               NEW filled \in BOOLEAN, Bar(price, atr, signal, filled)
        PROVE  position' = position \/
                 \E desired \in Int :
                    position'.quantity = Held(position.quantity, desired, breaker, kill_switch)
    <3>. DEFINE answer == CalculateTarget(grid, position, price, atr, signal)
                held == Held(position.quantity, answer.target, breaker, kill_switch)
    <3>1. answer.target \in Int
      <4>1. price \in Nat /\ atr \in Nat
        BY Constants
      <4>2. CASE position.quantity = 0
        BY <4>1, <4>2, AnswerWhenFlat, Constants
      <4>3. CASE position.quantity # 0
        <5>1. PICK g \in GridStates : StopsOut(answer) \/ Holds(answer, g) \/ Adds(answer, g, price, atr)
          BY <4>1, <4>3, AnswerInPosition
        <5>2. PositionSize * g.direction \in Int
          BY Constants DEF GridStates
        <5>. QED
          BY <2>1, <5>1, <5>2 DEF StopsOut, Holds, Adds
      <4>. QED
        BY <4>2, <4>3
    <3>2. Settle(held, price, filled)
      BY <2>3 DEF Bar
    <3>3. held \in Int /\ position \in Positions /\ price \in Nat
      BY <2>1, <3>1, HeldInteger, Constants DEF IInv, TypeOK
    <3>. HIDE DEF answer, held
    <3>4. position' = position \/ position'.quantity = held
      BY <3>2, <3>3, Filled, Unfilled
    <3>. QED
      BY <3>1, <3>4 DEF held
  <2>. QED
    BY <2>1, <2>2, <2>3, NothingAdded DEF Next, Regime, Restart
<1>. QED
  BY <1>1, Invariance, PTL DEF Spec, NoNewExposure
=============================================================================
