---------------------------- MODULE GridStrategy ----------------------------
(***************************************************************************)
(* src/strategy/grid_strategy.py for one instrument: the target quantity   *)
(* and the grid remembered, as functions of the grid, the caller's         *)
(* position, the price, the ATR and where RSI stands.  pyramid_count is    *)
(* left out of the grid: every bar derives it from the position before it  *)
(* is used (Levels).                                                       *)
(***************************************************************************)
EXTENDS Quantities

CONSTANTS SpacingMultiplier,  \* grid_spacing_atr_multiplier
          StopMultiplier,     \* stop_loss_atr_multiplier
          MaxLevels,          \* max_pyramid_levels
          PositionSize,       \* position_size
          NoGrid              \* no entry in _grid_states

ASSUME MultipliersAssumption == {SpacingMultiplier, StopMultiplier} \subseteq Nat \ {0}
ASSUME LevelsAssumption == MaxLevels \in Nat \ {0}
ASSUME SizeAssumption == PositionSize \in Nat \ {0}

(* RSI below the lower threshold, above the upper one, or neither (which a *)
(* missing RSI amounts to).                                                *)
Signals == {"oversold", "overbought", "neutral"}

Sign(n) == IF n > 0 THEN 1 ELSE -1

GridStates == [entry_price : Nat, direction : {-1, 1}]

ASSUME NoGridAssumption == NoGrid \notin GridStates

Grid(entry, direction) == [entry_price |-> entry, direction |-> direction]

(* A position without a grid, "recovering from restart".                   *)
Recovered(position) == Grid(position.avg_price, Sign(position.quantity))

(* Mutant: the stop of a short position is looked for below its entry.     *)
ShouldStopOut_LongOnly(price, grid, stop) == price < grid.entry_price - stop

ShouldStopOut(price, grid, stop) ==
    IF grid.direction > 0
    THEN price < grid.entry_price - stop
    ELSE price > grid.entry_price + stop

Levels(quantity) == Abs(quantity) \div PositionSize

(* Mutant: every level past the first sits at the first.                   *)
NextLevelPrice_FirstOnly(grid, quantity, spacing) ==
    grid.entry_price + grid.direction * spacing

NextLevelPrice(grid, quantity, spacing) ==
    grid.entry_price + grid.direction * spacing * Levels(quantity)

ShouldAddPyramid(price, grid, quantity, spacing) ==
    LET level == NextLevelPrice(grid, quantity, spacing)
    IN  IF grid.direction > 0 THEN price >= level ELSE price <= level

(* Mutant: the limit counts the levels after the first.                    *)
InPosition_OneMore(grid, quantity, price, atr) ==
    IF ShouldStopOut(price, grid, atr * StopMultiplier)
    THEN [target |-> 0, grid |-> NoGrid]
    ELSE [target |-> IF /\ Levels(quantity) <= MaxLevels
                        /\ ShouldAddPyramid(price, grid, quantity, atr * SpacingMultiplier)
                     THEN quantity + PositionSize * grid.direction
                     ELSE quantity,
          grid |-> grid]

InPosition(grid, quantity, price, atr) ==
    IF ShouldStopOut(price, grid, atr * StopMultiplier)
    THEN [target |-> 0, grid |-> NoGrid]
    ELSE [target |-> IF /\ Levels(quantity) < MaxLevels
                        /\ ShouldAddPyramid(price, grid, quantity, atr * SpacingMultiplier)
                     THEN quantity + PositionSize * grid.direction
                     ELSE quantity,
          grid |-> grid]

(* Mutant: a grid that is already there is not replaced by an entry.       *)
Entry_KeepsGrid(grid, price, signal) ==
    LET Enter(direction) ==
            [target |-> PositionSize * direction,
             grid |-> IF grid = NoGrid THEN Grid(price, direction) ELSE grid]
    IN  CASE signal = "oversold" -> Enter(1)
          [] signal = "overbought" -> Enter(-1)
          [] OTHER -> [target |-> 0, grid |-> grid]

(* Flat: a grid left by an entry that was not filled is replaced by the    *)
(* next entry, and kept until then.                                        *)
Entry(grid, price, signal) ==
    LET Enter(direction) ==
            [target |-> PositionSize * direction, grid |-> Grid(price, direction)]
    IN  CASE signal = "oversold" -> Enter(1)
          [] signal = "overbought" -> Enter(-1)
          [] OTHER -> [target |-> 0, grid |-> grid]

CalculateTarget(grid, position, price, atr, signal) ==
    IF position.quantity # 0
    THEN InPosition(IF grid = NoGrid THEN Recovered(position) ELSE grid,
                    position.quantity, price, atr)
    ELSE Entry(grid, price, signal)
=============================================================================
