----------------------------- MODULE GridTrading -----------------------------
(***************************************************************************)
(* The grid strategy at work: each bar, its target passes through the risk *)
(* manager, the difference to the position is ordered, and the order fills *)
(* or comes to nothing (rejected, disconnected, timed out unsent).  The    *)
(* loop is the one of src/dashboard/pipeline.py (_generate_targets).  That *)
(* orders may fail (Settle), that the strategy may be restarted with a     *)
(* position open (Restart) and that the switches change between bars       *)
(* (Regime) is the surroundings' part: the repository has no program that  *)
(* trades live, but the strategy's comments provide for all three.         *)
(***************************************************************************)
EXTENDS GridStrategy, RiskManager, Position

CONSTANTS Prices,   \* closing prices, at which orders fill
          Atrs      \* values of ATR

ASSUME PricesAssumption == Prices \subseteq Nat
ASSUME AtrsAssumption == Atrs \subseteq Nat \ {0}

VARIABLES position,     \* Position
          grid,         \* the strategy's entry in _grid_states
          kill_switch,  \* RiskManager's flag
          breaker,      \* circuit breaker of the macro regime
          delivered,    \* the last bar's order, if any, was filled
          bar,          \* history: the last bar
          opened,       \* history: price at which the position was opened
          best          \* history: most favourable close since

vars == <<position, grid, kill_switch, breaker, delivered, bar, opened, best>>

Bars == [price : Prices, atr : Atrs]

Init ==
    /\ position = Flat
    /\ grid = NoGrid
    /\ kill_switch \in BOOLEAN
    /\ breaker = FALSE
    /\ delivered = TRUE
    /\ bar \in Bars
    /\ opened = 0
    /\ best = 0

Favourable(quantity, m, n) ==
    IF quantity > 0 THEN IF m > n THEN m ELSE n
                    ELSE Smaller(m, n)

(* Realized P&L, which the strategy does not read, is left out.            *)
Unrealized(p) == [p EXCEPT !.realized_pnl = 0]

(* The order for held, if one is needed, fills at this close or comes to   *)
(* nothing.                                                                *)
Settle(held, price, filled) ==
    LET new == IF held = position.quantity \/ ~filled
               THEN position
               ELSE Unrealized(ApplyFill(position, held - position.quantity, price))
    IN  /\ position' = new
        /\ opened' = IF new.quantity = 0 THEN 0
                     ELSE IF position.quantity = 0 THEN price ELSE opened
        /\ best' = IF new.quantity = 0 THEN 0
                   ELSE IF position.quantity = 0 THEN price
                   ELSE Favourable(new.quantity, best, price)
        /\ delivered' = (held = new.quantity)

Bar(price, atr, signal, filled) ==
    LET answer == CalculateTarget(grid, position, price, atr, signal)
    IN  /\ bar' = [price |-> price, atr |-> atr]
        /\ grid' = answer.grid
        /\ Settle(Held(position.quantity, answer.target, breaker, kill_switch), price, filled)
        /\ UNCHANGED <<kill_switch, breaker>>

(* The circuit breaker opens or closes, for whatever reason.               *)
Regime ==
    /\ breaker' = ~breaker
    /\ UNCHANGED <<position, grid, kill_switch, delivered, bar, opened, best>>

(* The strategy forgets its grids, the position is kept; the kill switch   *)
(* may be given anew.                                                      *)
Restart ==
    /\ grid' = NoGrid
    /\ kill_switch' \in BOOLEAN
    /\ UNCHANGED <<position, breaker, delivered, bar, opened, best>>

Next ==
    \/ \E price \in Prices, atr \in Atrs, signal \in Signals, filled \in BOOLEAN :
            Bar(price, atr, signal, filled)
    \/ Regime
    \/ Restart

Spec == Init /\ [][Next]_vars

-----------------------------------------------------------------------------
TypeOK ==
    /\ position \in Positions
    /\ grid = NoGrid \/ grid \in GridStates
    /\ kill_switch \in BOOLEAN
    /\ breaker \in BOOLEAN
    /\ delivered \in BOOLEAN
    /\ bar \in Bars
    /\ opened \in Nat
    /\ best \in Nat

(* What is held never exceeds the pyramid limit, position_size lots a      *)
(* level, however orders fail and the strategy is restarted: a missed or   *)
(* forgotten level is not added twice (max_pyramid_levels).                *)
SizeLimited == Abs(position.quantity) <= PositionSize * MaxLevels

(* The stop and the next level are computed on the side of the position    *)
(* that is open: a grid left over from an entry that never filled does not *)
(* govern a later position on the other side.                              *)
GridOnPositionSide ==
    position.quantity # 0 /\ grid # NoGrid => grid.direction = Sign(position.quantity)

(* A position of k levels, the last one perhaps cut by the cap, was        *)
(* earned: since it was opened, the close has been at least k - 1 grid     *)
(* spacings in its favour ("each add needs a fresh favorable move rather   *)
(* than firing every bar past level 1"), also when adds were rejected on   *)
(* the way and after a restart.                                            *)
LevelsEarned ==
    LET spacing == SpacingMultiplier * (CHOOSE a \in Atrs : \A b \in Atrs : a <= b)
    IN  position.quantity # 0 =>
            Abs(best - opened) >= Levels(Abs(position.quantity) - 1) * spacing

(* The stop is honoured against the price at which the position was        *)
(* opened: after a bar whose order was filled, no position is left beyond  *)
(* the stop distance, whatever the switches say and although a restart     *)
(* replaces the entry price by the average ("at least track stops").       *)
(* Orders fill at the close they were decided on, so that the opening      *)
(* price is the close of the entry; StopCarriedOut in Session has the bar  *)
(* between decision and fill.                                              *)
StopHonoured ==
    position.quantity # 0 /\ delivered =>
        LET loss == IF position.quantity > 0 THEN opened - bar.price ELSE bar.price - opened
        IN  loss <= bar.atr * StopMultiplier

(* No exposure is added while the circuit breaker or the kill switch is    *)
(* on: the position shrinks towards flat or stays.                         *)
NoNewExposure ==
    [][breaker \/ kill_switch =>
        \/ 0 <= position'.quantity /\ position'.quantity <= position.quantity
        \/ position.quantity <= position'.quantity /\ position'.quantity <= 0]_vars
=============================================================================
