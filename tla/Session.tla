------------------------------ MODULE Session ------------------------------
(***************************************************************************)
(* One dashboard session, src/dashboard/pipeline.py: a first pass over the *)
(* bars runs strategy and risk on a shadow position that takes every       *)
(* target at once and records the targets; a second pass,                  *)
(* BacktestEngine.run_simple of src/backtest/engine.py, orders them one    *)
(* bar later under a risk manager of its own.  Fill prices, costs and      *)
(* P&L are left out here (see Bookkeepers).                                *)
(***************************************************************************)
EXTENDS GridStrategy, StopAndReverse, RiskManager, Sequences

CONSTANTS Closes,   \* closing prices of bars
          Atr,      \* ATR, constant over the session
          BarCount  \* bound: bars of a session

ASSUME ClosesAssumption == Closes \subseteq Nat
ASSUME AtrAssumption == Atr \in Nat \ {0}
ASSUME BarCountAssumption == BarCount \in Nat \ {0}

VARIABLES strategy,     \* config.strategy
          kill_switch,  \* config.kill_switch
          breaker,      \* circuit breaker of the macro snapshot
          shadow,       \* position of the first pass
          grid,         \* the grid strategy's memory
          targets,      \* what the first pass has recorded
          position,     \* quantity of the engine's Position
          pending_qty,  \* order decided at the last bar, if any
          processed,    \* bars the engine is through with
          opened,       \* history: close at which the shadow position was opened
          breached      \* history: bars that closed beyond the stop of a grid position

vars == <<strategy, kill_switch, breaker, shadow, grid, targets, position, pending_qty, processed,
          opened, breached>>

config == <<strategy, kill_switch, breaker>>
history == <<opened, breached>>

Init ==
    /\ strategy \in {"grid", "sar"}
    /\ kill_switch \in BOOLEAN
    /\ breaker \in BOOLEAN
    /\ shadow = [quantity |-> 0, avg_price |-> 0]
    /\ grid = NoGrid
    /\ targets = <<>>
    /\ position = 0
    /\ pending_qty = 0
    /\ processed = 0
    /\ opened = 0
    /\ breached = {}

Desired(close, signal) ==
    IF strategy = "grid"
    THEN CalculateTarget(grid, shadow, close, Atr, signal)
    ELSE [target |-> ReverseTarget(shadow.quantity, signal, PositionSize), grid |-> grid]

(* A bar for which an indicator is not available yet keeps the position.   *)
WarmUp ==
    /\ Len(targets) < BarCount
    /\ targets' = Append(targets, shadow.quantity)
    /\ UNCHANGED <<config, shadow, grid, position, pending_qty, processed, history>>

Final(desired) == Held(shadow.quantity, desired, breaker, kill_switch)

(* A close in which the grid's position has lost more than the stop allows *)
(* since it was opened.                                                    *)
Breach(close) ==
    /\ strategy = "grid"
    /\ shadow.quantity # 0
    /\ Sign(shadow.quantity) * (opened - close) > Atr * StopMultiplier

Generate(close, signal) ==
    LET answer == Desired(close, signal)
        final == Final(answer.target)
    IN  /\ Len(targets) < BarCount
        /\ grid' = answer.grid
        /\ shadow' = [quantity |-> final,
                      avg_price |-> IF shadow.quantity = 0 /\ final # 0
                                    THEN close ELSE shadow.avg_price]
        /\ targets' = Append(targets, final)
        /\ opened' = IF shadow.quantity = 0 THEN close ELSE opened
        /\ breached' = IF Breach(close) THEN breached \cup {Len(targets) + 1} ELSE breached
        /\ UNCHANGED <<config, position, pending_qty, processed>>

(* Mutant: the target is ordered whole, whatever is held.                  *)
Order_WholeTarget(held, target) ==
    LET decision == Evaluate(held, target, breaker, kill_switch)
    IN  IF decision.allowed THEN decision.target ELSE 0

(* The order for a target when held lots are in the position.              *)
Order(held, target) ==
    LET decision == Evaluate(held, target, breaker, kill_switch)
    IN  IF decision.allowed THEN decision.target - held ELSE 0

(* One iteration of run_simple: the order of the last bar fills at this    *)
(* bar's open, and unless this is the last bar its target is ordered.      *)
EngineBar ==
    LET held == position + pending_qty
        bar == processed + 1
    IN  /\ Len(targets) = BarCount
        /\ processed < BarCount
        /\ position' = held
        /\ pending_qty' = IF bar = BarCount THEN 0 ELSE Order(held, targets[bar])
        /\ processed' = bar
        /\ UNCHANGED <<config, shadow, grid, targets, history>>

Next ==
    \/ WarmUp
    \/ \E close \in Closes, signal \in Signals : Generate(close, signal)
    \/ EngineBar

Spec == Init /\ [][Next]_vars

-----------------------------------------------------------------------------
TypeOK ==
    /\ shadow \in [quantity : Int, avg_price : Nat]
    /\ grid = NoGrid \/ grid \in GridStates
    /\ targets \in Seq(Int)
    /\ Len(targets) <= BarCount
    /\ position \in Int
    /\ pending_qty \in Int
    /\ processed \in 0..BarCount
    /\ opened \in Nat
    /\ breached \subseteq 1..BarCount

(* The engine trades what the first pass planned: at every close it holds  *)
(* the target recorded one bar before and, but for the last bar, whose     *)
(* signal is not executed, has ordered the rest of this bar's target.  Its *)
(* own risk check never changes a target the first pass let through        *)
(* ("tracking the position the orders would produce").                     *)
EngineFollowsPlan ==
    /\ processed >= 2 => position = targets[processed - 1]
    /\ processed \in 1..BarCount - 1 => position + pending_qty = targets[processed]

(* A stop is carried out: when a bar closes beyond the stop distance from  *)
(* the close at which the first pass opened its position, whatever levels  *)
(* it has added since, the engine is flat at the close of the next bar     *)
(* (grid_strategy.py:119-131, pipeline.py:233-243, engine.py:126-178).     *)
(* After the last bar no order is filled any more.                         *)
StopCarriedOut == processed >= 2 /\ processed - 1 \in breached => position = 0

(* Stop-and-reverse is "always in the market": once the engine has entered *)
(* it reverses in one order, through zero, and is never left flat by the   *)
(* cap.  The switches stay as they are during a session, so that none can  *)
(* flatten what was entered while both were off.                           *)
AlwaysInTheMarket ==
    [][strategy = "sar" /\ position # 0 => position' # 0]_vars
=============================================================================
