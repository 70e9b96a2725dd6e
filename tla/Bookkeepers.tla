----------------------------- MODULE Bookkeepers -----------------------------
(***************************************************************************)
(* Two bookkeepers of one stream of fills: the Position the backtest       *)
(* engine feeds, and the average cost recomputation of                     *)
(* src/dashboard/pipeline.py, which replays the blotter to check it.       *)
(***************************************************************************)
EXTENDS Position

CONSTANTS Prices,       \* fill prices
          OrderSizes,   \* order quantities
          MaxNet,       \* bound: largest net quantity explored
          MaxFills      \* bound: fills explored

ASSUME PricesAssumption == Prices \subseteq Nat
ASSUME OrderSizesAssumption == OrderSizes \subseteq Nat \ {0}
ASSUME MaxNetAssumption == MaxNet \in Nat

(* Mutant: only a flat position opens at the fill's price.                 *)
Recompute_AveragesFlips(p, signed, price) ==
    LET new == p.quantity + signed
    IN  [quantity |-> new,
         avg_price |-> IF new = 0 THEN 0 ELSE WeightedAverage(p.avg_price, p.quantity, price, signed),
         realized_pnl |-> p.realized_pnl + (IF IsReducing(p, signed) THEN Realized(p, signed, price) ELSE 0)]

(* The loop body of pipeline._reconcile, "independent of Position".        *)
Recompute(p, signed, price) ==
    LET new == p.quantity + signed
        opposed == Opposed(p.quantity, signed)
    IN  [quantity |-> new,
         avg_price |->
            IF new = 0 THEN 0
            ELSE IF p.quantity = 0 \/ ~opposed
            THEN WeightedAverage(p.avg_price, p.quantity, price, signed)
            ELSE IF Opposed(new, p.quantity) THEN price
            ELSE p.avg_price,
         realized_pnl |->
            p.realized_pnl + (IF p.quantity # 0 /\ opposed THEN Realized(p, signed, price) ELSE 0)]

-----------------------------------------------------------------------------
VARIABLES position,     \* the engine's Position
          recomputed,   \* qty, avg and realized of the reconciliation
          fills         \* fills so far

vars == <<position, recomputed, fills>>

Init ==
    /\ position = Flat
    /\ recomputed = Flat
    /\ fills = 0

(* One fill, booked by the engine and, from its blotter row, recomputed.   *)
Book(signed, price) ==
    /\ fills < MaxFills
    /\ Abs(position.quantity + signed) <= MaxNet
    /\ position' = ApplyFill(position, signed, price)
    /\ recomputed' = Recompute(recomputed, signed, price)
    /\ fills' = fills + 1

Buy == \E quantity \in OrderSizes, price \in Prices : Book(quantity, price)

Sell == \E quantity \in OrderSizes, price \in Prices : Book(-quantity, price)

Next == Buy \/ Sell

Spec == Init /\ [][Next]_vars

-----------------------------------------------------------------------------
TypeOK ==
    /\ position \in Positions
    /\ recomputed \in Positions
    /\ fills \in Nat

(* The reconciliation panel matches to the paisa: quantity, average and    *)
(* realized P&L recomputed from the blotter are the engine's               *)
(* (pipeline._reconcile against Position.apply_fill).                      *)
Reconciled == recomputed = position
=============================================================================
