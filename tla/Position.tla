------------------------------ MODULE Position ------------------------------
(***************************************************************************)
(* src/core/position.py: the running position built by replaying fills, as *)
(* functions of a position and a fill.  A fill is its signed quantity      *)
(* (positive for BUY) and its price; one of another instrument is refused  *)
(* before any change and left out.  Prices are integers, scaled by whoever *)
(* instantiates the module so that every average it can reach is exact.    *)
(***************************************************************************)
EXTENDS Quantities

CONSTANT Multiplier     \* contract lot size

ASSUME MultiplierAssumption == Multiplier \in Nat \ {0}

Positions == [quantity : Int, avg_price : Nat, realized_pnl : Int]

Flat == [quantity |-> 0, avg_price |-> 0, realized_pnl |-> 0]

(* Mutant: short quantities are weighed with their sign.                   *)
WeightedAverage_Signed(avg, quantity, price, signed) ==
    (avg * quantity + price * signed) \div Abs(quantity + signed)

WeightedAverage(avg, quantity, price, signed) ==
    (avg * Abs(quantity) + price * Abs(signed)) \div Abs(quantity + signed)

(* Mutant: the whole fill is realized, not the part of it that closes.     *)
Realized_WholeFill(p, signed, price) ==
    (IF p.quantity > 0 THEN 1 ELSE -1) * Abs(signed) * (price - p.avg_price) * Multiplier

(* What closing part of a position at a price earns.                       *)
Realized(p, signed, price) ==
    (IF p.quantity > 0 THEN 1 ELSE -1) * Smaller(Abs(signed), Abs(p.quantity))
        * (price - p.avg_price) * Multiplier

IsReducing(p, signed) == p.quantity # 0 /\ Opposed(p.quantity, signed)

(* Mutant: a fill that carries the position through zero keeps the old     *)
(* average.                                                                *)
ApplyFill_NoFlip(p, signed, price) ==
    [quantity |-> p.quantity + signed,
     avg_price |->
        IF p.quantity + signed = 0 THEN 0
        ELSE IF (p.quantity >= 0 /\ signed > 0) \/ (p.quantity <= 0 /\ signed < 0)
        THEN WeightedAverage(p.avg_price, p.quantity, price, signed)
        ELSE p.avg_price,
     realized_pnl |-> p.realized_pnl + (IF IsReducing(p, signed) THEN Realized(p, signed, price) ELSE 0)]

(* Position.apply_fill, for a fill of signed quantity.                     *)
ApplyFill(p, signed, price) ==
    LET new == p.quantity + signed
        adding == (p.quantity >= 0 /\ signed > 0) \/ (p.quantity <= 0 /\ signed < 0)
    IN  [quantity |-> new,
         avg_price |->
            IF new = 0 THEN 0
            ELSE IF adding THEN WeightedAverage(p.avg_price, p.quantity, price, signed)
            ELSE IF IsReducing(p, signed) /\ Opposed(new, p.quantity) THEN price
            ELSE p.avg_price,
         realized_pnl |->
            p.realized_pnl + (IF IsReducing(p, signed) THEN Realized(p, signed, price) ELSE 0)]

UnrealizedPnl(p, price) ==
    IF p.quantity = 0 THEN 0 ELSE p.quantity * (price - p.avg_price) * Multiplier
=============================================================================
