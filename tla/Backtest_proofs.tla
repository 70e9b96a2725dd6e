--------------------------- MODULE Backtest_proofs ---------------------------
(* The two bookkeepers agree on every stream of fills, and so on that of   *)
(* every backtest.                                                         *)
EXTENDS Backtest, TLAPS

(* A weighted average of prices is a price, rounded.                       *)
LEMMA QuotientType ==
    ASSUME NEW a \in Nat, NEW b \in Nat \ {0}
    PROVE  a \div b \in Nat
  OBVIOUS

LEMMA ProductType ==
    ASSUME NEW a \in Nat, NEW b \in Nat
    PROVE  a * b \in Nat
  OBVIOUS

LEMMA AverageType ==
    ASSUME NEW avg \in Nat, NEW quantity \in Int, NEW price \in Nat, NEW signed \in Int,
           quantity + signed # 0
    PROVE  WeightedAverage(avg, quantity, price, signed) \in Nat
<1>1. Abs(quantity) \in Nat /\ Abs(signed) \in Nat /\ Abs(quantity + signed) \in Nat \ {0}
  BY DEF Abs
<1>2. avg * Abs(quantity) \in Nat /\ price * Abs(signed) \in Nat
  BY <1>1, ProductType
<1>3. avg * Abs(quantity) + price * Abs(signed) \in Nat
  BY <1>2
<1>. QED
  BY <1>1, <1>3, QuotientType DEF WeightedAverage

(* One fill: the two algorithms differ in their tests - the engine asks    *)
(* whether the position adds, the recomputation whether it is opposed -    *)
(* and in nothing they compute.                                            *)
LEMMA SameFill ==
    ASSUME NEW p \in Positions, NEW signed \in Int \ {0}, NEW price \in Nat
    PROVE  Recompute(p, signed, price) = ApplyFill(p, signed, price)
<1>. DEFINE new == p.quantity + signed
            adding == (p.quantity >= 0 /\ signed > 0) \/ (p.quantity <= 0 /\ signed < 0)
<1>1. p.quantity \in Int
  BY DEF Positions
<1>2. adding <=> (p.quantity = 0 \/ ~Opposed(p.quantity, signed))
  BY <1>1 DEF Opposed
<1>3. ~adding => IsReducing(p, signed)
  BY <1>1, <1>2 DEF IsReducing
<1>4. IsReducing(p, signed) <=> (p.quantity # 0 /\ Opposed(p.quantity, signed))
  BY DEF IsReducing
<1>. HIDE DEF adding
<1>. QED
  BY <1>2, <1>3, <1>4 DEF Recompute, ApplyFill, adding

LEMMA ApplyFillType ==
    ASSUME NEW p \in Positions, NEW signed \in Int, NEW price \in Nat
    PROVE  ApplyFill(p, signed, price) \in Positions
<1>1. p.quantity \in Int /\ p.avg_price \in Nat /\ p.realized_pnl \in Int
  BY DEF Positions
<1>2. p.quantity + signed \in Int
  BY <1>1
<1>3. p.quantity + signed # 0 => WeightedAverage(p.avg_price, p.quantity, price, signed) \in Nat
  BY <1>1, AverageType
<1>4. Realized(p, signed, price) \in Int
  <2>1. Smaller(Abs(signed), Abs(p.quantity)) \in Int
    BY <1>1 DEF Smaller, Abs
  <2>2. Multiplier \in Int
    BY MultiplierAssumption
  <2>3. (IF p.quantity > 0 THEN 1 ELSE -1) \in Int
    OBVIOUS
  <2>4. price - p.avg_price \in Int
    BY <1>1
  <2>. QED
    BY <2>1, <2>2, <2>3, <2>4 DEF Realized
<1>5. p.realized_pnl + (IF IsReducing(p, signed) THEN Realized(p, signed, price) ELSE 0) \in Int
  BY <1>1, <1>4
<1>. QED
  BY <1>1, <1>2, <1>3, <1>5 DEF ApplyFill, Positions

-----------------------------------------------------------------------------
LEMMA Book_Invariant ==
    ASSUME TypeOK, Reconciled, NEW signed \in Int \ {0}, NEW price \in Nat,
           Book(signed, price)
    PROVE  TypeOK' /\ Reconciled'
<1>1. position \in Positions
  BY DEF TypeOK
<1>2. position' \in Positions /\ recomputed' = position'
  BY <1>1, ApplyFillType, SameFill DEF Book, Reconciled
<1>3. fills' \in Nat
  BY DEF Book, TypeOK
<1>. QED
  BY <1>2, <1>3 DEF TypeOK, Reconciled

LEMMA Invariance == Spec => [](TypeOK /\ Reconciled)
<1>1. Init => TypeOK /\ Reconciled
  BY DEF Init, TypeOK, Reconciled, Flat, Positions
<1>2. TypeOK /\ Reconciled /\ [Next]_vars => (TypeOK /\ Reconciled)'
  <2>. SUFFICES ASSUME TypeOK, Reconciled, [Next]_vars
                PROVE  TypeOK' /\ Reconciled'
    OBVIOUS
  <2>1. CASE Buy
    BY <2>1, Book_Invariant, OrderSizesAssumption, PricesAssumption DEF Buy
  <2>2. CASE Sell
    <3>1. PICK quantity \in OrderSizes, price \in Prices : Book(-quantity, price)
      BY <2>2 DEF Sell
    <3>2. -quantity \in Int \ {0}
      BY OrderSizesAssumption
    <3>. QED
      BY <3>1, <3>2, Book_Invariant, PricesAssumption
  <2>3. CASE UNCHANGED vars
    BY <2>3 DEF vars, TypeOK, Reconciled
  <2>. QED
    BY <2>1, <2>2, <2>3 DEF Next
<1>. QED
  BY <1>1, <1>2, PTL DEF Spec

(* The engine's position keeps its type: an average price is never         *)
(* negative, whatever is bought and sold short.                            *)
THEOREM TypeCorrect == Spec => []TypeOK
  BY Invariance, PTL

(* For every price, order size and lot size, the reconciliation computes   *)
(* from the blotter exactly what apply_fill computed for the engine.  Up   *)
(* to the rounding of floats, the panel never cries wolf.                  *)
THEOREM AlwaysReconciled == Spec => []Reconciled
  BY Invariance, PTL

-----------------------------------------------------------------------------
LEMMA FillPriceType ==
    ASSUME NEW signed \in Int, NEW open \in Nat
    PROVE  FillPrice(signed, open) \in Nat
<1>. DEFINE s == open \div SlippageParts
<1>1. SlippageParts \in Nat \ {0}
  BY RatesAssumption
<1>2. s \in Nat
  BY <1>1, QuotientType
<1>3. s <= open
  <2>1. SlippageParts * s <= open
    BY <1>1
  <2>2. s <= SlippageParts * s
    BY <1>1, <1>2
  <2>3. SlippageParts * s \in Nat
    BY <1>1, <1>2, ProductType
  <2>. HIDE DEF s
  <2>. QED
    BY <1>2, <2>1, <2>2, <2>3
<1>. HIDE DEF s
<1>4. open + s \in Nat /\ open - s \in Nat
  BY <1>2, <1>3
<1>. QED
  BY <1>4 DEF FillPrice, Slippage, s

(* An iteration of the engine books one fill or none.                      *)
LEMMA EngineBarBooks ==
    ASSUME TypeOK, Reconciled, pending_qty \in Int,
           NEW open \in Quotes, NEW closing \in Quotes, NEW target \in -MaxNet..MaxNet,
           EngineBar(open, closing, target)
    PROVE  TypeOK' /\ Reconciled' /\ pending_qty' \in Int
<1>1. open \in Nat /\ target \in Int
  BY QuotesAssumption, MaxNetAssumption
<1>2. TypeOK' /\ Reconciled'
  <2>1. CASE NothingPending
    BY <2>1 DEF NothingPending, vars, TypeOK, Reconciled
  <2>2. CASE FillPending(open)
    <3>1. pending_qty \in Int \ {0} /\ Book(pending_qty, FillPrice(pending_qty, open))
      BY <2>2 DEF FillPending
    <3>2. FillPrice(pending_qty, open) \in Nat
      BY <1>1, FillPriceType
    <3>. QED
      BY <3>1, <3>2, Book_Invariant
  <2>. QED
    BY <2>1, <2>2 DEF EngineBar
<1>3. pending_qty' \in Int
  BY <1>1, <1>2 DEF EngineBar, TypeOK, Positions
<1>. QED
  BY <1>2, <1>3

(* For every price, slippage, target and number of bars, what the panel    *)
(* recomputes from the blotter of a backtest is the engine's position.     *)
THEOREM BacktestsReconcile == RunSpec => []Reconciled
<1>. DEFINE RInv == TypeOK /\ Reconciled /\ pending_qty \in Int
<1>1. RunInit => RInv
  BY DEF RunInit, Init, TypeOK, Reconciled, Flat, Positions
<1>2. RInv /\ [RunNext]_run_vars => RInv'
  <2>. SUFFICES ASSUME RInv, [RunNext]_run_vars
                PROVE  RInv'
    OBVIOUS
  <2>1. CASE RunNext
    BY <2>1, EngineBarBooks DEF RunNext
  <2>2. CASE UNCHANGED run_vars
    BY <2>2 DEF run_vars, vars, TypeOK, Reconciled
  <2>. QED
    BY <2>1, <2>2
<1>. QED
  BY <1>1, <1>2, PTL DEF RunSpec

-----------------------------------------------------------------------------
(* The money.  The model divides whole numbers where the code divides      *)
(* floats, so what follows is about the runs where no division leaves a    *)
(* remainder, whatever the numbers.                                        *)

ExactAverage(p, signed, price) ==
    IsReducing(p, signed)
        \/ WeightedAverage(p.avg_price, p.quantity, price, signed) * Abs(p.quantity + signed)
              = p.avg_price * Abs(p.quantity) + price * Abs(signed)

(* What a position is worth to the books: realized less what was paid for  *)
(* what is held.                                                           *)
Invested(p) == p.quantity * p.avg_price

(* What apply_fill realizes, before the lot size, and what it leaves       *)
(* invested add up to the value of the fill.                               *)
LEMMA FillIsCash ==
    ASSUME NEW p \in Positions, NEW signed \in Int \ {0}, NEW price \in Nat,
           ExactAverage(p, signed, price)
    PROVE  ApplyFill(p, signed, price).realized_pnl
                  - Invested(ApplyFill(p, signed, price)) * Multiplier
               = p.realized_pnl - Invested(p) * Multiplier - signed * price * Multiplier
<1>. DEFINE q == p.quantity
            a == p.avg_price
            new == ApplyFill(p, signed, price)
            part == (IF q > 0 THEN 1 ELSE -1) * Smaller(Abs(signed), Abs(q))
            gain == IF IsReducing(p, signed) THEN part * (price - a) ELSE 0
            adding == (q >= 0 /\ signed > 0) \/ (q <= 0 /\ signed < 0)
<1>1. q \in Int /\ a \in Nat /\ p.realized_pnl \in Int /\ Multiplier \in Nat
  BY MultiplierAssumption DEF Positions
<1>2. part \in Int /\ gain \in Int
  <2>1. part \in Int
    BY <1>1 DEF Smaller, Abs
  <2>2. price - a \in Int
    BY <1>1
  <2>. HIDE DEF part
  <2>. QED
    BY <2>1, <2>2
<1>3. new.realized_pnl = p.realized_pnl + gain * Multiplier
  <2>1. Realized(p, signed, price) = part * (price - a) * Multiplier
    BY DEF Realized
  <2>. HIDE DEF part
  <2>. QED
    BY <1>1, <1>2, <2>1 DEF ApplyFill
<1>4. new.quantity = q + signed
      /\ new.avg_price = IF q + signed = 0 THEN 0
                         ELSE IF adding THEN WeightedAverage(a, q, price, signed)
                         ELSE IF IsReducing(p, signed) /\ Opposed(q + signed, q) THEN price
                         ELSE a
  BY DEF ApplyFill
<1>5. gain - (q + signed) * new.avg_price = -(q * a) - signed * price
  <2>1. CASE adding
    <3>. DEFINE w == WeightedAverage(a, q, price, signed)
    <3>1. ~IsReducing(p, signed) /\ q + signed # 0
      BY <1>1, <2>1 DEF IsReducing, Opposed
    <3>2. w \in Nat
      BY <1>1, <3>1, AverageType
    <3>3. new.avg_price = w /\ gain = 0
      BY <1>4, <2>1, <3>1
    <3>4. w * Abs(q + signed) = a * Abs(q) + price * Abs(signed)
      BY <3>1 DEF ExactAverage
    <3>. HIDE DEF w
    <3>5. CASE q >= 0 /\ signed > 0
      BY <1>1, <3>2, <3>3, <3>4, <3>5 DEF Abs
    <3>6. CASE q <= 0 /\ signed < 0
      <4>1. w * (-(q + signed)) = a * (-q) + price * (-signed)
        BY <1>1, <3>1, <3>4, <3>6 DEF Abs
      <4>2. \A x, y \in Int : x * (-y) = -(x * y)
        OBVIOUS
      <4>3. w * (q + signed) = a * q + price * signed
        BY <1>1, <3>2, <4>1, <4>2
      <4>. HIDE DEF gain
      <4>. QED
        BY <1>1, <3>2, <3>3, <4>3
    <3>. QED
      BY <2>1, <3>5, <3>6
  <2>2. CASE ~adding
    <3>1. IsReducing(p, signed) /\ gain = part * (price - a)
      BY <1>1, <2>2 DEF IsReducing, Opposed
    <3>2. CASE q + signed = 0
      <4>1. new.avg_price = 0 /\ part = q /\ signed = -q
        BY <1>1, <1>4, <2>2, <3>2 DEF Smaller, Abs
      <4>2. gain = q * (price - a) /\ (q + signed) * new.avg_price = 0
        BY <1>1, <3>1, <3>2, <4>1
      <4>3. signed * price = -(q * price)
        BY <1>1, <4>1
      <4>. HIDE DEF part, gain, new
      <4>. QED
        BY <1>1, <4>2, <4>3
    <3>3. CASE q + signed # 0 /\ Opposed(q + signed, q)
      <4>1. new.avg_price = price /\ part = q
        BY <1>1, <1>4, <2>2, <3>1, <3>3 DEF Smaller, Abs, Opposed
      <4>. HIDE DEF part, gain
      <4>. QED
        BY <1>1, <3>1, <4>1
    <3>4. CASE q + signed # 0 /\ ~Opposed(q + signed, q)
      <4>1. new.avg_price = a /\ part = -signed
        BY <1>1, <1>4, <2>2, <3>1, <3>4 DEF Smaller, Abs, Opposed
      <4>. HIDE DEF part, gain
      <4>. QED
        BY <1>1, <3>1, <4>1
    <3>. QED
      BY <3>2, <3>3, <3>4
  <2>. QED
    BY <2>1, <2>2
<1>6. new \in Positions
  BY ApplyFillType
<1>. HIDE DEF new, gain, part, adding
<1>. DEFINE held == (q + signed) * new.avg_price
            before == q * a
            fill == signed * price
<1>7. held \in Int /\ before \in Int /\ fill \in Int /\ gain = held - before - fill
  <2>1. new.avg_price \in Int
    BY <1>6 DEF Positions
  <2>2. (q + signed) * new.avg_price \in Int /\ q * a \in Int /\ signed * price \in Int
    BY <1>1, <2>1
  <2>. QED
    BY <1>2, <1>5, <2>2
<1>8. Invested(new) = held /\ Invested(p) = before
  BY <1>4 DEF Invested
<1>. HIDE DEF held, before, fill
<1>9. gain * Multiplier = held * Multiplier - before * Multiplier - fill * Multiplier
  BY <1>1, <1>7
<1>10. p.realized_pnl + gain * Multiplier - held * Multiplier
          = p.realized_pnl - before * Multiplier - fill * Multiplier
  BY <1>1, <1>2, <1>7, <1>9
<1>. QED
  <2>1. new.realized_pnl - Invested(new) * Multiplier
          = p.realized_pnl - Invested(p) * Multiplier - fill * Multiplier
    BY <1>1, <1>2, <1>3, <1>7, <1>8, <1>10
  <2>. QED
    BY <2>1 DEF new, fill

(* Marking a position: the books plus what it would fetch.                 *)
LEMMA MarkedIsCash ==
    ASSUME NEW p \in Positions, NEW price \in Nat
    PROVE  UnrealizedPnl(p, price) = p.quantity * price * Multiplier - Invested(p) * Multiplier
<1>. DEFINE q == p.quantity
            a == p.avg_price
<1>1. q \in Int /\ a \in Nat /\ Multiplier \in Nat
  BY MultiplierAssumption DEF Positions
<1>2. q * (price - a) = q * price - q * a /\ q * price \in Int /\ q * a \in Int
  BY <1>1
<1>3. q * (price - a) * Multiplier = q * price * Multiplier - q * a * Multiplier
  BY <1>1, <1>2
<1>4. CASE q = 0
  BY <1>1, <1>4 DEF UnrealizedPnl, Invested
<1>. QED
  BY <1>3, <1>4 DEF UnrealizedPnl, Invested

(* Slippage makes a fill worse by itself on each unit, on either side.     *)
LEMMA FillValue ==
    ASSUME NEW signed \in Int, signed # 0, NEW open \in Nat
    PROVE  /\ Slippage(open) \in Nat
           /\ signed * FillPrice(signed, open) * Multiplier
                 = signed * open * Multiplier + Slippage(open) * Abs(signed) * Multiplier
           /\ Slippage(open) * Abs(signed) * Multiplier \in Int
           /\ signed * open * Multiplier \in Int
<1>. DEFINE s == Slippage(open)
<1>1. s \in Nat /\ Multiplier \in Nat
  BY QuotientType, RatesAssumption, MultiplierAssumption DEF Slippage
<1>. HIDE DEF s
<1>2. signed * FillPrice(signed, open) = signed * open + s * Abs(signed)
  <2>1. CASE signed > 0
    BY <1>1, <2>1 DEF FillPrice, Abs, s
  <2>2. CASE signed < 0
    <3>1. signed * (open - s) = signed * open - signed * s /\ s * (-signed) = -(signed * s)
      BY <1>1
    <3>. QED
      BY <1>1, <2>2, <3>1 DEF FillPrice, Abs, s
  <2>. QED
    BY <2>1, <2>2
<1>3. signed * open \in Int /\ s * Abs(signed) \in Int
  BY <1>1 DEF Abs
<1>4. (signed * open + s * Abs(signed)) * Multiplier
         = signed * open * Multiplier + s * Abs(signed) * Multiplier
  BY <1>1, <1>3
<1>5. signed * open * Multiplier \in Int /\ s * Abs(signed) * Multiplier \in Int
  BY <1>1, <1>3
<1>. QED
  BY <1>1, <1>2, <1>4, <1>5 DEF s

(* What the run is worth at its fills, and what it would be at the opens.  *)
AveragesExact ==
    pending_qty # 0 =>
        \A open \in Quotes :
            ExactAverage(position, pending_qty, FillPrice(pending_qty, open))

RunTypes ==
    /\ TypeOK /\ Reconciled
    /\ pending_qty \in Int
    /\ close \in Nat
    /\ {total_slippage, at_open} \subseteq Int

BooksAtOpens ==
    position.realized_pnl - Invested(position) * Multiplier + total_slippage = at_open

LEMMA InvestedType ==
    ASSUME NEW p \in Positions
    PROVE  /\ p.realized_pnl \in Int /\ Invested(p) \in Int
           /\ Invested(p) * Multiplier \in Int
           /\ \A price \in Nat : p.quantity * price * Multiplier \in Int
<1>1. p.quantity \in Int /\ p.avg_price \in Int /\ p.realized_pnl \in Int /\ Multiplier \in Int
  BY MultiplierAssumption DEF Positions
<1>2. \A x, y \in Int : x * y \in Int
  OBVIOUS
<1>. QED
  BY <1>1, <1>2 DEF Invested

LEMMA FillAtOpen ==
    ASSUME RunTypes, BooksAtOpens, NEW open \in Nat, FillPending(open), position' \in Positions,
           ExactAverage(position, pending_qty, FillPrice(pending_qty, open))
    PROVE  BooksAtOpens' /\ {total_slippage', at_open'} \subseteq Int
<1>. DEFINE price == FillPrice(pending_qty, open)
            worse == Slippage(open) * Abs(pending_qty) * Multiplier
            asked == pending_qty * open * Multiplier
            paid == pending_qty * price * Multiplier
            before == position.realized_pnl - Invested(position) * Multiplier
<1>1. /\ pending_qty \in Int \ {0} /\ price \in Nat /\ position \in Positions
      /\ {total_slippage, at_open} \subseteq Int
  BY FillPriceType DEF FillPending, RunTypes, TypeOK
<1>2. paid = asked + worse /\ asked \in Int /\ worse \in Int
  BY <1>1, FillValue
<1>3. position'.realized_pnl - Invested(position)' * Multiplier = before - paid
  <2>1. position' = ApplyFill(position, pending_qty, price)
    BY DEF FillPending, Book
  <2>2. Invested(position)' = Invested(position')
    BY DEF Invested
  <2>. QED
    BY <1>1, <2>1, <2>2, FillIsCash
<1>4. total_slippage' = total_slippage + worse /\ at_open' = at_open - asked
  BY DEF FillPending
<1>5. before \in Int
  BY <1>1, InvestedType
<1>6. before + total_slippage = at_open
  BY DEF BooksAtOpens
<1>. HIDE DEF worse, asked, paid, before
<1>7. before - paid + total_slippage' = at_open' /\ {total_slippage', at_open'} \subseteq Int
  BY <1>1, <1>2, <1>4, <1>5, <1>6
<1>. QED
  BY <1>3, <1>7 DEF BooksAtOpens

LEMMA BarAtOpens ==
    ASSUME RunTypes, BooksAtOpens, AveragesExact,
           NEW open \in Quotes, NEW closing \in Quotes, NEW target \in -MaxNet..MaxNet,
           EngineBar(open, closing, target)
    PROVE  RunTypes' /\ BooksAtOpens'
<1>1. open \in Nat /\ closing \in Nat
  BY QuotesAssumption
<1>2. TypeOK' /\ Reconciled' /\ pending_qty' \in Int
  BY EngineBarBooks DEF RunTypes
<1>3. close' \in Nat
  BY <1>1 DEF EngineBar
<1>4. BooksAtOpens' /\ {total_slippage', at_open'} \subseteq Int
  <2>1. CASE NothingPending
    BY <2>1 DEF NothingPending, vars, totals, RunTypes, BooksAtOpens, Invested
  <2>2. CASE FillPending(open)
    <3>1. ExactAverage(position, pending_qty, FillPrice(pending_qty, open))
      BY <2>2 DEF AveragesExact, FillPending
    <3>. QED
      BY <1>1, <1>2, <2>2, <3>1, FillAtOpen DEF TypeOK
  <2>. QED
    BY <2>1, <2>2 DEF EngineBar
<1>. QED
  BY <1>2, <1>3, <1>4 DEF RunTypes

(* For every stream of quotes, targets, lot size and rate of slippage, if  *)
(* the averages are exact: gross P&L and slippage add up to what the opens *)
(* themselves would have earned.                                           *)
THEOREM SlippageCountedOnce == RunSpec /\ []AveragesExact => []SlippageIsTheDifference
<1>. DEFINE Inv == RunTypes /\ BooksAtOpens
<1>1. RunInit => Inv
  <2>. SUFFICES ASSUME RunInit
                PROVE  Inv
    OBVIOUS
  <2>1. position = Flat /\ Flat \in Positions /\ Invested(position) = 0
    BY DEF RunInit, Init, Flat, Positions, Invested
  <2>2. position.realized_pnl - Invested(position) * Multiplier = 0
    BY <2>1, MultiplierAssumption DEF Flat
  <2>. QED
    BY <2>1, <2>2 DEF RunInit, Init, RunTypes, TypeOK, Reconciled, BooksAtOpens
<1>2. Inv /\ AveragesExact /\ [RunNext]_run_vars => Inv'
  <2>1. Inv /\ AveragesExact /\ RunNext => Inv'
    BY BarAtOpens DEF RunNext
  <2>2. Inv /\ UNCHANGED run_vars => Inv'
    BY DEF run_vars, vars, totals, RunTypes, TypeOK, Reconciled, BooksAtOpens, Invested
  <2>. QED
    BY <2>1, <2>2
<1>3. Inv => SlippageIsTheDifference
  <2>. SUFFICES ASSUME Inv
                PROVE  SlippageIsTheDifference
    OBVIOUS
  <2>. DEFINE worth == position.quantity * close * Multiplier
  <2>1. /\ position \in Positions /\ close \in Nat
        /\ total_slippage \in Int /\ at_open \in Int
    BY DEF RunTypes, TypeOK
  <2>2. UnrealizedPnl(position, close) = worth - Invested(position) * Multiplier
    BY <2>1, MarkedIsCash
  <2>3. /\ position.realized_pnl \in Int /\ Invested(position) * Multiplier \in Int
        /\ worth \in Int
    BY <2>1, InvestedType
  <2>4. position.realized_pnl - Invested(position) * Multiplier + total_slippage = at_open
    BY DEF BooksAtOpens
  <2>. HIDE DEF worth
  <2>5. position.realized_pnl + UnrealizedPnl(position, close) + total_slippage = at_open + worth
    BY <2>1, <2>2, <2>3, <2>4
  <2>. QED
    BY <2>5 DEF SlippageIsTheDifference, worth
<1>. QED
  BY <1>1, <1>2, <1>3, PTL DEF RunSpec

-----------------------------------------------------------------------------
(* The charges.                                                            *)

ExactShare(amount, rate) == amount * rate = Scale * Share(amount, rate)

(* A quotient that leaves no remainder is the only one.                    *)
LEMMA QuotientUnique ==
    ASSUME NEW n \in Nat, NEW k \in Nat, NEW d \in Nat \ {0}, n = d * k
    PROVE  n \div d = k
<1>. DEFINE x == n \div d
<1>1. x \in Nat
  BY QuotientType
<1>2. d * x <= n /\ n < d * x + d
  BY <1>1
<1>. HIDE DEF x
<1>3. \A i, j \in Nat : i < j => d * i + d <= d * j
  <2>. SUFFICES ASSUME NEW i \in Nat, NEW j \in Nat, i < j
                PROVE  d * i + d <= d * j
    OBVIOUS
  <2>1. PICK more \in Nat : j = i + 1 + more
    <3>1. j - i - 1 \in Nat
      OBVIOUS
    <3>. QED
      BY <3>1
  <2>2. d * j = d * i + d + d * more /\ d * more \in Nat
    BY <2>1, ProductType
  <2>. QED
    BY <2>2
<1>4. ~(x < k)
  BY <1>1, <1>2, <1>3
<1>5. ~(k < x)
  <2>1. d * x \in Nat /\ d * k \in Nat
    BY <1>1, ProductType
  <2>. QED
    BY <1>1, <1>2, <1>3, <2>1
<1>6. x = k
  BY <1>1, <1>4, <1>5
<1>. QED
  BY <1>6 DEF x

LEMMA ShareType ==
    ASSUME NEW amount \in Nat, NEW rate \in Nat
    PROVE  Share(amount, rate) \in Nat
  BY ProductType, QuotientType, RatesAssumption DEF Share

LEMMA ShareOfNothing ==
    ASSUME NEW rate \in Nat
    PROVE  Share(0, rate) = 0 /\ ExactShare(0, rate)
<1>1. 0 * rate = Scale * 0 /\ 0 * rate = 0
  BY RatesAssumption
<1>. QED
  BY <1>1, QuotientUnique, RatesAssumption DEF Share, ExactShare

(* Charged on two amounts is charged on their sum.                         *)
LEMMA ShareOfBoth ==
    ASSUME NEW a \in Nat, NEW b \in Nat, NEW rate \in Nat,
           ExactShare(a, rate), ExactShare(b, rate)
    PROVE  /\ Share(a + b, rate) = Share(a, rate) + Share(b, rate)
           /\ ExactShare(a + b, rate)
<1>. DEFINE x == Share(a, rate)
            y == Share(b, rate)
<1>1. x \in Nat /\ y \in Nat /\ Scale \in Nat \ {0}
  BY ShareType, RatesAssumption
<1>2. a * rate = Scale * x /\ b * rate = Scale * y
  BY DEF ExactShare
<1>. HIDE DEF x, y
<1>3. (a + b) * rate = Scale * (x + y)
  <2>1. (a + b) * rate = a * rate + b * rate
    OBVIOUS
  <2>2. Scale * (x + y) = Scale * x + Scale * y
    BY <1>1
  <2>. QED
    BY <1>2, <2>1, <2>2
<1>4. ((a + b) * rate) \div Scale = x + y
  <2>1. (a + b) * rate \in Nat /\ x + y \in Nat
    BY <1>1, ProductType
  <2>. QED
    BY <1>1, <1>3, <2>1, QuotientUnique
<1>. QED
  BY <1>3, <1>4 DEF Share, ExactShare, x, y

(* Charged at two rates is charged at their sum.                           *)
LEMMA ShareAtBoth ==
    ASSUME NEW a \in Nat, NEW rate \in Nat, NEW other \in Nat,
           ExactShare(a, rate), ExactShare(a, other)
    PROVE  /\ Share(a, rate + other) = Share(a, rate) + Share(a, other)
           /\ ExactShare(a, rate + other)
<1>. DEFINE x == Share(a, rate)
            y == Share(a, other)
<1>1. x \in Nat /\ y \in Nat /\ Scale \in Nat \ {0}
  BY ShareType, RatesAssumption
<1>2. a * rate = Scale * x /\ a * other = Scale * y
  BY DEF ExactShare
<1>. HIDE DEF x, y
<1>3. a * (rate + other) = Scale * (x + y)
  <2>1. a * (rate + other) = a * rate + a * other
    OBVIOUS
  <2>2. Scale * (x + y) = Scale * x + Scale * y
    BY <1>1
  <2>. QED
    BY <1>2, <2>1, <2>2
<1>4. (a * (rate + other)) \div Scale = x + y
  <2>1. a * (rate + other) \in Nat /\ x + y \in Nat
    BY <1>1, ProductType
  <2>. QED
    BY <1>1, <1>3, <2>1, QuotientUnique
<1>. QED
  BY <1>3, <1>4 DEF Share, ExactShare, x, y

-----------------------------------------------------------------------------
(* The charges of a fill, and of the turnover of the run.                  *)
FillValueOf(signed, price) == price * Abs(signed) * Multiplier

FillFees(value) == Brokerage + Share(value, ExchangeRate) + Share(value, SebiRate)

TurnoverFees == fills * Brokerage + Share(bought + sold, ExchangeRate + SebiRate)

ChargesExactFor(signed, price) ==
    LET value == FillValueOf(signed, price)
    IN  /\ ExactShare(value, ExchangeRate) /\ ExactShare(value, SebiRate)
        /\ ExactShare(FillFees(value), GstRate)
        /\ ExactShare(value, IF signed < 0 THEN SttRate ELSE StampRate)

ChargesExact ==
    pending_qty # 0 =>
        \A open \in Quotes : ChargesExactFor(pending_qty, FillPrice(pending_qty, open))

MoneyTypes ==
    /\ RunTypes
    /\ bought \in Nat /\ sold \in Nat
    /\ total_costs \in Nat

MoneyPaid == position.realized_pnl - Invested(position) * Multiplier = sold - bought

ChargesLevied ==
    /\ total_costs = Levied
    /\ ExactShare(bought + sold, ExchangeRate + SebiRate)
    /\ ExactShare(TurnoverFees, GstRate)
    /\ ExactShare(sold, SttRate)
    /\ ExactShare(bought, StampRate)

LEMMA RateTypes ==
    /\ Brokerage \in Nat /\ SttRate \in Nat /\ ExchangeRate \in Nat /\ SebiRate \in Nat
    /\ StampRate \in Nat /\ GstRate \in Nat /\ Capital \in Nat
    /\ ExchangeRate + SebiRate \in Nat
  BY RatesAssumption

LEMMA FillLevied ==
    ASSUME MoneyTypes, ChargesLevied, NEW open \in Nat, FillPending(open),
           ChargesExactFor(pending_qty, FillPrice(pending_qty, open))
    PROVE  ChargesLevied' /\ bought' \in Nat /\ sold' \in Nat /\ total_costs' \in Nat
<1>. DEFINE price == FillPrice(pending_qty, open)
            v == FillValueOf(pending_qty, price)
            fee == FillFees(v)
            tax == Share(v, IF pending_qty < 0 THEN SttRate ELSE StampRate)
            both == ExchangeRate + SebiRate
<1>1. /\ pending_qty \in Int \ {0} /\ price \in Nat /\ fills \in Nat
      /\ bought \in Nat /\ sold \in Nat /\ total_costs \in Nat
  BY FillPriceType DEF FillPending, MoneyTypes, RunTypes, TypeOK
<1>2. v \in Nat
  <2>1. Abs(pending_qty) \in Nat /\ Multiplier \in Nat
    BY <1>1, MultiplierAssumption DEF Abs
  <2>. HIDE DEF price
  <2>. QED
    BY <1>1, <2>1, ProductType DEF FillValueOf
<1>3. /\ total_costs' = total_costs + (fee + Share(fee, GstRate) + tax)
      /\ bought' = IF pending_qty > 0 THEN bought + v ELSE bought
      /\ sold' = IF pending_qty < 0 THEN sold + v ELSE sold
      /\ fills' = fills + 1
  BY DEF FillPending, Book, CalculateCosts, FillFees, FillValueOf
<1>4. /\ ExactShare(v, ExchangeRate) /\ ExactShare(v, SebiRate)
      /\ ExactShare(fee, GstRate)
      /\ ExactShare(v, IF pending_qty < 0 THEN SttRate ELSE StampRate)
  BY DEF ChargesExactFor
<1>. HIDE DEF price, v
<1>5. fee \in Nat /\ Share(fee, GstRate) \in Nat /\ tax \in Nat /\ both \in Nat
      /\ fee = Brokerage + Share(v, both) /\ ExactShare(v, both) /\ Share(v, both) \in Nat
  <2>1. Share(v, both) = Share(v, ExchangeRate) + Share(v, SebiRate) /\ ExactShare(v, both)
    BY <1>2, <1>4, ShareAtBoth, RateTypes
  <2>2. /\ Share(v, ExchangeRate) \in Nat /\ Share(v, SebiRate) \in Nat
        /\ Share(v, SttRate) \in Nat /\ Share(v, StampRate) \in Nat
    BY <1>2, ShareType, RateTypes
  <2>3. fee \in Nat /\ fee = Brokerage + Share(v, both)
    BY <2>1, <2>2, RateTypes DEF FillFees
  <2>4. tax \in Nat
    BY <2>2
  <2>5. both \in Nat
    BY RateTypes
  <2>. HIDE DEF fee, tax
  <2>6. Share(fee, GstRate) \in Nat
    BY <2>3, ShareType, RateTypes
  <2>. HIDE DEF both
  <2>7. Share(v, both) \in Nat
    BY <1>2, <2>5, ShareType
  <2>. QED
    BY <2>1, <2>3, <2>4, <2>5, <2>6, <2>7
<1>6. bought' + sold' = (bought + sold) + v /\ bought' \in Nat /\ sold' \in Nat
  BY <1>1, <1>2, <1>3
<1>7. /\ Share(bought' + sold', both) = Share(bought + sold, both) + Share(v, both)
      /\ ExactShare(bought' + sold', both)
      /\ Share(bought + sold, both) \in Nat
  <2>1. ExactShare(bought + sold, both) /\ bought + sold \in Nat
    BY <1>1 DEF ChargesLevied
  <2>. HIDE DEF fee, tax, both
  <2>. QED
    BY <1>2, <1>5, <1>6, <2>1, ShareOfBoth, ShareType
<1>8. TurnoverFees' = TurnoverFees + fee /\ TurnoverFees \in Nat
  <2>1. fills' * Brokerage = fills * Brokerage + Brokerage /\ fills * Brokerage \in Nat
    BY <1>1, <1>3, RateTypes, ProductType
  <2>2. TurnoverFees' = fills' * Brokerage + Share(bought' + sold', both)
    BY DEF TurnoverFees, Share
  <2>3. TurnoverFees = fills * Brokerage + Share(bought + sold, both)
    BY DEF TurnoverFees
  <2>. HIDE DEF fee, both
  <2>. QED
    BY <1>5, <1>7, <2>1, <2>2, <2>3, RateTypes
<1>9. /\ Share(TurnoverFees', GstRate) = Share(TurnoverFees, GstRate) + Share(fee, GstRate)
      /\ ExactShare(TurnoverFees', GstRate)
      /\ Share(TurnoverFees, GstRate) \in Nat
  <2>. HIDE DEF fee
  <2>. QED
    BY <1>4, <1>5, <1>8, ShareOfBoth, ShareType, RateTypes DEF ChargesLevied
<1>10. /\ Share(sold', SttRate) + Share(bought', StampRate)
             = Share(sold, SttRate) + Share(bought, StampRate) + tax
       /\ ExactShare(sold', SttRate) /\ ExactShare(bought', StampRate)
       /\ Share(sold, SttRate) \in Nat /\ Share(bought, StampRate) \in Nat
       /\ Share(sold', SttRate) \in Nat /\ Share(bought', StampRate) \in Nat
  <2>1. Share(sold, SttRate) \in Nat /\ Share(bought, StampRate) \in Nat
        /\ Share(sold', SttRate) \in Nat /\ Share(bought', StampRate) \in Nat
    BY <1>1, <1>6, ShareType, RateTypes
  <2>2. ExactShare(sold, SttRate) /\ ExactShare(bought, StampRate)
    BY DEF ChargesLevied
  <2>3. CASE pending_qty < 0
    <3>1. sold' = sold + v /\ bought' = bought /\ tax = Share(v, SttRate) /\ ExactShare(v, SttRate)
      BY <1>1, <1>3, <1>4, <2>3
    <3>2. Share(sold', SttRate) = Share(sold, SttRate) + tax /\ ExactShare(sold', SttRate)
      BY <1>1, <1>2, <2>2, <3>1, ShareOfBoth, RateTypes
    <3>. HIDE DEF tax
    <3>. QED
      BY <1>5, <2>1, <2>2, <3>1, <3>2
  <2>4. CASE pending_qty > 0
    <3>1. bought' = bought + v /\ sold' = sold /\ tax = Share(v, StampRate) /\ ExactShare(v, StampRate)
      BY <1>1, <1>3, <1>4, <2>4
    <3>2. Share(bought', StampRate) = Share(bought, StampRate) + tax /\ ExactShare(bought', StampRate)
      BY <1>1, <1>2, <2>2, <3>1, ShareOfBoth, RateTypes
    <3>. HIDE DEF tax
    <3>. QED
      BY <1>5, <2>1, <2>2, <3>1, <3>2
  <2>. QED
    BY <1>1, <2>3, <2>4
<1>11. total_costs = TurnoverFees + Share(TurnoverFees, GstRate) + Share(sold, SttRate)
                       + Share(bought, StampRate)
  BY DEF ChargesLevied, Levied, TurnoverFees
<1>. HIDE DEF fee, tax, both
<1>12. total_costs' = TurnoverFees' + Share(TurnoverFees', GstRate) + Share(sold', SttRate)
                        + Share(bought', StampRate)
  BY <1>3, <1>5, <1>8, <1>9, <1>10, <1>11
<1>13. total_costs' \in Nat
  BY <1>1, <1>3, <1>5
<1>14. total_costs' = Levied'
  BY <1>12 DEF Levied, TurnoverFees, Share
<1>15. /\ ExactShare(bought + sold, ExchangeRate + SebiRate)'
       /\ ExactShare(TurnoverFees, GstRate)'
       /\ ExactShare(sold, SttRate)' /\ ExactShare(bought, StampRate)'
  BY <1>7, <1>9, <1>10 DEF ExactShare, Share, both
<1>. QED
  BY <1>6, <1>13, <1>14, <1>15 DEF ChargesLevied

LEMMA FillPaid ==
    ASSUME MoneyTypes, MoneyPaid, NEW open \in Nat, FillPending(open), position' \in Positions,
           ExactAverage(position, pending_qty, FillPrice(pending_qty, open))
    PROVE  MoneyPaid'
<1>. DEFINE price == FillPrice(pending_qty, open)
            v == FillValueOf(pending_qty, price)
            paid == pending_qty * price * Multiplier
            before == position.realized_pnl - Invested(position) * Multiplier
<1>1. /\ pending_qty \in Int \ {0} /\ price \in Nat /\ position \in Positions
      /\ bought \in Nat /\ sold \in Nat
  BY FillPriceType DEF FillPending, MoneyTypes, RunTypes, TypeOK
<1>2. Invested(position)' = Invested(position') /\ position' = ApplyFill(position, pending_qty, price)
  BY DEF FillPending, Book, Invested
<1>3. position'.realized_pnl - Invested(position)' * Multiplier = before - paid
  BY <1>1, <1>2, FillIsCash
<1>4. /\ bought' = IF pending_qty > 0 THEN bought + v ELSE bought
      /\ sold' = IF pending_qty < 0 THEN sold + v ELSE sold
  BY DEF FillPending, FillValueOf
<1>5. v \in Int /\ paid = IF pending_qty > 0 THEN v ELSE -v
  <2>. HIDE DEF price
  <2>1. Multiplier \in Nat
    BY MultiplierAssumption
  <2>2. CASE pending_qty > 0
    BY <1>1, <2>1, <2>2 DEF FillValueOf, Abs
  <2>3. CASE pending_qty < 0
    <3>1. price * (-pending_qty) = -(pending_qty * price) /\ pending_qty * price \in Int
      BY <1>1
    <3>2. price * (-pending_qty) * Multiplier = -(pending_qty * price * Multiplier)
          /\ pending_qty * price * Multiplier \in Int
      BY <2>1, <3>1
    <3>. QED
      BY <1>1, <2>3, <3>2 DEF FillValueOf, Abs
  <2>. QED
    BY <1>1, <2>2, <2>3
<1>6. before = sold - bought
  BY DEF MoneyPaid
<1>. HIDE DEF v, paid, before
<1>7. before - paid = sold' - bought'
  BY <1>1, <1>4, <1>5, <1>6
<1>. QED
  BY <1>3, <1>7 DEF MoneyPaid

LEMMA BarOfMoney ==
    ASSUME MoneyTypes, MoneyPaid, ChargesLevied, AveragesExact, ChargesExact,
           NEW open \in Quotes, NEW closing \in Quotes, NEW target \in -MaxNet..MaxNet,
           BooksAtOpens, EngineBar(open, closing, target)
    PROVE  MoneyTypes' /\ MoneyPaid' /\ ChargesLevied' /\ BooksAtOpens' /\ EquityIsMoney'
<1>1. open \in Nat /\ closing \in Nat
  BY QuotesAssumption
<1>2. RunTypes' /\ BooksAtOpens'
  BY BarAtOpens DEF MoneyTypes
<1>3. position' \in Positions
  BY <1>2 DEF RunTypes, TypeOK
<1>4. /\ MoneyPaid' /\ ChargesLevied'
      /\ bought' \in Nat /\ sold' \in Nat /\ total_costs' \in Nat
  <2>1. CASE NothingPending
    BY <2>1 DEF NothingPending, vars, totals, MoneyTypes, MoneyPaid, ChargesLevied, Invested,
                Levied, TurnoverFees, ExactShare, Share
  <2>2. CASE FillPending(open)
    <3>1. /\ ExactAverage(position, pending_qty, FillPrice(pending_qty, open))
          /\ ChargesExactFor(pending_qty, FillPrice(pending_qty, open))
      BY <2>2 DEF AveragesExact, ChargesExact, FillPending
    <3>. QED
      BY <1>1, <1>3, <2>2, <3>1, FillPaid, FillLevied
  <2>. QED
    BY <2>1, <2>2 DEF EngineBar
<1>5. EquityIsMoney'
  <2>1. PICK worth \in Int, invested \in Int, realized \in Int :
           /\ worth = position'.quantity * closing * Multiplier
           /\ invested = Invested(position') * Multiplier
           /\ realized = position'.realized_pnl
    BY <1>1, <1>3, InvestedType
  <2>2. PICK costs \in Int, gained \in Int, spent \in Int :
           costs = total_costs' /\ gained = sold' /\ spent = bought'
    BY <1>4
  <2>3. /\ equity' = Capital + realized + UnrealizedPnl(position', closing) - costs
        /\ close' = closing
    BY <2>1, <2>2 DEF EngineBar
  <2>4. UnrealizedPnl(position', closing) = worth - invested
    BY <1>1, <1>3, <2>1, MarkedIsCash
  <2>5. realized - invested = gained - spent
    BY <1>4, <2>1, <2>2 DEF MoneyPaid, Invested
  <2>6. costs = Levied'
    BY <1>4, <2>2 DEF ChargesLevied
  <2>7. equity' = Capital + gained - spent + worth - costs
    BY <2>3, <2>4, <2>5, RateTypes
  <2>. QED
    BY <2>1, <2>2, <2>3, <2>6, <2>7 DEF EquityIsMoney
<1>. QED
  BY <1>2, <1>4, <1>5 DEF MoneyTypes

(* For every stream of quotes and targets, every lot size and every rate,  *)
(* if averages and charges are exact: the equity curve is the money, to    *)
(* the last unit, through adds, partial closes and flips.                  *)
THEOREM EquityAddsUp ==
    RunSpec /\ []AveragesExact /\ []ChargesExact => []EquityIsMoney
<1>. DEFINE Inv == MoneyTypes /\ BooksAtOpens /\ MoneyPaid /\ ChargesLevied /\ EquityIsMoney
<1>1. RunInit => Inv
  <2>. SUFFICES ASSUME RunInit
                PROVE  Inv
    OBVIOUS
  <2>1. position = Flat /\ Flat \in Positions /\ Invested(position) = 0
    BY DEF RunInit, Init, Flat, Positions, Invested
  <2>2. position.realized_pnl - Invested(position) * Multiplier = 0
    BY <2>1, MultiplierAssumption DEF Flat
  <2>3. MoneyTypes /\ BooksAtOpens /\ MoneyPaid
    BY <2>1, <2>2 DEF RunInit, Init, MoneyTypes, RunTypes, TypeOK, Reconciled, BooksAtOpens,
                      MoneyPaid
  <2>4. /\ Share(bought + sold, ExchangeRate + SebiRate) = 0
        /\ ExactShare(bought + sold, ExchangeRate + SebiRate)
        /\ Share(sold, SttRate) = 0 /\ ExactShare(sold, SttRate)
        /\ Share(bought, StampRate) = 0 /\ ExactShare(bought, StampRate)
    BY ShareOfNothing, RateTypes DEF RunInit
  <2>5. TurnoverFees = 0
    BY <2>4, RateTypes DEF RunInit, Init, TurnoverFees
  <2>6. Share(TurnoverFees, GstRate) = 0 /\ ExactShare(TurnoverFees, GstRate)
    BY <2>5, ShareOfNothing, RateTypes
  <2>7. Levied = 0
    BY <2>4, <2>5, <2>6 DEF Levied, TurnoverFees
  <2>8. position.quantity * close * Multiplier = 0
    BY <2>1, MultiplierAssumption DEF RunInit, Flat
  <2>9. EquityIsMoney
    BY <2>7, <2>8, RateTypes DEF RunInit, EquityIsMoney
  <2>. QED
    BY <2>3, <2>4, <2>6, <2>7, <2>9 DEF RunInit, ChargesLevied
<1>2. Inv /\ AveragesExact /\ ChargesExact /\ [RunNext]_run_vars => Inv'
  <2>1. Inv /\ AveragesExact /\ ChargesExact /\ RunNext => Inv'
    BY BarOfMoney DEF RunNext
  <2>2. Inv /\ UNCHANGED run_vars => Inv'
    BY DEF run_vars, vars, totals, MoneyTypes, RunTypes, TypeOK, Reconciled, BooksAtOpens,
           MoneyPaid, ChargesLevied, EquityIsMoney, Invested, Levied, TurnoverFees, ExactShare, Share
  <2>. QED
    BY <2>1, <2>2
<1>. QED
  BY <1>1, <1>2, PTL DEF RunSpec
=============================================================================
