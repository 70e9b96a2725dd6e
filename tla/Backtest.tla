------------------------------ MODULE Backtest ------------------------------
(***************************************************************************)
(* The money of BacktestEngine.run_simple, src/backtest/engine.py: an      *)
(* order decided at one bar's close fills at the next bar's open, made     *)
(* worse by slippage (slippage.py) and charged with costs (costs.py), and  *)
(* every close marks the equity.  Which targets are ordered is the matter  *)
(* of Session; here any are.  Money is in whole units: rates are parts of  *)
(* Scale, and the run's numbers make every division exact.                 *)
(***************************************************************************)
EXTENDS Bookkeepers

CONSTANTS Quotes,           \* opens and closes of bars
          BarCount,         \* bound: bars of a run
          Capital,          \* initial_capital
          SlippageParts,    \* slippage_pct is one part in SlippageParts
          Scale,            \* of the rates
          Brokerage, SttRate, ExchangeRate, SebiRate, StampRate, GstRate

ASSUME QuotesAssumption == Quotes \subseteq Nat
ASSUME BarCountAssumption == BarCount \in Nat \ {0}
ASSUME RatesAssumption ==
    /\ SlippageParts \in Nat \ {0}
    /\ Scale \in Nat \ {0}
    /\ {Capital, Brokerage, SttRate, ExchangeRate, SebiRate, StampRate, GstRate} \subseteq Nat

Share(amount, rate) == (amount * rate) \div Scale

(* Mutant: the tax on sales is levied on both sides.                       *)
CalculateCosts_SttOnBoth(signed, price) ==
    LET value == price * Abs(signed) * Multiplier
        fees == Brokerage + Share(value, ExchangeRate) + Share(value, SebiRate)
    IN  fees + Share(fees, GstRate) + Share(value, SttRate)

(* calculate_costs: fees with GST on them, STT on sales, stamp duty on     *)
(* purchases.                                                              *)
CalculateCosts(signed, price) ==
    LET value == price * Abs(signed) * Multiplier
        fees == Brokerage + Share(value, ExchangeRate) + Share(value, SebiRate)
    IN  fees + Share(fees, GstRate) + Share(value, IF signed < 0 THEN SttRate ELSE StampRate)

Slippage(open) == open \div SlippageParts

(* Mutant: a sale fills above the open.                                    *)
FillPrice_AlwaysAbove(signed, open) == open + Slippage(open)

FillPrice(signed, open) == IF signed > 0 THEN open + Slippage(open) ELSE open - Slippage(open)

-----------------------------------------------------------------------------
VARIABLES bar,              \* bars processed
          pending_qty,      \* order decided at the last close
          total_costs,
          total_slippage,
          equity,           \* last point of equity_curve
          close,            \* the close it is marked at
          bought, sold,     \* history: the values of all purchases and sales
          at_open           \* history: receipts less payments, had fills been at the opens

totals == <<total_costs, total_slippage, bought, sold, at_open>>

run_vars == <<vars, totals, bar, pending_qty, equity, close>>

RunInit ==
    /\ Init
    /\ bar = 0
    /\ pending_qty = 0
    /\ total_costs = 0
    /\ total_slippage = 0
    /\ equity = Capital
    /\ close = 0
    /\ bought = 0
    /\ sold = 0
    /\ at_open = 0

(* Step 1 of an iteration: the pending order fills at the open.            *)
FillPending(open) ==
    LET price == FillPrice(pending_qty, open)
        value == price * Abs(pending_qty) * Multiplier
    IN  /\ pending_qty # 0
        /\ Book(pending_qty, price)
        /\ total_costs' = total_costs + CalculateCosts(pending_qty, price)
        /\ total_slippage' = total_slippage + Slippage(open) * Abs(pending_qty) * Multiplier
        /\ bought' = IF pending_qty > 0 THEN bought + value ELSE bought
        /\ sold' = IF pending_qty < 0 THEN sold + value ELSE sold
        /\ at_open' = at_open - pending_qty * open * Multiplier

NothingPending == pending_qty = 0 /\ UNCHANGED <<vars, totals>>

(* One iteration: fill, mark at the close, decide for the next bar.  A     *)
(* target refused by the risk manager is the position held.                *)
EngineBar(open, closing, target) ==
    /\ bar < BarCount
    /\ NothingPending \/ FillPending(open)
    /\ equity' = Capital + position'.realized_pnl + UnrealizedPnl(position', closing) - total_costs'
    /\ close' = closing
    /\ bar' = bar + 1
    /\ pending_qty' = IF bar + 1 = BarCount THEN 0 ELSE target - position'.quantity

RunNext ==
    \E open, closing \in Quotes, target \in -MaxNet..MaxNet : EngineBar(open, closing, target)

RunSpec == RunInit /\ [][RunNext]_run_vars

-----------------------------------------------------------------------------
(* All charges, levied at once on the turnover of the whole run.           *)
Levied ==
    LET fees == fills * Brokerage + Share(bought + sold, ExchangeRate + SebiRate)
    IN  fees + Share(fees, GstRate) + Share(sold, SttRate) + Share(bought, StampRate)

(* At every close the equity is the capital, plus what the sales brought   *)
(* less what the purchases cost, plus what the position would fetch, less  *)
(* the charges on the turnover: apply_fill, marking and costs neither      *)
(* create nor lose money through adds, partial closes and flips.           *)
EquityIsMoney ==
    equity = Capital + sold - bought + position.quantity * close * Multiplier - Levied

(* The P&L before costs and the slippage reported beside it add up to what *)
(* the same orders would have earned at the opens themselves: slippage is  *)
(* against the trader on both sides and counted once (gross_pnl and        *)
(* slippage_costs of BacktestResult).                                      *)
SlippageIsTheDifference ==
    position.realized_pnl + UnrealizedPnl(position, close) + total_slippage
        = at_open + position.quantity * close * Multiplier
=============================================================================
