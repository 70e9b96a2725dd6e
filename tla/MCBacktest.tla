----------------------------- MODULE MCBacktest -----------------------------
(* Backtest with quotes 2592 = 12 * 216 units apart: a twelfth of one is   *)
(* the slippage, and the averages and charges of the fills of the run are  *)
(* whole numbers.                                                          *)
EXTENDS Backtest

MCQuotes == {2592 * n : n \in 1..3}
MCPrices == {FillPrice(signed, open) : signed \in {-1, 1}, open \in MCQuotes}
=============================================================================
