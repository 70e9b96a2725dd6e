---------------------------- MODULE MCGridTrading ----------------------------
(* GridTrading on six prices one spacing apart, at the smaller of the two  *)
(* ATRs.  Prices are multiples of 24, so that the average of up to three   *)
(* lots is a whole number.                                                 *)
EXTENDS GridTrading

MCPrices == {24 * n : n \in 5..10}
=============================================================================
