--------------------------- MODULE MCOrderManager ---------------------------
(* A small instance of OrderManager: two ids, two instruments, three orders. *)
EXTENDS OrderManager

CONSTANTS a, b, nifty, gold

BuyNifty == [instrument |-> nifty, side |-> "BUY", quantity |-> 2]
SellNifty == [instrument |-> nifty, side |-> "SELL", quantity |-> 1]
SellGold == [instrument |-> gold, side |-> "SELL", quantity |-> 1]

MCIds == {a, b}
MCInstruments == {nifty, gold}
MCOrders == {BuyNifty, SellNifty, SellGold}

(* What callers submit: the id a is used for two different orders. *)
ReusedId == {<<a, BuyNifty>>, <<a, SellGold>>, <<b, SellNifty>>}
=============================================================================
