--------------------------- MODULE StopAndReverse ---------------------------
(* src/strategy/stop_and_reverse.py: the target as a function of where RSI *)
(* stands and the quantity held.                                           *)
EXTENDS Integers

(* Mutant: outside the two zones the strategy goes flat.                   *)
ReverseTarget_FlatInBetween(quantity, signal, size) ==
    CASE signal = "oversold" -> size
      [] signal = "overbought" -> -size
      [] OTHER -> 0

ReverseTarget(quantity, signal, size) ==
    CASE signal = "oversold" -> size
      [] signal = "overbought" -> -size
      [] OTHER -> quantity
=============================================================================
