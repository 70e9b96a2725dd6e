--------------------------- MODULE MCMacroRegime ---------------------------
(***************************************************************************)
(* The default MacroRegimeConfig (weights 0.4/0.3/0.3, thresholds +-0.3,    *)
(* breaker at 2.5 = 10 quarters) over indicators at, inside and beyond the  *)
(* ends of their ranges, in quarters.                                      *)
(***************************************************************************)
EXTENDS MacroRegime

MCRiskOff == -3
MCTrends == {-6, -4, 0, 3, 4}
MCSentiments == {-4, 0, 5}
=============================================================================
