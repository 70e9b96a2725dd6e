---------------------------- MODULE RiskManager ----------------------------
(***************************************************************************)
(* src/risk/risk_manager.py: what net quantity a strategy may hold.  Pure: *)
(* the caller owns the position and passes its quantity, kill_switch is    *)
(* the manager's flag and breaker the circuit breaker of the macro regime. *)
(* Reasons and RISK_REJECTED events are left out, and so is the instrument *)
(* mismatch, which is answered like Rejected.                              *)
(***************************************************************************)
EXTENDS Quantities

CONSTANT MaxPosition    \* max_position

ASSUME MaxPositionAssumption == MaxPosition \in Nat \ {0}

Decision == [allowed : BOOLEAN, target : Int]

Allowed(target) == [allowed |-> TRUE, target |-> target]

(* Hold what there is. *)
Rejected(current) == [allowed |-> FALSE, target |-> current]

ApplyPositionCap(desired) ==
    IF desired > MaxPosition THEN MaxPosition
    ELSE IF desired < -MaxPosition THEN -MaxPosition
    ELSE desired

(* From one side of zero to the other. *)
IsFlip(current, desired) ==
    current # 0 /\ desired # 0 /\ Opposed(current, desired)

Increases(current, desired) == Abs(desired) > Abs(current)

(* Under a circuit breaker or a kill switch: a flip only flattens, more     *)
(* exposure is refused, and a pure reduction goes on to the cap.            *)
RestrictToReduction(current, desired) ==
    IF IsFlip(current, desired) THEN Allowed(0)
    ELSE IF Increases(current, desired) THEN Rejected(current)
    ELSE Allowed(ApplyPositionCap(desired))

(* Mutant: the circuit breaker is not looked at.                           *)
Evaluate_KillSwitchOnly(current, desired, breaker, kill_switch) ==
    IF kill_switch
    THEN RestrictToReduction(current, desired)
    ELSE Allowed(ApplyPositionCap(desired))

Evaluate(current, desired, breaker, kill_switch) ==
    IF breaker \/ kill_switch
    THEN RestrictToReduction(current, desired)
    ELSE Allowed(ApplyPositionCap(desired))

(* What the callers make of a decision: "Risk rejected - hold current       *)
(* position".                                                               *)
Held(current, desired, breaker, kill_switch) ==
    LET decision == Evaluate(current, desired, breaker, kill_switch)
    IN  IF decision.allowed THEN decision.target ELSE current
=============================================================================
