---------------------------- MODULE Session_proofs ----------------------------
(* A dashboard session keeps to its plan, for every strategy parameter,    *)
(* cap, price and number of bars: what the first pass has put through risk *)
(* once, the engine's own risk manager lets through unchanged.             *)
EXTENDS Session, TLAPS

(* A second evaluation of the same position agrees with the first: targets *)
(* that risk has passed once come through the backtest engine unchanged.   *)
THEOREM HeldAgain ==
    ASSUME NEW current \in Int, Abs(current) <= MaxPosition, NEW desired \in Int,
           NEW circuit \in BOOLEAN, NEW kill \in BOOLEAN
    PROVE  LET held == Held(current, desired, circuit, kill)
           IN  Held(current, held, circuit, kill) = held
  BY MaxPositionAssumption
  DEF Held, Evaluate, RestrictToReduction, Allowed, Rejected, ApplyPositionCap, IsFlip,
      Increases, Opposed, Abs

(* A position within the cap stays within it.                              *)
THEOREM HeldCapped ==
    ASSUME NEW current \in Int, Abs(current) <= MaxPosition, NEW desired \in Int,
           NEW circuit \in BOOLEAN, NEW kill \in BOOLEAN
    PROVE  /\ Held(current, desired, circuit, kill) \in Int
           /\ Abs(Held(current, desired, circuit, kill)) <= MaxPosition
  BY MaxPositionAssumption
  DEF Held, Evaluate, RestrictToReduction, Allowed, Rejected, ApplyPositionCap, IsFlip,
      Increases, Opposed, Abs

-----------------------------------------------------------------------------
(* The rest of what the session needs of risk and of the strategies.       *)

LEMMA HeldSame ==
    ASSUME NEW current \in Int, Abs(current) <= MaxPosition,
           NEW circuit \in BOOLEAN, NEW kill \in BOOLEAN
    PROVE  Held(current, current, circuit, kill) = current
  BY MaxPositionAssumption
  DEF Held, Evaluate, RestrictToReduction, Allowed, Rejected, ApplyPositionCap, IsFlip,
      Increases, Opposed, Abs

LEMMA HeldFlat ==
    ASSUME NEW current \in Int, NEW circuit \in BOOLEAN, NEW kill \in BOOLEAN
    PROVE  Held(current, 0, circuit, kill) = 0
  BY MaxPositionAssumption
  DEF Held, Evaluate, RestrictToReduction, Allowed, Rejected, ApplyPositionCap, IsFlip,
      Increases, Opposed, Abs

(* Nothing is ever opened while a switch is on; ...                        *)
LEMMA HeldOff ==
    ASSUME NEW desired \in Int, NEW circuit \in BOOLEAN, NEW kill \in BOOLEAN, circuit \/ kill
    PROVE  Held(0, desired, circuit, kill) = 0
  BY MaxPositionAssumption
  DEF Held, Evaluate, RestrictToReduction, Allowed, Rejected, ApplyPositionCap, IsFlip,
      Increases, Opposed, Abs

(* ... and while none is, the cap makes no target flat.                    *)
LEMMA HeldOn ==
    ASSUME NEW current \in Int, NEW desired \in Int \ {0}
    PROVE  Held(current, desired, FALSE, FALSE) # 0
  BY MaxPositionAssumption DEF Held, Evaluate, Allowed, ApplyPositionCap

(* The engine's order leads to what risk lets it hold.                     *)
LEMMA OrderLeadsThere ==
    ASSUME NEW held \in Int, NEW target \in Int, breaker \in BOOLEAN, kill_switch \in BOOLEAN
    PROVE  /\ Order(held, target) \in Int
           /\ held + Order(held, target) = Held(held, target, breaker, kill_switch)
<1>1. Evaluate(held, target, breaker, kill_switch).allowed =>
          Evaluate(held, target, breaker, kill_switch).target \in Int
  BY MaxPositionAssumption
  DEF Evaluate, RestrictToReduction, Allowed, Rejected, ApplyPositionCap
<1>. QED
  BY <1>1 DEF Order, Held

(* What risk lets through is on the side asked for, or flat.                *)
LEMMA HeldSide ==
    ASSUME NEW current \in Int, NEW desired \in Int,
           Held(current, desired, FALSE, FALSE) # 0
    PROVE  /\ desired # 0
           /\ Sign(Held(current, desired, FALSE, FALSE)) = Sign(desired)
  BY MaxPositionAssumption DEF Held, Evaluate, Allowed, ApplyPositionCap, Sign

(* The grid of a position is that of its opening, and the strategy wants   *)
(* out when it is breached.                                                *)
LEMMA GridAnswer ==
    ASSUME grid = NoGrid \/ grid \in GridStates, shadow \in [quantity : Int, avg_price : Nat],
           strategy = "grid", opened \in Nat,
           shadow.quantity # 0 => grid = Grid(opened, Sign(shadow.quantity)),
           NEW close \in Nat, NEW signal \in Signals
    PROVE  LET answer == CalculateTarget(grid, shadow, close, Atr, signal)
               entry == IF shadow.quantity = 0 THEN close ELSE opened
           IN  /\ answer.target \in Int
               /\ answer.grid = NoGrid \/ answer.grid \in GridStates
               /\ answer.target # 0 => answer.grid = Grid(entry, Sign(answer.target))
               /\ Breach(close) => answer.target = 0
<1>. DEFINE answer == CalculateTarget(grid, shadow, close, Atr, signal)
            size == PositionSize
            side == Sign(shadow.quantity)
<1>1. size \in Nat \ {0} /\ side \in {-1, 1}
  BY SizeAssumption DEF Sign
<1>2. CASE shadow.quantity # 0
  <2>1. /\ grid = Grid(opened, side) /\ grid \in GridStates /\ grid # NoGrid
        /\ grid.entry_price = opened /\ grid.direction = side
    BY <1>1, <1>2, NoGridAssumption DEF Grid, GridStates
  <2>2. answer = InPosition(grid, shadow.quantity, close, Atr)
    BY <1>2, <2>1 DEF CalculateTarget
  <2>3. \/ answer.target = 0 /\ answer.grid = NoGrid
        \/ /\ answer.target \in {shadow.quantity, shadow.quantity + size * side}
           /\ answer.grid = grid
    BY <2>1, <2>2 DEF InPosition
  <2>4. /\ shadow.quantity + size * side \in Int
        /\ Sign(shadow.quantity + size * side) = side
    BY <1>1, <1>2 DEF Sign
  <2>5. Breach(close) => answer.target = 0
    <3>. SUFFICES ASSUME Breach(close)
                  PROVE  ShouldStopOut(close, grid, Atr * StopMultiplier)
      BY <2>2 DEF InPosition
    <3>1. Atr * StopMultiplier \in Nat
      BY AtrAssumption, MultipliersAssumption
    <3>2. side * (opened - close) > Atr * StopMultiplier
      BY DEF Breach
    <3>3. CASE side = 1
      BY <2>1, <3>1, <3>2, <3>3 DEF ShouldStopOut
    <3>4. CASE side = -1
      BY <2>1, <3>1, <3>2, <3>4 DEF ShouldStopOut
    <3>. QED
      BY <1>1, <3>3, <3>4
  <2>. QED
    BY <1>2, <2>1, <2>3, <2>4, <2>5
<1>3. CASE shadow.quantity = 0
  <2>1. answer = Entry(grid, close, signal)
    BY <1>3 DEF CalculateTarget
  <2>2. \/ answer.target = 0 /\ answer.grid = grid
        \/ \E d \in {-1, 1} : answer.target = PositionSize * d /\ answer.grid = Grid(close, d)
    <3>1. CASE signal = "oversold"
      <4>1. answer = [target |-> PositionSize * 1, grid |-> Grid(close, 1)]
        BY <2>1, <3>1 DEF Entry
      <4>. QED
        BY <4>1
    <3>2. CASE signal = "overbought"
      <4>1. answer = [target |-> PositionSize * (-1), grid |-> Grid(close, -1)]
        BY <2>1, <3>2 DEF Entry
      <4>. QED
        BY <4>1
    <3>3. CASE signal = "neutral"
      BY <2>1, <3>3 DEF Entry
    <3>. QED
      BY <3>1, <3>2, <3>3 DEF Signals
  <2>3. \A d \in {-1, 1} : /\ Grid(close, d) \in GridStates /\ PositionSize * d \in Int
                           /\ Sign(PositionSize * d) = d
    BY <1>1 DEF Grid, GridStates, Sign
  <2>. QED
    BY <1>3, <2>2, <2>3 DEF Breach
<1>. QED
  BY <1>2, <1>3

LEMMA ReverseAnswer ==
    ASSUME NEW quantity \in Int, NEW signal \in Signals
    PROVE  /\ ReverseTarget(quantity, signal, PositionSize) \in Int
           /\ quantity # 0 => ReverseTarget(quantity, signal, PositionSize) # 0
<1>1. PositionSize \in Nat \ {0}
  BY SizeAssumption
<1>2. ReverseTarget(quantity, signal, PositionSize) \in {PositionSize, -PositionSize, quantity}
  <2>1. CASE signal = "oversold"
    BY <2>1 DEF ReverseTarget
  <2>2. CASE signal = "overbought"
    BY <2>2 DEF ReverseTarget
  <2>3. CASE signal = "neutral"
    BY <2>3 DEF ReverseTarget
  <2>. QED
    BY <2>1, <2>2, <2>3 DEF Signals
<1>. QED
  BY <1>1, <1>2

-----------------------------------------------------------------------------
(* The inductive invariant.  A plan is a sequence of targets each of which *)
(* risk leaves unchanged for the position the one before it produces, so   *)
(* that the engine, who holds that position a bar later, orders it whole.  *)

Before(i) == IF i = 1 THEN 0 ELSE targets[i - 1]

Planned ==
    \A i \in 1..Len(targets) :
        /\ Abs(targets[i]) <= MaxPosition
        /\ Held(Before(i), targets[i], breaker, kill_switch) = targets[i]

(* Once in the market, a stop-and-reverse plan stays there.                *)
StaysIn == strategy = "sar" => \A i \in 1..Len(targets) : Before(i) # 0 => targets[i] # 0

ShadowIsLastTarget ==
    /\ shadow.quantity = Before(Len(targets) + 1)
    /\ breaker \/ kill_switch => shadow.quantity = 0

EngineStarts ==
    /\ processed > 0 => Len(targets) = BarCount
    /\ processed = 0 => position = 0 /\ pending_qty = 0
    /\ processed = 1 => position = 0

(* The grid remembers where the position was opened, ...                   *)
GridOfOpening ==
    strategy = "grid" /\ shadow.quantity # 0 => grid = Grid(opened, Sign(shadow.quantity))

(* ... and a breach has made the bar's target flat.                        *)
BreachedIsFlat == \A b \in breached : b \in 1..Len(targets) /\ targets[b] = 0

IInv ==
    /\ TypeOK
    /\ breaker \in BOOLEAN /\ kill_switch \in BOOLEAN /\ strategy \in {"grid", "sar"}
    /\ Planned
    /\ StaysIn
    /\ ShadowIsLastTarget
    /\ EngineStarts
    /\ EngineFollowsPlan
    /\ GridOfOpening
    /\ BreachedIsFlat

LEMMA Typing ==
    ASSUME IInv
    PROVE  /\ shadow.quantity \in Int /\ shadow.avg_price \in Nat
           /\ Abs(shadow.quantity) <= MaxPosition
           /\ breaker \in BOOLEAN /\ kill_switch \in BOOLEAN
           /\ Len(targets) \in Nat
           /\ \A i \in 1..Len(targets) : targets[i] \in Int
           /\ \A i \in 1..Len(targets) : Before(i) \in Int
<1>1. targets \in Seq(Int) /\ shadow.quantity \in Int /\ shadow.avg_price \in Nat
  BY DEF IInv, TypeOK
<1>2. \A i \in 1..Len(targets) : targets[i] \in Int
  BY <1>1
<1>3. \A i \in 1..Len(targets) : Before(i) \in Int
  BY <1>1, <1>2 DEF Before
<1>4. Abs(shadow.quantity) <= MaxPosition
  <2>1. CASE Len(targets) = 0
    BY <2>1, MaxPositionAssumption DEF IInv, ShadowIsLastTarget, Before, Abs
  <2>2. CASE Len(targets) # 0
    <3>1. Len(targets) \in 1..Len(targets) /\ shadow.quantity = targets[Len(targets)]
      BY <1>1, <2>2 DEF IInv, ShadowIsLastTarget, Before
    <3>. QED
      BY <3>1 DEF IInv, Planned
  <2>. QED
    BY <2>1, <2>2
<1>. QED
  BY <1>1, <1>2, <1>3, <1>4 DEF IInv

(* The first pass extends the plan by a target it holds at once.           *)
LEMMA Extends ==
    ASSUME IInv, Len(targets) < BarCount, NEW final \in Int,
           Abs(final) <= MaxPosition,
           Held(shadow.quantity, final, breaker, kill_switch) = final,
           breaker \/ kill_switch => final = 0,
           strategy = "sar" /\ shadow.quantity # 0 => final # 0,
           targets' = Append(targets, final), shadow'.quantity = final,
           shadow' \in [quantity : Int, avg_price : Nat],
           grid' = NoGrid \/ grid' \in GridStates,
           opened' \in Nat,
           strategy = "grid" /\ final # 0 => grid' = Grid(opened', Sign(final)),
           breached \subseteq breached',
           \A b \in breached' \ breached : b = Len(targets) + 1 /\ final = 0,
           UNCHANGED <<config, position, pending_qty, processed>>
    PROVE  IInv'
<1>0. PICK n \in Nat : n = Len(targets)
  BY Typing
<1>1. /\ n = Len(targets) /\ targets \in Seq(Int) /\ BarCount \in Nat \ {0}
      /\ processed \in Nat /\ processed = 0
  BY <1>0, BarCountAssumption DEF IInv, TypeOK, EngineStarts
<1>2. /\ targets' \in Seq(Int) /\ Len(targets') = n + 1
      /\ \A i \in 1..n : targets'[i] = targets[i]
      /\ targets'[n + 1] = final
  BY <1>1
<1>3. /\ \A i \in 1..n : Before(i)' = Before(i)
      /\ Before(n + 1)' = Before(n + 1)
      /\ Before(n + 2)' = final
  <2>1. \A i \in 1..n : i # 1 => i - 1 \in 1..n
    OBVIOUS
  <2>2. n + 1 # 1 => n \in 1..n /\ (n + 1) - 1 = n
    OBVIOUS
  <2>3. n + 2 # 1 /\ (n + 2) - 1 = n + 1
    OBVIOUS
  <2>. QED
    BY <1>2, <2>1, <2>2, <2>3 DEF Before
<1>4. TypeOK'
  <2>1. breached' \subseteq 1..BarCount
    BY <1>1 DEF IInv, TypeOK
  <2>. QED
    BY <1>1, <1>2, <2>1 DEF IInv, TypeOK
<1>5. Before(n + 1) = shadow.quantity
  BY <1>1 DEF IInv, ShadowIsLastTarget
<1>6. UNCHANGED <<strategy, breaker, kill_switch>>
  BY DEF config
<1>7. Planned'
  <2>. SUFFICES ASSUME NEW i \in 1..n + 1
                PROVE  /\ Abs(targets'[i]) <= MaxPosition
                       /\ Held(Before(i)', targets'[i], breaker, kill_switch) = targets'[i]
    BY <1>2, <1>6 DEF Planned, Held, Evaluate, RestrictToReduction, Allowed, Rejected,
                      ApplyPositionCap, IsFlip, Increases, Opposed
  <2>1. CASE i \in 1..n
    BY <1>1, <1>2, <1>3, <2>1 DEF IInv, Planned
  <2>2. CASE i = n + 1
    BY <1>2, <1>3, <1>5, <2>2
  <2>. QED
    BY <1>1, <2>1, <2>2
<1>8. StaysIn'
  <2>. SUFFICES ASSUME strategy = "sar", NEW i \in 1..n + 1, Before(i)' # 0
                PROVE  targets'[i] # 0
    BY <1>2, <1>6 DEF StaysIn
  <2>1. CASE i \in 1..n
    BY <1>1, <1>2, <1>3, <2>1 DEF IInv, StaysIn
  <2>2. CASE i = n + 1
    BY <1>2, <1>3, <1>5, <2>2
  <2>. QED
    BY <1>1, <2>1, <2>2
<1>9. ShadowIsLastTarget'
  <2>1. Before(Len(targets) + 1)' = final
    BY <1>1, <1>2, <1>3 DEF Before
  <2>. QED
    BY <1>6, <2>1 DEF ShadowIsLastTarget
<1>10. EngineStarts' /\ EngineFollowsPlan' /\ GridOfOpening'
  BY <1>1, <1>6 DEF IInv, EngineStarts, EngineFollowsPlan, GridOfOpening, Grid, Sign
<1>11. BreachedIsFlat'
  BY <1>1, <1>2 DEF IInv, BreachedIsFlat
<1>. QED
  BY <1>4, <1>6, <1>7, <1>8, <1>9, <1>10, <1>11 DEF IInv

LEMMA WarmUpKeeps ==
    ASSUME IInv, WarmUp
    PROVE  IInv'
<1>1. /\ Held(shadow.quantity, shadow.quantity, breaker, kill_switch) = shadow.quantity
      /\ shadow.quantity \in Int /\ Abs(shadow.quantity) <= MaxPosition
  BY Typing, HeldSame
<1>2. /\ shadow' = shadow /\ grid' = grid /\ targets' = Append(targets, shadow.quantity)
      /\ UNCHANGED <<config, position, pending_qty, processed>>
      /\ opened' = opened /\ breached' = breached
      /\ Len(targets) < BarCount
  BY DEF WarmUp, history
<1>3. /\ shadow \in [quantity : Int, avg_price : Nat] /\ (grid = NoGrid \/ grid \in GridStates)
      /\ breaker \/ kill_switch => shadow.quantity = 0
      /\ strategy = "grid" /\ shadow.quantity # 0 => grid = Grid(opened, Sign(shadow.quantity))
      /\ opened \in Nat
  BY DEF IInv, TypeOK, ShadowIsLastTarget, GridOfOpening
<1>. QED
  BY <1>1, <1>2, <1>3, Extends

LEMMA GenerateKeeps ==
    ASSUME IInv, NEW close \in Closes, NEW signal \in Signals, Generate(close, signal)
    PROVE  IInv'
<1>. DEFINE answer == Desired(close, signal)
            final == Held(shadow.quantity, answer.target, breaker, kill_switch)
<1>1. close \in Nat
  BY ClosesAssumption
<1>2. /\ Len(targets) < BarCount /\ grid' = answer.grid
      /\ shadow' = [quantity |-> final,
                    avg_price |-> IF shadow.quantity = 0 /\ final # 0
                                  THEN close ELSE shadow.avg_price]
      /\ targets' = Append(targets, final)
      /\ opened' = IF shadow.quantity = 0 THEN close ELSE opened
      /\ breached' = IF Breach(close) THEN breached \cup {Len(targets) + 1} ELSE breached
      /\ UNCHANGED <<config, position, pending_qty, processed>>
  BY DEF Generate, Final
<1>3. /\ answer.target \in Int
      /\ answer.grid = NoGrid \/ answer.grid \in GridStates
      /\ strategy = "grid" /\ answer.target # 0 => answer.grid = Grid(opened', Sign(answer.target))
      /\ Breach(close) => answer.target = 0
      /\ strategy = "sar" /\ shadow.quantity # 0 => answer.target # 0
  <2>1. CASE strategy = "grid"
    <3>1. answer = CalculateTarget(grid, shadow, close, Atr, signal)
      BY <2>1 DEF Desired
    <3>2. /\ grid = NoGrid \/ grid \in GridStates
          /\ shadow \in [quantity : Int, avg_price : Nat]
          /\ shadow.quantity # 0 => grid = Grid(opened, Sign(shadow.quantity))
          /\ opened \in Nat
      BY <2>1 DEF IInv, TypeOK, GridOfOpening
    <3>. QED
      BY <1>1, <1>2, <2>1, <3>1, <3>2, GridAnswer
  <2>2. CASE strategy = "sar"
    <3>1. answer = [target |-> ReverseTarget(shadow.quantity, signal, PositionSize), grid |-> grid]
      BY <2>2 DEF Desired
    <3>2. answer.target = ReverseTarget(shadow.quantity, signal, PositionSize) /\ answer.grid = grid
      BY <3>1
    <3>. QED
      BY <2>2, <3>2, Typing, ReverseAnswer DEF IInv, TypeOK, Breach
  <2>. QED
    BY <2>1, <2>2 DEF IInv
<1>. HIDE DEF answer, final
<1>4. /\ final \in Int /\ Abs(final) <= MaxPosition
      /\ Held(shadow.quantity, final, breaker, kill_switch) = final
  BY <1>3, Typing, HeldCapped, HeldAgain DEF final
<1>5. breaker \/ kill_switch => final = 0
  <2>1. breaker \/ kill_switch => shadow.quantity = 0
    BY DEF IInv, ShadowIsLastTarget
  <2>. QED
    BY <1>3, <2>1, Typing, HeldOff DEF final
<1>6. strategy = "sar" /\ shadow.quantity # 0 => final # 0
  <2>. SUFFICES ASSUME strategy = "sar", shadow.quantity # 0
                PROVE  final # 0
    OBVIOUS
  <2>1. breaker = FALSE /\ kill_switch = FALSE
    BY Typing DEF IInv, ShadowIsLastTarget
  <2>2. final = Held(shadow.quantity, answer.target, FALSE, FALSE)
    BY <2>1 DEF final
  <2>. QED
    BY <1>3, <2>2, Typing, HeldOn
<1>7. strategy = "grid" /\ final # 0 => grid' = Grid(opened', Sign(final))
  <2>. SUFFICES ASSUME strategy = "grid", final # 0
                PROVE  grid' = Grid(opened', Sign(final))
    OBVIOUS
  <2>1. breaker = FALSE /\ kill_switch = FALSE
    BY <1>5, Typing
  <2>2. final = Held(shadow.quantity, answer.target, FALSE, FALSE)
    BY <2>1 DEF final
  <2>3. answer.target # 0 /\ Sign(final) = Sign(answer.target)
    BY <1>3, <2>2, Typing, HeldSide
  <2>. QED
    BY <1>2, <1>3, <2>3
<1>8. shadow' \in [quantity : Int, avg_price : Nat] /\ shadow'.quantity = final
  BY <1>1, <1>2, <1>4, Typing
<1>9. grid' = NoGrid \/ grid' \in GridStates
  BY <1>2, <1>3
<1>10. /\ opened' \in Nat /\ breached \subseteq breached'
       /\ \A b \in breached' \ breached : b = Len(targets) + 1 /\ final = 0
  <2>1. Breach(close) => final = 0
    BY <1>3, Typing, HeldFlat DEF final
  <2>. QED
    BY <1>1, <1>2, <2>1 DEF IInv, TypeOK
<1>. QED
  BY <1>2, <1>4, <1>5, <1>6, <1>7, <1>8, <1>9, <1>10, Extends

(* The engine, once it is through with a bar, holds what was planned for   *)
(* the bar before, ...                                                     *)
LEMMA EngineHolds ==
    ASSUME IInv, EngineBar
    PROVE  /\ processed \in Nat /\ processed + 1 \in 1..Len(targets)
           /\ position + pending_qty = Before(processed + 1)
<1>1. /\ Len(targets) = BarCount /\ processed < BarCount
      /\ processed \in Nat /\ BarCount \in Nat
  BY BarCountAssumption DEF EngineBar, IInv, TypeOK
<1>2. CASE processed = 0
  BY <1>1, <1>2 DEF IInv, EngineStarts, Before
<1>3. CASE processed # 0
  <2>1. processed \in 1..BarCount - 1
    BY <1>1, <1>3
  <2>. QED
    BY <1>1, <1>3, <2>1 DEF IInv, EngineFollowsPlan, Before
<1>. QED
  BY <1>1, <1>2, <1>3

(* ... and orders the rest of this bar's target.                           *)
LEMMA EngineBarKeeps ==
    ASSUME IInv, EngineBar
    PROVE  IInv'
<1>. DEFINE bar == processed + 1
            held == position + pending_qty
<1>1. /\ bar \in 1..BarCount /\ Len(targets) = BarCount /\ processed \in Nat
      /\ position' = held /\ processed' = bar
      /\ pending_qty' = IF bar = BarCount THEN 0 ELSE Order(held, targets[bar])
      /\ UNCHANGED <<strategy, breaker, kill_switch, shadow, grid, targets, opened, breached>>
  BY EngineHolds DEF EngineBar, config, history
<1>2. held = Before(bar)
  BY EngineHolds
<1>3. held \in Int /\ targets[bar] \in Int
  BY <1>1, Typing DEF IInv, TypeOK
<1>4. Order(held, targets[bar]) \in Int /\ held + Order(held, targets[bar]) = targets[bar]
  BY <1>1, <1>2, <1>3, Typing, OrderLeadsThere DEF IInv, Planned
<1>5. TypeOK'
  BY <1>1, <1>3, <1>4 DEF IInv, TypeOK
<1>6. Planned' /\ StaysIn' /\ ShadowIsLastTarget' /\ GridOfOpening' /\ BreachedIsFlat'
  BY <1>1 DEF IInv, Planned, StaysIn, ShadowIsLastTarget, GridOfOpening, BreachedIsFlat,
              Before, Grid, Sign, Held, Evaluate, RestrictToReduction, Allowed, Rejected, ApplyPositionCap,
              IsFlip, Increases, Opposed
<1>7. EngineStarts'
  BY <1>1, <1>2 DEF EngineStarts, Before
<1>8. EngineFollowsPlan'
  BY <1>1, <1>2, <1>4 DEF EngineFollowsPlan, Before
<1>. QED
  BY <1>1, <1>5, <1>6, <1>7, <1>8 DEF IInv

-----------------------------------------------------------------------------
LEMMA Invariance == Spec => []IInv
<1>1. Init => IInv
  BY BarCountAssumption
  DEF Init, IInv, TypeOK, Planned, StaysIn, ShadowIsLastTarget, Before, EngineStarts,
      EngineFollowsPlan, GridOfOpening, BreachedIsFlat
<1>2. IInv /\ [Next]_vars => IInv'
  <2>. SUFFICES ASSUME IInv, [Next]_vars
                PROVE  IInv'
    OBVIOUS
  <2>1. CASE UNCHANGED vars
    BY <2>1
    DEF vars, IInv, TypeOK, Planned, StaysIn, ShadowIsLastTarget, Before, EngineStarts,
        EngineFollowsPlan, GridOfOpening, BreachedIsFlat, history, Grid, Sign, Held, Evaluate, RestrictToReduction, Allowed,
        Rejected, ApplyPositionCap, IsFlip, Increases, Opposed
  <2>. QED
    BY <2>1, WarmUpKeeps, GenerateKeeps, EngineBarKeeps DEF Next
<1>. QED
  BY <1>1, <1>2, PTL DEF Spec

(* For every strategy, price and cap, with the switches on or off, the     *)
(* engine holds what the first pass planned, one bar later.                *)
THEOREM EngineKeepsToThePlan == Spec => []EngineFollowsPlan
<1>1. IInv => EngineFollowsPlan
  BY DEF IInv
<1>. QED
  BY <1>1, Invariance, PTL

(* For every strategy parameter, price and cap: when a bar closes beyond   *)
(* the stop of the grid's position, the engine is flat a bar later.        *)
THEOREM StopsAreCarriedOut == Spec => []StopCarriedOut
<1>1. IInv => StopCarriedOut
  <2>. SUFFICES ASSUME IInv, processed >= 2, processed - 1 \in breached
                PROVE  position = 0
    BY DEF StopCarriedOut
  <2>1. targets[processed - 1] = 0
    BY DEF IInv, BreachedIsFlat
  <2>. QED
    BY <2>1 DEF IInv, EngineFollowsPlan
<1>. QED
  BY <1>1, Invariance, PTL

(* A stop-and-reverse engine that has entered the market never leaves it:  *)
(* a reversal is one order through zero, and the cap only cuts it.         *)
THEOREM NeverLeftFlat == Spec => AlwaysInTheMarket
<1>1. IInv /\ [Next]_vars => [strategy = "sar" /\ position # 0 => position' # 0]_vars
  <2>. SUFFICES ASSUME IInv, Next, strategy = "sar", position # 0
                PROVE  position' # 0
    OBVIOUS
  <2>1. CASE EngineBar
    <3>1. position' = Before(processed + 1) /\ processed \in Nat
          /\ processed + 1 \in 1..Len(targets)
      BY <2>1, EngineHolds DEF EngineBar
    <3>2. processed >= 2 /\ position = targets[processed - 1]
      BY <3>1 DEF IInv, EngineStarts, EngineFollowsPlan
    <3>3. processed \in 1..Len(targets) /\ Before(processed) = position
      BY <3>1, <3>2, Typing DEF Before
    <3>4. targets[processed] # 0
      BY <3>3 DEF IInv, StaysIn
    <3>. QED
      BY <3>1, <3>2, <3>4 DEF Before
  <2>2. CASE position' = position
    BY <2>2
  <2>. QED
    BY <2>1, <2>2 DEF Next, WarmUp, Generate
<1>. QED
  BY <1>1, Invariance, PTL DEF Spec, AlwaysInTheMarket
=============================================================================
