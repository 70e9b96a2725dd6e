---------------------------- MODULE MacroRegime ----------------------------
(***************************************************************************)
(* MacroRegimeEngine (src/macro/engine.py): each evaluate(snapshot) scores  *)
(* trend, volatility and sentiment, classifies the regime, raises the       *)
(* circuit breaker on extreme volatility and logs the TRANSITIONS only,     *)
(* comparing with the regime and the breaker of the previous call.          *)
(*                                                                         *)
(* The scores are exact: a weight is a number of tenths, an indicator a     *)
(* number of 1/Unit, and the score is multiplied by the denominators        *)
(* instead of divided (10 * Unit * BreakerVolatility).  The code's floats   *)
(* can be off in the last place and fall on the other side of a threshold   *)
(* met exactly: with the defaults, trend 0.75, volatility 2.5 and sentiment *)
(* -1 score -0.29999999999999993 (NEUTRAL), here -0.3 (RISK_OFF).  An event *)
(* is kept with what tells it apart, without its time and its text.         *)
(***************************************************************************)
EXTENDS Integers, Sequences, FiniteSets

CONSTANTS
    TrendWeight, VolatilityWeight, SentimentWeight,   \* config weights, in tenths
    RiskOn, RiskOff,                                  \* thresholds, in tenths
    BreakerVolatility,                                \* breaker threshold
    Unit,                                             \* 1.0 of trend and sentiment
    Trends, Volatilities, Sentiments,                 \* indicator values met
    MaxBars                                           \* bound: snapshots evaluated

\* What MacroRegimeConfig.__post_init__ enforces.
ASSUME WeightAssumption ==
    TrendWeight \in Nat /\ VolatilityWeight \in Nat /\ SentimentWeight \in Nat
ASSUME ThresholdAssumption ==
    /\ RiskOn \in Int /\ RiskOff \in Int /\ RiskOff < RiskOn
    /\ BreakerVolatility \in Nat \ {0}
ASSUME IndicatorAssumption ==
    /\ Unit \in Nat \ {0}
    /\ Trends \subseteq Int /\ Volatilities \subseteq Nat /\ Sentiments \subseteq Int

VARIABLES
    last_regime,      \* _last_regime, "none" before the first call
    last_breaker,     \* _last_circuit_breaker
    events,           \* what the event logger has received
    seen              \* history: the snapshots evaluated

vars == <<last_regime, last_breaker, events, seen>>

Regimes == {"RISK_ON", "NEUTRAL", "RISK_OFF"}
Snapshots == [volatility : Volatilities, trend : Trends, sentiment : Sentiments]

Clip(x) == IF x > Unit THEN Unit ELSE IF x < -Unit THEN -Unit ELSE x
AtMost(x, bound) == IF x > bound THEN bound ELSE x

\* Mutant: volatility counts for the regime instead of against it.
Score_AddsVolatility(s) ==
      TrendWeight * (Clip(s.trend) * BreakerVolatility)
    + VolatilityWeight * (AtMost(s.volatility, BreakerVolatility) * Unit)
    + SentimentWeight * (Clip(s.sentiment) * BreakerVolatility)

Score(s) ==
      TrendWeight * (Clip(s.trend) * BreakerVolatility)
    - VolatilityWeight * (AtMost(s.volatility, BreakerVolatility) * Unit)
    + SentimentWeight * (Clip(s.sentiment) * BreakerVolatility)

Classify(score) ==
    CASE score >= RiskOn * (Unit * BreakerVolatility)  -> "RISK_ON"
      [] score <= RiskOff * (Unit * BreakerVolatility) -> "RISK_OFF"
      [] OTHER                                         -> "NEUTRAL"

Breaker(s) == s.volatility >= BreakerVolatility

\* The strategy parameters of a regime (config.py defaults): grid spacing and
\* stop distance, in tenths of an ATR, and the levels of the pyramid.
Parameters ==
    [RISK_ON  |-> [spacing |-> 10, levels |-> 3, stop |-> 20],
     NEUTRAL  |-> [spacing |-> 15, levels |-> 2, stop |-> 25],
     RISK_OFF |-> [spacing |-> 20, levels |-> 1, stop |-> 30]]

Alarm == [type |-> "CIRCUIT_BREAKER_TRIGGERED"]
Changed(from, to) == [type |-> "REGIME_CHANGED", from |-> from, to |-> to]
Events == {Alarm} \cup {Changed(f, t) : f, t \in Regimes}

Alarms(s) == IF Breaker(s) /\ ~last_breaker THEN <<Alarm>> ELSE << >>

\* Mutant: elif, a change that comes with an alarm is not logged.
Changes_NotWithAlarm(s) ==
    IF Alarms(s) = << >> /\ last_regime # "none" /\ Classify(Score(s)) # last_regime
    THEN <<Changed(last_regime, Classify(Score(s)))>> ELSE << >>

Changes(s) ==
    IF last_regime # "none" /\ Classify(Score(s)) # last_regime
    THEN <<Changed(last_regime, Classify(Score(s)))>> ELSE << >>

\* Mutant: the breaker is never forgotten.
Remembered_Latched(s) == last_breaker \/ Breaker(s)
Remembered(s) == Breaker(s)

Init ==
    /\ last_regime = "none"
    /\ last_breaker = FALSE
    /\ events = << >>
    /\ seen = << >>

Evaluate(s) ==
    /\ Len(seen) < MaxBars
    /\ last_regime' = Classify(Score(s))
    /\ last_breaker' = Remembered(s)
    /\ events' = events \o Alarms(s) \o Changes(s)
    /\ seen' = Append(seen, s)

Next == \E s \in Snapshots : Evaluate(s)

Spec == Init /\ [][Next]_vars
-----------------------------------------------------------------------------
\* The engine's two memories and the log keep their types.
TypeOK ==
    /\ last_regime \in Regimes \cup {"none"}
    /\ last_breaker \in BOOLEAN
    /\ events \in Seq(Events)
    /\ seen \in Seq(Snapshots)

RegimeOf(i) == Classify(Score(seen[i]))

\* What a reader makes of the events before the i-th: the regime the last
\* change among them ended in, or else the first regime.
ChangesBefore(i) == {j \in DOMAIN events : j < i /\ events[j].type = "REGIME_CHANGED"}

ReplayedTo(i, regime) ==
    \/ ChangesBefore(i) = {} /\ regime = RegimeOf(1)
    \/ \E j \in ChangesBefore(i) :
          (\A k \in ChangesBefore(i) : k <= j) /\ regime = events[j].to

\* A reader who has only the event log and the first regime can replay it:
\* each change starts where the one before it ended, none is from a regime to
\* itself, and the last one ends in the regime in force (_emit_transitions).
LogTellsTheRegime ==
    seen # << >> =>
        /\ ReplayedTo(Len(events) + 1, last_regime)
        /\ \A i \in ChangesBefore(Len(events) + 1) :
              ReplayedTo(i, events[i].from) /\ events[i].to # events[i].from

\* One alarm for each spell of extreme volatility, however long it lasts and
\* however soon the next one follows: a sustained state is not logged again
\* and a new one is never swallowed (engine.py:102, 121-122, 131).
OneAlarmPerSpell ==
    LET starts == {i \in 1 .. Len(seen) :
                      Breaker(seen[i]) /\ (i = 1 \/ ~Breaker(seen[i - 1]))}
        alarms == {i \in 1 .. Len(events) : events[i] = Alarm}
    IN  Cardinality(alarms) = Cardinality(starts)

Worse(s, t) ==
    /\ s.volatility >= t.volatility
    /\ s.trend <= t.trend
    /\ s.sentiment <= t.sentiment

\* Of two snapshots seen, the one that is worse on every indicator is never
\* given bolder parameters (more levels, or levels and stops closer together),
\* and never escapes a circuit breaker the other one trips: clipping and the
\* signs of the weights keep the classification monotone over the whole range
\* of the indicators.
WorseIsNeverBolder ==
    \A i, j \in 1 .. Len(seen) : Worse(seen[i], seen[j]) =>
        /\ Parameters[RegimeOf(i)].levels <= Parameters[RegimeOf(j)].levels
        /\ Parameters[RegimeOf(i)].spacing >= Parameters[RegimeOf(j)].spacing
        /\ Parameters[RegimeOf(i)].stop >= Parameters[RegimeOf(j)].stop
        /\ Breaker(seen[j]) => Breaker(seen[i])
=============================================================================
