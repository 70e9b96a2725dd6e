-------------------------- MODULE MacroRegime_proofs --------------------------
(* What MacroRegime keeps for every weight, threshold and indicator.       *)
EXTENDS MacroRegime, FiniteSetTheorems, TLAPS

LEMMA SnapshotType ==
    ASSUME NEW s \in Snapshots
    PROVE  s.volatility \in Nat /\ s.trend \in Int /\ s.sentiment \in Int
  BY IndicatorAssumption DEF Snapshots

LEMMA ClipType ==
    ASSUME NEW x \in Int
    PROVE  Clip(x) \in Int
  BY IndicatorAssumption DEF Clip

LEMMA ClipMonotone ==
    ASSUME NEW x \in Int, NEW y \in Int, x <= y
    PROVE  Clip(x) <= Clip(y)
  BY IndicatorAssumption DEF Clip

LEMMA AtMostMonotone ==
    ASSUME NEW x \in Nat, NEW y \in Nat, x <= y
    PROVE  /\ AtMost(x, BreakerVolatility) \in Nat /\ AtMost(y, BreakerVolatility) \in Nat
           /\ AtMost(x, BreakerVolatility) <= AtMost(y, BreakerVolatility)
  BY ThresholdAssumption DEF AtMost

LEMMA ProductMonotone ==
    ASSUME NEW w \in Nat, NEW x \in Int, NEW y \in Int, x <= y
    PROVE  w * x \in Int /\ w * y \in Int /\ w * x <= w * y
  OBVIOUS

(* A term of the score: a weight times an indicator times a denominator.   *)
LEMMA TermMonotone ==
    ASSUME NEW w \in Nat, NEW d \in Nat, NEW x \in Int, NEW y \in Int, x <= y
    PROVE  /\ w * (x * d) \in Int /\ w * (y * d) \in Int
           /\ w * (x * d) <= w * (y * d)
<1>1. d * x \in Int /\ d * y \in Int /\ d * x <= d * y
  BY ProductMonotone
<1>2. x * d = d * x /\ y * d = d * y
  OBVIOUS
<1>3. w * (d * x) \in Int /\ w * (d * y) \in Int /\ w * (d * x) <= w * (d * y)
  BY <1>1, ProductMonotone
<1>. QED
  BY <1>2, <1>3

(* Worse indicators never score higher.                                    *)
LEMMA ScoreMonotone ==
    ASSUME NEW s \in Snapshots, NEW t \in Snapshots, Worse(s, t)
    PROVE  Score(s) \in Int /\ Score(t) \in Int /\ Score(s) <= Score(t)
<1>. DEFINE T(u) == TrendWeight * (Clip(u.trend) * BreakerVolatility)
            V(u) == VolatilityWeight * (AtMost(u.volatility, BreakerVolatility) * Unit)
            M(u) == SentimentWeight * (Clip(u.sentiment) * BreakerVolatility)
<1>1. /\ s.volatility \in Nat /\ s.trend \in Int /\ s.sentiment \in Int
      /\ t.volatility \in Nat /\ t.trend \in Int /\ t.sentiment \in Int
  BY SnapshotType
<1>2. s.trend <= t.trend /\ s.sentiment <= t.sentiment /\ t.volatility <= s.volatility
  BY <1>1 DEF Worse
<1>3. T(s) \in Int /\ T(t) \in Int /\ T(s) <= T(t)
  <2>1. Clip(s.trend) \in Int /\ Clip(t.trend) \in Int /\ Clip(s.trend) <= Clip(t.trend)
    BY <1>1, <1>2, ClipType, ClipMonotone
  <2>. QED
    BY <2>1, TermMonotone, WeightAssumption, ThresholdAssumption
<1>4. M(s) \in Int /\ M(t) \in Int /\ M(s) <= M(t)
  <2>1. /\ Clip(s.sentiment) \in Int /\ Clip(t.sentiment) \in Int
        /\ Clip(s.sentiment) <= Clip(t.sentiment)
    BY <1>1, <1>2, ClipType, ClipMonotone
  <2>. QED
    BY <2>1, TermMonotone, WeightAssumption, ThresholdAssumption
<1>5. V(s) \in Int /\ V(t) \in Int /\ V(t) <= V(s)
  <2>1. /\ AtMost(s.volatility, BreakerVolatility) \in Int
        /\ AtMost(t.volatility, BreakerVolatility) \in Int
        /\ AtMost(t.volatility, BreakerVolatility) <= AtMost(s.volatility, BreakerVolatility)
    BY <1>1, <1>2, AtMostMonotone
  <2>. QED
    BY <2>1, TermMonotone, WeightAssumption, IndicatorAssumption
<1>6. Score(s) = T(s) - V(s) + M(s) /\ Score(t) = T(t) - V(t) + M(t)
  BY DEF Score
<1>. HIDE DEF T, V, M
<1>. QED
  BY <1>3, <1>4, <1>5, <1>6

(* The thresholds on the scale of the scores keep their order.             *)
LEMMA ThresholdsOrdered ==
    /\ RiskOn * (Unit * BreakerVolatility) \in Int
    /\ RiskOff * (Unit * BreakerVolatility) \in Int
    /\ RiskOff * (Unit * BreakerVolatility) < RiskOn * (Unit * BreakerVolatility)
<1>. DEFINE scale == Unit * BreakerVolatility
<1>1. scale \in Nat /\ scale # 0
  BY ThresholdAssumption, IndicatorAssumption
<1>2. RiskOn \in Int /\ RiskOff \in Int /\ RiskOff + 1 <= RiskOn
  BY ThresholdAssumption
<1>. HIDE DEF scale
<1>3. scale * (RiskOff + 1) <= scale * RiskOn
  BY <1>1, <1>2, ProductMonotone
<1>4. /\ scale * (RiskOff + 1) = RiskOff * scale + scale
      /\ scale * RiskOn = RiskOn * scale
      /\ RiskOff * scale \in Int /\ RiskOn * scale \in Int
  BY <1>1, <1>2
<1>5. RiskOff * scale < RiskOn * scale
  BY <1>1, <1>3, <1>4
<1>. QED
  BY <1>4, <1>5 DEF scale

LEMMA RegimeType ==
    ASSUME NEW score \in Int
    PROVE  Classify(score) \in Regimes
  BY ThresholdsOrdered DEF Classify, Regimes

LEMMA ShortSequences ==
    ASSUME NEW S
    PROVE  /\ << >> \in Seq(S)
           /\ \A e \in S : <<e>> \in Seq(S)
  OBVIOUS

LEMMA LowerIsNotBolder ==
    ASSUME NEW x \in Int, NEW y \in Int, x <= y
    PROVE  /\ Parameters[Classify(x)].levels <= Parameters[Classify(y)].levels
           /\ Parameters[Classify(x)].spacing >= Parameters[Classify(y)].spacing
           /\ Parameters[Classify(x)].stop >= Parameters[Classify(y)].stop
<1>. DEFINE on == RiskOn * (Unit * BreakerVolatility)
            off == RiskOff * (Unit * BreakerVolatility)
<1>1. on \in Int /\ off \in Int /\ off < on
  BY ThresholdsOrdered
<1>2. \A z \in Int : Classify(z) = CASE z >= on  -> "RISK_ON"
                                     [] z <= off -> "RISK_OFF"
                                     [] OTHER    -> "NEUTRAL"
  BY DEF Classify
<1>. HIDE DEF on, off
<1>3. CASE y >= on
  <2>1. Classify(y) = "RISK_ON"
    BY <1>1, <1>2, <1>3
  <2>2. Classify(x) \in {"RISK_ON", "NEUTRAL", "RISK_OFF"}
    BY <1>1, <1>2
  <2>. QED
    BY <2>1, <2>2 DEF Parameters
<1>4. CASE off < y /\ y < on
  <2>1. Classify(y) = "NEUTRAL"
    BY <1>1, <1>2, <1>4
  <2>2. Classify(x) \in {"NEUTRAL", "RISK_OFF"}
    BY <1>1, <1>2, <1>4
  <2>. QED
    BY <2>1, <2>2 DEF Parameters
<1>5. CASE y <= off
  <2>1. Classify(y) = "RISK_OFF"
    BY <1>1, <1>2, <1>5
  <2>2. Classify(x) = "RISK_OFF"
    BY <1>1, <1>2, <1>5
  <2>. QED
    BY <2>1, <2>2 DEF Parameters
<1>. QED
  BY <1>1, <1>3, <1>4, <1>5

-----------------------------------------------------------------------------
(* The theorems. *)

(* The memory and the log keep their types: an event is an alarm or a      *)
(* change between two regimes (_emit_transitions).                         *)
THEOREM TypeCorrect == Spec => []TypeOK
<1>1. Init => TypeOK
  BY ShortSequences DEF Init, TypeOK
<1>2. TypeOK /\ [Next]_vars => TypeOK'
  <2>. SUFFICES ASSUME TypeOK, [Next]_vars
                PROVE  TypeOK'
    OBVIOUS
  <2>1. CASE UNCHANGED vars
    BY <2>1 DEF TypeOK, vars
  <2>2. ASSUME NEW s \in Snapshots, Evaluate(s)
        PROVE  TypeOK'
    <3>1. Score(s) \in Int
      <4>1. Worse(s, s)
        BY SnapshotType DEF Worse
      <4>. QED
        BY <4>1, ScoreMonotone
    <3>2. Classify(Score(s)) \in Regimes
      BY <3>1, RegimeType
    <3>3. last_regime' \in Regimes \cup {"none"} /\ last_breaker' \in BOOLEAN
      BY <2>2, <3>2 DEF Evaluate, Remembered, Breaker
    <3>4. Alarms(s) \in Seq(Events)
      <4>1. Alarm \in Events
        BY DEF Events
      <4>2. Alarms(s) = <<Alarm>> \/ Alarms(s) = << >>
        BY DEF Alarms
      <4>. QED
        BY <4>1, <4>2, ShortSequences
    <3>5. Changes(s) \in Seq(Events)
      <4>. DEFINE change == Changed(last_regime, Classify(Score(s)))
      <4>1. Changes(s) = << >> \/ (Changes(s) = <<change>> /\ last_regime # "none")
        BY DEF Changes
      <4>2. last_regime # "none" => change \in Events
        BY <3>2 DEF TypeOK, Events
      <4>. HIDE DEF change
      <4>. QED
        BY <4>1, <4>2, ShortSequences
    <3>6. events' \in Seq(Events)
      BY <2>2, <3>4, <3>5 DEF Evaluate, TypeOK
    <3>7. seen' \in Seq(Snapshots)
      BY <2>2 DEF Evaluate, TypeOK
    <3>. QED
      BY <3>3, <3>6, <3>7 DEF TypeOK
  <2>. QED
    BY <2>1, <2>2 DEF Next
<1>. QED
  BY <1>1, <1>2, PTL DEF Spec

(* For all weights and thresholds the configuration accepts and all        *)
(* indicators: what is worse in every respect never gets bolder            *)
(* parameters, nor escapes a breaker (evaluate, _classify_regime).         *)
THEOREM NeverBolder == Spec => []WorseIsNeverBolder
<1>1. TypeOK => WorseIsNeverBolder
  <2>. SUFFICES ASSUME TypeOK, NEW i \in 1 .. Len(seen), NEW j \in 1 .. Len(seen),
                       Worse(seen[i], seen[j])
                PROVE  /\ Parameters[RegimeOf(i)].levels <= Parameters[RegimeOf(j)].levels
                       /\ Parameters[RegimeOf(i)].spacing >= Parameters[RegimeOf(j)].spacing
                       /\ Parameters[RegimeOf(i)].stop >= Parameters[RegimeOf(j)].stop
                       /\ Breaker(seen[j]) => Breaker(seen[i])
    BY DEF WorseIsNeverBolder
  <2>1. seen[i] \in Snapshots /\ seen[j] \in Snapshots
    BY DEF TypeOK
  <2>2. /\ Score(seen[i]) \in Int /\ Score(seen[j]) \in Int
        /\ Score(seen[i]) <= Score(seen[j])
    BY <2>1, ScoreMonotone
  <2>3. Breaker(seen[j]) => Breaker(seen[i])
    BY <2>1, SnapshotType, ThresholdAssumption DEF Breaker, Worse
  <2>. QED
    BY <2>2, <2>3, LowerIsNotBolder DEF RegimeOf
<1>. QED
  BY <1>1, TypeCorrect, PTL

-----------------------------------------------------------------------------
(* What an evaluation logs: an alarm, a change, both in this order, or     *)
(* nothing.  first and second are where they go.                           *)
LogsAlarm(s) == Breaker(s) /\ ~last_breaker

LogsChange(s) == last_regime # "none" /\ Classify(Score(s)) # last_regime

AlarmPlace == Len(events) + 1

ChangePlace(s) == IF LogsAlarm(s) THEN Len(events) + 2 ELSE Len(events) + 1

LEMMA EvaluateLogs ==
    ASSUME TypeOK, NEW s \in Snapshots, Evaluate(s)
    PROVE  /\ \A i \in DOMAIN events : i \in DOMAIN events' /\ events'[i] = events[i]
           /\ DOMAIN events' = DOMAIN events
                                 \cup (IF LogsAlarm(s) THEN {AlarmPlace} ELSE {})
                                 \cup (IF LogsChange(s) THEN {ChangePlace(s)} ELSE {})
           /\ LogsAlarm(s) => events'[AlarmPlace] = Alarm
           /\ LogsChange(s) =>
                 events'[ChangePlace(s)] = Changed(last_regime, Classify(Score(s)))
           /\ Len(events) \in Nat /\ Len(events') \in Nat /\ DOMAIN events = 1..Len(events)
           /\ DOMAIN events' = 1..Len(events')
<1>. DEFINE change == Changed(last_regime, Classify(Score(s)))
<1>1. events' = events \o Alarms(s) \o Changes(s) /\ events \in Seq(Events)
  BY DEF Evaluate, TypeOK
<1>2. Alarms(s) = (IF LogsAlarm(s) THEN <<Alarm>> ELSE << >>)
  BY DEF Alarms, LogsAlarm
<1>3. Changes(s) = (IF LogsChange(s) THEN <<change>> ELSE << >>)
  BY DEF Changes, LogsChange
<1>. HIDE DEF change
<1>4. CASE ~LogsAlarm(s) /\ ~LogsChange(s)
  BY <1>1, <1>2, <1>3, <1>4
<1>5. CASE LogsAlarm(s) /\ ~LogsChange(s)
  <2>1. events' = (events \o <<Alarm>>) \o << >>
    BY <1>1, <1>2, <1>3, <1>5
  <2>. QED
    BY <1>1, <1>5, <2>1 DEF AlarmPlace
<1>6. CASE ~LogsAlarm(s) /\ LogsChange(s)
  <2>1. events' = (events \o << >>) \o <<change>>
    BY <1>1, <1>2, <1>3, <1>6
  <2>. QED
    BY <1>1, <1>6, <2>1 DEF ChangePlace, change
<1>7. CASE LogsAlarm(s) /\ LogsChange(s)
  <2>1. events' = (events \o <<Alarm>>) \o <<change>>
    BY <1>1, <1>2, <1>3, <1>7
  <2>. QED
    BY <1>1, <1>7, <2>1 DEF AlarmPlace, ChangePlace, change
<1>. QED
  BY <1>4, <1>5, <1>6, <1>7

LEMMA EvaluateSees ==
    ASSUME TypeOK, NEW s \in Snapshots, Evaluate(s)
    PROVE  /\ Len(seen) \in Nat /\ Len(seen') = Len(seen) + 1
           /\ \A i \in 1..Len(seen) : seen'[i] = seen[i]
           /\ seen'[Len(seen) + 1] = s
           /\ (seen = << >>) <=> (Len(seen) = 0)
           /\ seen' # << >>
           /\ Classify(Score(s)) \in Regimes
<1>1. seen' = Append(seen, s) /\ seen \in Seq(Snapshots)
  BY DEF Evaluate, TypeOK
<1>2. Classify(Score(s)) \in Regimes
  <2>1. Worse(s, s)
    BY SnapshotType DEF Worse
  <2>. QED
    BY <2>1, ScoreMonotone, RegimeType
<1>. QED
  BY <1>1, <1>2

-----------------------------------------------------------------------------
(* The alarms of the log and the spells among the snapshots grow together: *)
(* what evaluate remembers is whether a spell is running.                  *)

AlarmsLogged == {i \in 1 .. Len(events) : events[i] = Alarm}

SpellStarts == {i \in 1 .. Len(seen) : Breaker(seen[i]) /\ (i = 1 \/ ~Breaker(seen[i - 1]))}

SpellsCounted ==
    /\ TypeOK
    /\ last_breaker = (seen # << >> /\ Breaker(seen[Len(seen)]))
    /\ IsFiniteSet(AlarmsLogged) /\ IsFiniteSet(SpellStarts)
    /\ Cardinality(AlarmsLogged) = Cardinality(SpellStarts)

LEMMA SpellsStayCounted ==
    ASSUME SpellsCounted, NEW s \in Snapshots, Evaluate(s), TypeOK'
    PROVE  SpellsCounted'
<1>0. TypeOK
  BY DEF SpellsCounted
<1>1. PICK n \in Nat : n = Len(events)
  BY <1>0, EvaluateLogs
<1>2. PICK m \in Nat : m = Len(seen)
  BY <1>0, EvaluateSees
<1>3. /\ m = Len(seen) /\ Len(seen') = m + 1 /\ seen'[m + 1] = s
      /\ \A i \in 1..m : seen'[i] = seen[i]
      /\ seen = << >> <=> m = 0
      /\ seen' # << >>
  BY <1>0, <1>2, EvaluateSees
<1>4. last_breaker' = (seen' # << >> /\ Breaker(seen'[Len(seen')]))
  BY <1>3 DEF Evaluate, Remembered, Breaker
<1>5. SpellStarts' = SpellStarts \cup (IF LogsAlarm(s) THEN {m + 1} ELSE {})
  <2>1. LogsAlarm(s) <=> (Breaker(s) /\ (m = 0 \/ ~Breaker(seen[m])))
    BY <1>3 DEF LogsAlarm, SpellsCounted
  <2>2. \A i \in 1..m : i # 1 => seen'[i - 1] = seen[i - 1]
    BY <1>3
  <2>3. m # 0 => seen'[m] = seen[m]
    BY <1>3
  <2>4. SpellStarts' = {i \in 1 .. m + 1 : Breaker(seen'[i]) /\ (i = 1 \/ ~Breaker(seen'[i - 1]))}
    BY <1>3 DEF SpellStarts, Breaker
  <2>5. \A i : i \in SpellStarts' <=> i \in SpellStarts \/ (LogsAlarm(s) /\ i = m + 1)
    <3>. SUFFICES ASSUME NEW i \in 1..m + 1
                  PROVE  i \in SpellStarts' <=> i \in SpellStarts \/ (LogsAlarm(s) /\ i = m + 1)
      BY <1>3, <2>4 DEF SpellStarts
    <3>1. CASE i \in 1..m
      BY <1>3, <2>2, <2>4, <3>1 DEF SpellStarts, Breaker
    <3>2. CASE i = m + 1
      BY <1>3, <2>1, <2>3, <2>4, <3>2 DEF SpellStarts
    <3>. QED
      BY <3>1, <3>2
  <2>. QED
    BY <2>5
<1>6. AlarmsLogged' = AlarmsLogged \cup (IF LogsAlarm(s) THEN {n + 1} ELSE {})
  <2>1. \A f, t : Changed(f, t) # Alarm
    <3>1. \A f, t : Changed(f, t).type # Alarm.type
      BY DEF Changed, Alarm
    <3>. QED
      BY <3>1
  <2>2. AlarmsLogged' = {i \in DOMAIN events' : events'[i] = Alarm}
    BY <1>0, EvaluateLogs DEF AlarmsLogged, Alarm
  <2>3. AlarmsLogged = {i \in DOMAIN events : events[i] = Alarm}
    BY <1>0, EvaluateLogs DEF AlarmsLogged
  <2>. QED
    BY <1>0, <1>1, <2>1, <2>2, <2>3, EvaluateLogs DEF AlarmPlace, ChangePlace
<1>7. n + 1 \notin AlarmsLogged /\ m + 1 \notin SpellStarts
  BY <1>1, <1>2 DEF AlarmsLogged, SpellStarts
<1>8. /\ IsFiniteSet(AlarmsLogged') /\ IsFiniteSet(SpellStarts')
      /\ Cardinality(AlarmsLogged') = Cardinality(SpellStarts')
  <2>1. IsFiniteSet(AlarmsLogged) /\ IsFiniteSet(SpellStarts)
        /\ Cardinality(AlarmsLogged) = Cardinality(SpellStarts)
    BY DEF SpellsCounted
  <2>2. CASE LogsAlarm(s)
    <3>1. AlarmsLogged' = AlarmsLogged \cup {n + 1} /\ SpellStarts' = SpellStarts \cup {m + 1}
      BY <1>5, <1>6, <2>2
    <3>2. /\ IsFiniteSet(AlarmsLogged \cup {n + 1})
          /\ Cardinality(AlarmsLogged \cup {n + 1}) = Cardinality(AlarmsLogged) + 1
      BY <1>7, <2>1, FS_AddElement
    <3>3. /\ IsFiniteSet(SpellStarts \cup {m + 1})
          /\ Cardinality(SpellStarts \cup {m + 1}) = Cardinality(SpellStarts) + 1
      BY <1>7, <2>1, FS_AddElement
    <3>. QED
      BY <2>1, <3>1, <3>2, <3>3
  <2>3. CASE ~LogsAlarm(s)
    <3>1. AlarmsLogged' = AlarmsLogged /\ SpellStarts' = SpellStarts
      BY <1>5, <1>6, <2>3
    <3>. QED
      BY <2>1, <3>1
  <2>. QED
    BY <2>2, <2>3
<1>. QED
  BY <1>4, <1>8 DEF SpellsCounted

(* For every configuration and every sequence of snapshots: as many alarms *)
(* as there were spells of extreme volatility (_emit_transitions).         *)
THEOREM AlarmsAreSpells == Spec => []OneAlarmPerSpell
<1>1. Init => SpellsCounted
  <2>. SUFFICES ASSUME Init
                PROVE  SpellsCounted
    OBVIOUS
  <2>1. TypeOK
    BY ShortSequences DEF Init, TypeOK
  <2>2. AlarmsLogged = {} /\ SpellStarts = {}
    BY DEF Init, AlarmsLogged, SpellStarts
  <2>. QED
    BY <2>1, <2>2, FS_EmptySet DEF Init, SpellsCounted
<1>2. SpellsCounted /\ TypeOK' /\ [Next]_vars => SpellsCounted'
  <2>1. SpellsCounted /\ UNCHANGED vars => SpellsCounted'
    BY DEF vars, SpellsCounted, TypeOK, AlarmsLogged, SpellStarts, Breaker, Alarm
  <2>. QED
    BY <2>1, SpellsStayCounted DEF Next
<1>3. SpellsCounted => OneAlarmPerSpell
  BY DEF SpellsCounted, OneAlarmPerSpell, AlarmsLogged, SpellStarts
<1>. QED
  BY <1>1, <1>2, <1>3, TypeCorrect, PTL DEF Spec

-----------------------------------------------------------------------------
(* The log can be replayed.                                                *)

Replayable ==
    /\ TypeOK
    /\ seen = << >> => events = << >> /\ last_regime = "none"
    /\ seen # << >> => last_regime # "none"
    /\ LogTellsTheRegime

LEMMA StaysReplayable ==
    ASSUME Replayable, NEW s \in Snapshots, Evaluate(s), TypeOK'
    PROVE  Replayable'
<1>0. TypeOK
  BY DEF Replayable
<1>1. PICK n \in Nat : n = Len(events)
  BY <1>0, EvaluateLogs
<1>2. PICK to : to = Classify(Score(s))
  OBVIOUS
<1>3. last_regime' = to /\ to \in Regimes /\ to # "none" /\ seen' # << >>
  BY <1>0, <1>2, EvaluateSees DEF Evaluate, Regimes
<1>4. /\ \A i \in 1..n : i \in DOMAIN events' /\ events'[i] = events[i]
      /\ DOMAIN events = 1..n
      /\ DOMAIN events' = 1..Len(events') /\ Len(events') \in Nat
  BY <1>0, <1>1, EvaluateLogs
<1>5. \A i \in 1..n + 1 : ChangesBefore(i)' = ChangesBefore(i)
  BY <1>4 DEF ChangesBefore
<1>6. CASE seen = << >>
  <2>1. ~LogsChange(s) /\ DOMAIN events = {}
    BY <1>6 DEF Replayable, LogsChange
  <2>2. \A i \in DOMAIN events' : events'[i] = Alarm
    <3>1. DOMAIN events' = (IF LogsAlarm(s) THEN {AlarmPlace} ELSE {})
      BY <1>0, <2>1, EvaluateLogs
    <3>2. LogsAlarm(s) => events'[AlarmPlace] = Alarm
      BY <1>0, EvaluateLogs
    <3>. QED
      BY <3>1, <3>2
  <2>3. ChangesBefore(Len(events) + 1)' = {}
    <3>1. \A i \in DOMAIN events' : events'[i].type # "REGIME_CHANGED"
      BY <2>2 DEF Alarm
    <3>. QED
      BY <3>1 DEF ChangesBefore
  <2>4. RegimeOf(1)' = last_regime'
    <3>1. seen'[1] = s
      BY <1>0, <1>6, EvaluateSees
    <3>. QED
      BY <1>2, <1>3, <3>1 DEF RegimeOf, Score, Classify, Clip, AtMost
  <2>5. ReplayedTo(Len(events) + 1, last_regime)'
    BY <2>3, <2>4 DEF ReplayedTo
  <2>. QED
    BY <1>3, <2>3, <2>5 DEF Replayable, LogTellsTheRegime
<1>7. CASE seen # << >>
  <2>1. /\ ReplayedTo(n + 1, last_regime)
        /\ \A i \in ChangesBefore(n + 1) :
              ReplayedTo(i, events[i].from) /\ events[i].to # events[i].from
        /\ last_regime # "none"
    BY <1>1, <1>7 DEF Replayable, LogTellsTheRegime
  (* What was replayed from a prefix of the log still is. *)
  <2>2. RegimeOf(1)' = RegimeOf(1)
    <3>1. seen'[1] = seen[1]
      BY <1>0, <1>7, EvaluateSees
    <3>. QED
      BY <3>1 DEF RegimeOf, Score, Classify, Clip, AtMost
  <2>3. \A i \in 1..n + 1 : \A r : ReplayedTo(i, r) => ReplayedTo(i, r)'
    <3>. SUFFICES ASSUME NEW i \in 1..n + 1, NEW r, ReplayedTo(i, r)
                  PROVE  ReplayedTo(i, r)'
      OBVIOUS
    <3>1. ChangesBefore(i)' = ChangesBefore(i)
      BY <1>5
    <3>2. \A j \in ChangesBefore(i) : events'[j] = events[j]
      BY <1>4 DEF ChangesBefore
    <3>. QED
      BY <2>2, <3>1, <3>2 DEF ReplayedTo
  <2>4. \A i \in ChangesBefore(n + 1) :
           ReplayedTo(i, events[i].from)' /\ (events[i].to # events[i].from)'
    <3>. SUFFICES ASSUME NEW i \in ChangesBefore(n + 1)
                  PROVE  ReplayedTo(i, events[i].from)' /\ (events[i].to # events[i].from)'
      OBVIOUS
    <3>1. i \in 1..n + 1 /\ events'[i] = events[i]
      BY <1>4 DEF ChangesBefore
    <3>2. PICK from : from = events[i].from
      OBVIOUS
    <3>3. ReplayedTo(i, from)'
      BY <2>1, <2>3, <3>1, <3>2
    <3>4. from = events[i].from /\ from = events'[i].from
      BY <3>1, <3>2
    <3>5. ReplayedTo(i, events[i].from)'
      BY <3>3, <3>4 DEF ReplayedTo
    <3>. QED
      BY <2>1, <3>1, <3>5
  <2>5. CASE ~LogsChange(s)
    <3>1. to = last_regime
      BY <1>2, <2>1, <2>5 DEF LogsChange
    <3>2. \A i \in DOMAIN events' : i \in 1..n \/ events'[i] = Alarm
      BY <1>0, <1>1, <1>4, <2>5, EvaluateLogs
    <3>3. Alarm.type # "REGIME_CHANGED"
      BY DEF Alarm
    <3>4. ChangesBefore(Len(events) + 1)' = ChangesBefore(n + 1)
      BY <1>4, <3>2, <3>3 DEF ChangesBefore
    <3>5. \A r : ReplayedTo(n + 1, r)' => ReplayedTo(Len(events) + 1, r)'
      <4>1. ChangesBefore(n + 1)' = ChangesBefore(Len(events) + 1)'
        BY <1>5, <3>4
      <4>. QED
        BY <4>1 DEF ReplayedTo
    <3>6. ReplayedTo(Len(events) + 1, last_regime)'
      BY <1>3, <2>1, <2>3, <3>1, <3>5
    <3>7. \A i \in ChangesBefore(Len(events) + 1)' :
             ReplayedTo(i, events[i].from)' /\ (events[i].to # events[i].from)'
      BY <2>4, <3>4
    <3>. QED
      BY <1>3, <3>6, <3>7 DEF Replayable, LogTellsTheRegime
  <2>6. CASE LogsChange(s)
    <3>0. PICK m \in Nat : m = ChangePlace(s)
      BY <1>0, EvaluateLogs DEF ChangePlace
    <3>1. /\ m \in DOMAIN events' /\ m > n
          /\ events'[m] = Changed(last_regime, to)
          /\ \A i \in DOMAIN events' : i \in 1..n \/ i = m \/ (i < m /\ events'[i] = Alarm)
          /\ \A i \in DOMAIN events' : i <= m
      BY <1>0, <1>1, <1>2, <1>4, <2>6, <3>0, EvaluateLogs DEF ChangePlace, AlarmPlace
    <3>2. events'[m].type = "REGIME_CHANGED" /\ events'[m].from = last_regime
          /\ events'[m].to = to /\ to # last_regime
      BY <1>2, <2>6, <3>1 DEF Changed, LogsChange
    <3>3. Alarm.type # "REGIME_CHANGED"
      BY DEF Alarm
    <3>4. ChangesBefore(m)' = ChangesBefore(n + 1)
      <4>1. \A i \in 1..n : i < m /\ i < n + 1 /\ i \in DOMAIN events' /\ events'[i] = events[i]
        BY <1>1, <1>4, <3>1
      <4>2. \A i \in DOMAIN events' : i < m /\ events'[i].type = "REGIME_CHANGED" => i \in 1..n
        BY <3>1, <3>3
      <4>. QED
        BY <1>4, <4>1, <4>2 DEF ChangesBefore
    <3>5. ChangesBefore(Len(events) + 1)' = ChangesBefore(n + 1) \cup {m}
      <4>1. ChangesBefore(Len(events) + 1)' = {i \in DOMAIN events' : events'[i].type = "REGIME_CHANGED"}
        BY <1>4 DEF ChangesBefore
      <4>2. ChangesBefore(m)' = {i \in DOMAIN events' : i < m /\ events'[i].type = "REGIME_CHANGED"}
        BY DEF ChangesBefore
      <4>3. \A i \in DOMAIN events' : i < m \/ i = m
        BY <1>4, <3>1
      <4>4. ~(m < m)
        BY <3>0
      <4>. QED
        BY <3>1, <3>2, <3>4, <4>1, <4>2, <4>3, <4>4
    <3>6. ReplayedTo(Len(events) + 1, last_regime)'
      <4>1. \A k \in ChangesBefore(Len(events) + 1)' : k <= m
        BY <3>1 DEF ChangesBefore
      <4>. QED
        BY <1>3, <3>2, <3>5, <4>1 DEF ReplayedTo
    <3>7. PICK before : before = last_regime
      OBVIOUS
    <3>8. ReplayedTo(m, events[m].from)'
      <4>1. ReplayedTo(n + 1, before)'
        BY <1>1, <2>1, <2>3, <3>7
      <4>2. ChangesBefore(n + 1)' = ChangesBefore(m)'
        BY <1>1, <1>5, <3>4
      <4>. QED
        BY <3>2, <3>7, <4>1, <4>2 DEF ReplayedTo
    <3>9. \A i \in ChangesBefore(Len(events) + 1)' :
             ReplayedTo(i, events[i].from)' /\ (events[i].to # events[i].from)'
      BY <2>4, <3>2, <3>5, <3>8
    <3>. QED
      BY <1>3, <3>6, <3>9 DEF Replayable, LogTellsTheRegime
  <2>. QED
    BY <2>5, <2>6
<1>. QED
  BY <1>6, <1>7

(* For every configuration and every sequence of snapshots: the log alone  *)
(* tells each regime the engine went through (_emit_transitions).          *)
THEOREM LogReplays == Spec => []LogTellsTheRegime
<1>1. Init => Replayable
  BY ShortSequences DEF Init, Replayable, TypeOK, LogTellsTheRegime
<1>2. Replayable /\ TypeOK' /\ [Next]_vars => Replayable'
  <2>1. Replayable /\ UNCHANGED vars => Replayable'
    BY DEF vars, Replayable, TypeOK, LogTellsTheRegime, ReplayedTo, ChangesBefore, RegimeOf,
           Score, Classify, Clip, AtMost
  <2>. QED
    BY <2>1, StaysReplayable DEF Next
<1>3. Replayable => LogTellsTheRegime
  BY DEF Replayable
<1>. QED
  BY <1>1, <1>2, <1>3, TypeCorrect, PTL DEF Spec
=============================================================================
