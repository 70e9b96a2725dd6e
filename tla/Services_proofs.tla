---------------------------- MODULE Services_proofs ----------------------------
(* The services around an order.  What the rollover verdicts give for      *)
(* every calendar of expiries, window and rhythm of checks.  However many  *)
(* tasks share the limiter, each of them keeps to the rate; and what       *)
(* retries, tokens and the limiter promise together.                       *)
EXTENDS BrokerCalls, Rollover, WellFoundedInduction, TLAPS

-----------------------------------------------------------------------------
(* Rollovers.                                                              *)
LEMMA CalendarTypes ==
    /\ RolloverDays \in Nat
    /\ \A e \in Expiries : e \in Nat
    /\ \A d, e \in Expiries : d < e => e - d > RolloverDays
  BY RolloverAssumption

(* The nearest of some expiries is one of them and the first of them.      *)
LEMMA NearestIsFirst ==
    ASSUME NEW S \in SUBSET Nat, S # {}
    PROVE  /\ Nearest(S) \in S
           /\ \A e \in S : Nearest(S) <= e
<1>1. PICK x \in S : \A y \in S : ~ (<<y, x>> \in OpToRel(<, Nat))
  BY NatLessThanWellFounded, WFMin, Zenon
<1>2. \A y \in S : x <= y
  <2>. SUFFICES ASSUME NEW y \in S, y < x
                PROVE  FALSE
    OBVIOUS
  <2>1. <<y, x>> \in OpToRel(<, Nat)
    BY DEF OpToRel
  <2>. QED
    BY <1>1, <2>1
<1>3. Min(S) \in S /\ \A y \in S : Min(S) <= y
  BY <1>2 DEF Min
<1>. QED
  BY <1>3 DEF Nearest

CurrentIs(k, day) == k \in Expiries /\ k >= day /\ \A e \in Expiries : e >= day => k <= e
NextIs(m, k) == m \in Expiries /\ m > k /\ \A e \in Expiries : e > k => m <= e

LEMMA CurrentFacts ==
    ASSUME NEW day \in Nat
    PROVE  \/ CurrentContract(day) = None /\ \A e \in Expiries : e < day
           \/ CurrentContract(day) # None /\ CurrentIs(CurrentContract(day), day)
<1>. DEFINE S == {e \in Expiries : e >= day}
<1>1. S \in SUBSET Nat /\ Expiries \subseteq Nat
  BY RolloverAssumption
<1>2. CASE S = {}
  BY <1>1, <1>2 DEF CurrentContract, Nearest
<1>3. CASE S # {}
  <2>1. Nearest(S) \in S /\ \A e \in S : Nearest(S) <= e
    BY <1>1, <1>3, NearestIsFirst
  <2>. QED
    BY <1>1, <2>1 DEF CurrentContract, CurrentIs, None
<1>. QED
  BY <1>2, <1>3

LEMMA NextFacts ==
    ASSUME NEW day \in Nat, CurrentContract(day) # None
    PROVE  \/ NextContract(day) = None /\ \A e \in Expiries : e <= CurrentContract(day)
           \/ NextContract(day) # None /\ NextIs(NextContract(day), CurrentContract(day))
<1>. DEFINE k == CurrentContract(day)
            S == {e \in Expiries : e > k}
<1>1. k \in Nat /\ S \in SUBSET Nat /\ Expiries \subseteq Nat
  BY CurrentFacts, RolloverAssumption DEF CurrentIs
<1>2. CASE S = {}
  BY <1>1, <1>2 DEF NextContract, Nearest
<1>3. CASE S # {}
  <2>1. Nearest(S) \in S /\ \A e \in S : Nearest(S) <= e
    BY <1>1, <1>3, NearestIsFirst
  <2>. QED
    BY <1>1, <2>1 DEF NextContract, NextIs, None
<1>. QED
  BY <1>2, <1>3

(* The four ways a verdict comes about.                                    *)
Expired(day) == Verdict(day) = None /\ \A e \in Expiries : e < day
Last(day, k) == /\ Verdict(day) = None
                /\ CurrentIs(k, day) /\ k - day <= RolloverDays
                /\ \A e \in Expiries : e <= k
Keep(day) == CurrentIs(Verdict(day), day) /\ Verdict(day) - day > RolloverDays
Roll(day, k) == /\ CurrentIs(k, day) /\ k - day <= RolloverDays
                /\ NextIs(Verdict(day), k)

LEMMA VerdictFacts ==
    ASSUME NEW day \in Nat
    PROVE  Expired(day) \/ Keep(day) \/ \E k \in Expiries : Last(day, k) \/ Roll(day, k)
<1>. DEFINE k == CurrentContract(day)
<1>1. CASE k = None
  BY <1>1, CurrentFacts DEF Expired, Verdict, Required, CurrentIs, None
<1>2. CASE k # None /\ ~ Required(day)
  <2>1. Verdict(day) = k /\ CurrentIs(k, day)
    BY <1>2, CurrentFacts DEF Verdict
  <2>2. k - day > RolloverDays
    <3>1. k \in Expiries
      BY <2>1 DEF CurrentIs
    <3>2. k \in Nat /\ ~ (k - day <= RolloverDays)
      BY <1>2, <3>1, CalendarTypes DEF Required
    <3>. QED
      BY <3>2, CalendarTypes
  <2>. QED
    BY <2>1, <2>2 DEF Keep
<1>3. CASE k # None /\ Required(day)
  <2>1. Verdict(day) = NextContract(day) /\ CurrentIs(k, day) /\ k - day <= RolloverDays
    BY <1>3, CurrentFacts DEF Verdict, Required
  <2>2. k \in Expiries
    BY <2>1 DEF CurrentIs
  <2>. QED
    BY <1>3, <2>1, <2>2, NextFacts DEF Last, Roll
<1>. QED
  BY <1>1, <1>2, <1>3

(* A verdict, as long as a caller may rely on it: the contract outlives    *)
(* the window, and no contract outside the window is passed over.          *)
LEMMA VerdictLasts ==
    ASSUME NEW day \in Nat
    PROVE  /\ Verdict(day) \in Expiries \cup {None}
           /\ Verdict(day) # None => Verdict(day) > day + RolloverDays
           /\ \A e \in Expiries :
                 (e < Verdict(day) /\ e >= day) => e - day <= RolloverDays
<1>1. CASE Expired(day)
  BY <1>1, CalendarTypes DEF Expired, None
<1>2. CASE Keep(day)
  <2>1. /\ Verdict(day) \in Expiries /\ Verdict(day) - day > RolloverDays
        /\ \A e \in Expiries : e >= day => Verdict(day) <= e
    BY <1>2 DEF Keep, CurrentIs
  <2>. QED
    BY <2>1, CalendarTypes
<1>3. CASE \E k \in Expiries : Last(day, k)
  <2>1. Verdict(day) = None
    BY <1>3 DEF Last
  <2>. QED
    BY <2>1, CalendarTypes DEF None
<1>4. ASSUME NEW k \in Expiries, Roll(day, k)
      PROVE  /\ Verdict(day) \in Expiries
             /\ Verdict(day) > day + RolloverDays
             /\ \A e \in Expiries :
                   (e < Verdict(day) /\ e >= day) => e - day <= RolloverDays
  <2>1. /\ Verdict(day) \in Expiries /\ Verdict(day) > k /\ k >= day
        /\ \A e \in Expiries : e > k => Verdict(day) <= e
        /\ k - day <= RolloverDays
    BY <1>4 DEF Roll, CurrentIs, NextIs
  <2>2. /\ Verdict(day) \in Nat /\ k \in Nat
        /\ Verdict(day) - k > RolloverDays
    BY <2>1, CalendarTypes
  <2>3. Verdict(day) > day + RolloverDays
    BY <2>1, <2>2, CalendarTypes
  <2>4. ASSUME NEW e \in Expiries, e < Verdict(day), e >= day
        PROVE  e - day <= RolloverDays
    <3>1. e \in Nat /\ e <= k
      BY <2>1, <2>2, <2>4, CalendarTypes
    <3>. QED
      BY <2>1, <2>2, <3>1, CalendarTypes
  <2>. QED
    BY <2>1, <2>3, <2>4
<1>. QED
  BY <1>1, <1>2, <1>3, <1>4, VerdictFacts

-----------------------------------------------------------------------------
(* The caller holds what its last check told it, and that check is at most *)
(* a window and a day old.                                                 *)
LastCheckFollowed ==
    /\ today \in Nat /\ checked \in Nat
    /\ checked <= today /\ today <= checked + RolloverDays + 1
    /\ holding = Verdict(checked)

LEMMA CallerFollows == RolloverSpec => []LastCheckFollowed
<1>. RolloverDays \in Nat
  BY RolloverAssumption
<1>1. RolloverInit => LastCheckFollowed
  BY DEF RolloverInit, LastCheckFollowed
<1>2. LastCheckFollowed /\ [RolloverNext]_rollover_vars => LastCheckFollowed'
  <2>. SUFFICES ASSUME LastCheckFollowed, [RolloverNext]_rollover_vars
                PROVE  LastCheckFollowed'
    OBVIOUS
  <2>1. CASE Check
    BY <2>1 DEF LastCheckFollowed, Check
  <2>2. CASE NextDay
    BY <2>2 DEF LastCheckFollowed, NextDay
  <2>3. CASE UNCHANGED rollover_vars
    BY <2>3 DEF LastCheckFollowed, rollover_vars
  <2>. QED
    BY <2>1, <2>2, <2>3 DEF RolloverNext
<1>. QED
  BY <1>1, <1>2, PTL DEF RolloverSpec

(* A later check, made while the contract held has not expired, either     *)
(* leaves it, moves on to a later one, or finds that it is the last one.   *)
LEMMA LaterVerdict ==
    ASSUME NEW c \in Nat, NEW t \in Nat, c < t,
           t <= c + RolloverDays + 1,
           Verdict(t) # Verdict(c)
    PROVE  \/ Verdict(t) > Verdict(c) /\ Verdict(c) # None
           \/ Verdict(t) = None /\ \A e \in Expiries : e <= Verdict(c)
<1>1. CASE Verdict(c) = None
  <2>1. Verdict(t) \in Expiries /\ Verdict(t) > t + RolloverDays
    BY <1>1, VerdictLasts
  <2>2. Expired(c) \/ \E k \in Expiries : Last(c, k)
    BY <1>1, VerdictFacts, CalendarTypes DEF Keep, Roll, CurrentIs, NextIs, None
  <2>3. PICK k \in Expiries : Last(c, k)
    BY <2>1, <2>2, CalendarTypes DEF Expired
  <2>4. Verdict(t) <= k /\ k <= c + RolloverDays /\ k \in Nat /\ Verdict(t) \in Nat
    BY <2>1, <2>3, CalendarTypes DEF Last
  <2>. QED
    BY <2>1, <2>4, CalendarTypes
<1>2. CASE Verdict(c) # None
  <2>. DEFINE h == Verdict(c)
              m == Verdict(t)
  <2>1. /\ h \in Expiries /\ h \in Nat /\ h >= t
        /\ \A e \in Expiries : (e < h /\ e >= c) => e - c <= RolloverDays
    <3>1. h \in Expiries /\ h > c + RolloverDays
      BY <1>2, VerdictLasts
    <3>. QED
      BY <3>1, VerdictLasts, CalendarTypes
  <2>2. CASE m = None
    <3>1. ~ Expired(t)
      BY <2>1, CalendarTypes DEF Expired
    <3>2. PICK k \in Expiries : Last(t, k)
      BY <2>2, <3>1, VerdictFacts, CalendarTypes DEF Keep, Roll, CurrentIs, NextIs, None
    <3>3. k <= h /\ (\A e \in Expiries : e <= k) /\ k \in Nat
      BY <2>1, <3>2, CalendarTypes DEF Last, CurrentIs
    <3>4. k = h
      BY <2>1, <3>3
    <3>. QED
      BY <2>2, <3>3, <3>4
  <2>3. CASE m # None
    <3>1. m \in Expiries /\ m \in Nat /\ m > t + RolloverDays
      BY <2>3, VerdictLasts, CalendarTypes
    <3>2. ~ (m < h)
      BY <2>1, <3>1, CalendarTypes
    <3>. QED
      BY <1>2, <2>1, <3>1, <3>2
  <2>. QED
    BY <2>2, <2>3
<1>. QED
  BY <1>1, <1>2

(* A caller away for no longer than the window never holds an expired      *)
(* contract, whatever the calendar (check_rollover).                       *)
THEOREM NeverExpired == RolloverSpec => []NeverHoldsExpired
<1>1. LastCheckFollowed => NeverHoldsExpired
  <2>. SUFFICES ASSUME LastCheckFollowed, holding # None
                PROVE  holding >= today
    BY DEF NeverHoldsExpired
  <2>1. holding \in Expiries /\ holding > checked + RolloverDays
    BY VerdictLasts DEF LastCheckFollowed
  <2>. QED
    BY <2>1, CalendarTypes DEF LastCheckFollowed
<1>. QED
  BY <1>1, CallerFollows, PTL

(* No contract outside the window at the last check is passed over         *)
(* (get_next_contract).                                                    *)
THEOREM NoneSkipped == RolloverSpec => []NoContractSkipped
<1>1. LastCheckFollowed => NoContractSkipped
  BY VerdictLasts DEF LastCheckFollowed, NoContractSkipped
<1>. QED
  BY <1>1, CallerFollows, PTL

(* Rollovers go forward, and to no contract only from the last one.        *)
THEOREM Forward == RolloverSpec => RollsForward
<1>. DEFINE A == holding' # holding =>
                    \/ holding' > holding /\ holding # None
                    \/ holding' = None /\ \A e \in Expiries : e <= holding
<1>1. LastCheckFollowed /\ [RolloverNext]_rollover_vars => [A]_rollover_vars
  <2>. SUFFICES ASSUME LastCheckFollowed, [RolloverNext]_rollover_vars, holding' # holding
                PROVE  A
    OBVIOUS
  <2>1. CASE Check
    <3>1. /\ checked \in Nat /\ today \in Nat /\ checked < today
          /\ today <= checked + RolloverDays + 1
          /\ holding = Verdict(checked) /\ holding' = Verdict(today)
      BY <2>1, CalendarTypes DEF LastCheckFollowed, Check
    <3>2. \/ Verdict(today) > Verdict(checked) /\ Verdict(checked) # None
          \/ Verdict(today) = None /\ \A e \in Expiries : e <= Verdict(checked)
      BY <3>1, LaterVerdict
    <3>. QED
      BY <3>1, <3>2
  <2>2. CASE NextDay
    BY <2>2 DEF NextDay
  <2>3. CASE UNCHANGED rollover_vars
    BY <2>3 DEF rollover_vars
  <2>. QED
    BY <2>1, <2>2, <2>3 DEF RolloverNext
<1>. HIDE DEF A
<1>2. RolloverSpec => [][A]_rollover_vars
  BY <1>1, CallerFollows, PTL DEF RolloverSpec
<1>. QED
  BY <1>2, PTL DEF RollsForward, A

-----------------------------------------------------------------------------
(* Calls under the limiter.                                                *)
(* Nobody was let through after the last request the limiter knows of, and *)
(* a sleeper wakes no sooner than an interval after its own last request:  *)
(* whoever is let through while it sleeps can only have come later.        *)
LastIsLatest ==
    /\ last <= now
    /\ \A c \in Callers : granted[c] <= last

SleepersWait ==
    \A c \in Callers :
        wakes[c] # Never /\ granted[c] # Never => wakes[c] >= granted[c] + MinInterval

IInv == TypeOK /\ EachCallerLimited /\ LastIsLatest /\ SleepersWait

USE MinIntervalAssumption DEF Never

LEMMA GrantKeeps ==
    ASSUME IInv, NEW c \in Callers, Grant(c), now' = now,
           granted[c] # Never => now - granted[c] >= MinInterval,
           wakes'[c] = Never,
           \A d \in Callers \ {c} : wakes'[d] = wakes[d],
           wakes' \in [Callers -> Nat \union {Never}]
    PROVE  IInv'
<1>1. now \in Nat /\ last \in Int /\ last <= now /\ granted[c] <= last
  BY DEF IInv, TypeOK, LastIsLatest
<1>2. Later(granted[c]) \in Nat /\ Later(granted[c]) >= MinInterval
  BY DEF Later, IInv, TypeOK
<1>3. Later(last) \in Nat
  BY <1>1 DEF Later
<1>4. TypeOK'
  BY <1>2, <1>3 DEF Grant, Smaller, IInv, TypeOK
<1>5. EachCallerLimited'
  BY <1>2 DEF Grant, Smaller, IInv, TypeOK, EachCallerLimited
<1>6. LastIsLatest'
  <2>1. \A d \in Callers : granted[d] \in Int /\ granted[d] <= now
    BY DEF IInv, TypeOK, LastIsLatest
  <2>. QED
    BY <1>1, <2>1 DEF Grant, LastIsLatest, IInv, TypeOK
<1>7. SleepersWait'
  BY DEF Grant, SleepersWait, IInv, TypeOK
<1>. QED
  BY <1>4, <1>5, <1>6, <1>7 DEF IInv

LEMMA Inductive == IInv /\ [Next]_vars => IInv'
<1>. SUFFICES ASSUME IInv, [Next]_vars
              PROVE  IInv'
  OBVIOUS
<1>1. ASSUME NEW c \in Callers, Acquire(c)
      PROVE  IInv'
  <2>1. granted[c] # Never => now - granted[c] >= MinInterval
    BY <1>1 DEF Acquire, Allowed, IInv, TypeOK, LastIsLatest
  <2>2. /\ Grant(c) /\ now' = now /\ wakes' = wakes /\ wakes[c] = Never
    BY <1>1 DEF Acquire
  <2>3. wakes' \in [Callers -> Nat \union {Never}]
    BY <2>2 DEF IInv, TypeOK
  <2>. QED
    BY <2>1, <2>2, <2>3, GrantKeeps
<1>2. ASSUME NEW c \in Callers, Sleep(c)
      PROVE  IInv'
  <2>1. /\ now \in Nat /\ last \in Nat /\ now - last < MinInterval
        /\ granted[c] \in Int /\ granted[c] <= last
    BY <1>2 DEF Sleep, Allowed, IInv, TypeOK, LastIsLatest
  <2>2. now + Remaining = last + MinInterval
    BY <2>1 DEF Remaining
  <2>3. TypeOK'
    BY <1>2, <2>1, <2>2 DEF Sleep, IInv, TypeOK
  <2>4. SleepersWait'
    BY <1>2, <2>1, <2>2 DEF Sleep, IInv, TypeOK, SleepersWait
  <2>. QED
    BY <1>2, <2>3, <2>4 DEF Sleep, IInv, EachCallerLimited, LastIsLatest
<1>3. ASSUME NEW c \in Callers, Wake(c)
      PROVE  IInv'
  <2>1. granted[c] # Never => now - granted[c] >= MinInterval
    BY <1>3 DEF Wake, IInv, TypeOK, SleepersWait
  <2>2. /\ Grant(c) /\ now' = now
        /\ wakes' = [wakes EXCEPT ![c] = Never]
    BY <1>3 DEF Wake
  <2>3. /\ wakes'[c] = Never
        /\ \A d \in Callers \ {c} : wakes'[d] = wakes[d]
        /\ wakes' \in [Callers -> Nat \union {Never}]
    BY <2>2 DEF IInv, TypeOK
  <2>. QED
    BY <2>1, <2>2, <2>3, GrantKeeps
<1>4. CASE Tick
  BY <1>4 DEF Tick, IInv, TypeOK, EachCallerLimited, LastIsLatest, SleepersWait
<1>5. CASE Reset
  BY <1>5 DEF Reset, IInv, TypeOK, EachCallerLimited, LastIsLatest, SleepersWait
<1>6. CASE UNCHANGED vars
  BY <1>6 DEF vars, IInv, TypeOK, EachCallerLimited, LastIsLatest, SleepersWait
<1>. QED
  BY <1>1, <1>2, <1>3, <1>4, <1>5, <1>6 DEF Next

LEMMA Initially == Init => IInv
  BY DEF Init, IInv, TypeOK, EachCallerLimited, LastIsLatest, SleepersWait

(* For every number of tasks and every interval: two requests of one task  *)
(* are never closer than the interval, although acquire does not look      *)
(* again after its sleep.                                                  *)
THEOREM EachCallerKeepsToTheRate == Spec => []EachCallerLimited
<1>1. IInv => EachCallerLimited
  BY DEF IInv
<1>. QED
  BY <1>1, Initially, Inductive, PTL DEF Spec

-----------------------------------------------------------------------------
(* The calls use the limiter as its specification allows.                  *)
LEMMA LimiterStep == [CallsNext]_<<vars, calls>> => [Next]_vars
<1>. SUFFICES ASSUME [CallsNext]_<<vars, calls>>
              PROVE  [Next]_vars
  OBVIOUS
<1>1. ASSUME NEW c \in Callers,
             SendNow(c) \/ SendLater(c) \/ Refused(c) \/ RefreshFails(c) \/ SendAfterSleep(c)
      PROVE  [Next]_vars
  <2>1. CASE SendNow(c)
    BY <2>1 DEF SendNow, Next
  <2>2. CASE SendLater(c)
    BY <2>2 DEF SendLater, Next
  <2>3. CASE Refused(c)
    BY <2>3 DEF Refused
  <2>4. CASE RefreshFails(c)
    BY <2>4 DEF RefreshFails
  <2>5. CASE SendAfterSleep(c)
    BY <2>5 DEF SendAfterSleep, Next
  <2>. QED
    BY <1>1, <2>1, <2>2, <2>3, <2>4, <2>5
<1>2. CASE ExpireToken
  BY <1>2 DEF ExpireToken
<1>3. CASE Tick \/ Reset
  BY <1>3 DEF Next
<1>4. CASE UNCHANGED <<vars, calls>>
  BY <1>4
<1>. QED
  BY <1>1, <1>2, <1>3, <1>4 DEF CallsNext

(* Under retries, refreshes and refusals, for any number of calls: each    *)
(* caller keeps to the rate.                                               *)
THEOREM CallersKeepToTheRate == CallsSpec => []EachCallerLimited
<1>1. CallsInit => Init
  BY DEF CallsInit
<1>2. IInv => EachCallerLimited
  BY DEF IInv
<1>. QED
  BY <1>1, <1>2, Initially, Inductive, LimiterStep, PTL DEF CallsSpec

-----------------------------------------------------------------------------
(* A call in progress has the fields the loop reads, counts are numbers,   *)
(* and only a call in progress sleeps in the limiter.                      *)
CallShape ==
    /\ DOMAIN call = Callers
    /\ \A c \in Callers : {"block", "attempt", "at", "first", "end"} = DOMAIN call[c]
    /\ orders \in [Callers -> Nat]
    /\ lost \in [Callers -> Nat]

SleepersCall == \A c \in Callers : wakes[c] # Never => call[c].end = Trying

CInv == CallShape /\ SleepersCall /\ OrdersAccountedFor

(* One caller's call moves, and the accounts of the others stay.           *)
MoveOf(c, record) ==
    /\ call' = [call EXCEPT ![c] = record]
    /\ DOMAIN record = {"block", "attempt", "at", "first", "end"}

LEMMA FailMoves ==
    ASSUME CallShape, NEW c \in Callers, NEW e, Fail(c, e), call[c].end = Trying
    PROVE  \E record : /\ MoveOf(c, record)
                       /\ record.end # "returned"
<1>1. CASE IsRetryable(e) /\ call[c].attempt < MaxAttempts - 1
  <2>1. DOMAIN Again(c) = DOMAIN call[c] /\ Again(c).end = call[c].end
    BY DEF CallShape, Again
  <2>2. call' = [call EXCEPT ![c] = Again(c)]
    BY <1>1 DEF Fail
  <2>. QED
    BY <2>1, <2>2 DEF MoveOf, CallShape, Trying
<1>2. CASE ~(IsRetryable(e) /\ call[c].attempt < MaxAttempts - 1)
  <2>. DEFINE r == Ended(IF e.type = "RateLimitError" THEN "rate limited" ELSE "raised")
  <2>1. DOMAIN r = {"block", "attempt", "at", "first", "end"} /\ r.end # "returned"
    BY DEF Ended
  <2>2. call' = [call EXCEPT ![c] = r]
    BY <1>2 DEF Fail, CallShape
  <2>3. MoveOf(c, r) /\ r.end # "returned"
    BY <2>1, <2>2 DEF MoveOf
  <2>. HIDE DEF r
  <2>. QED
    BY <2>3
<1>. QED
  BY <1>1, <1>2

(* An attempt that fails: nothing placed, or one order and a lost answer.  *)
LEMMA FailKeeps ==
    ASSUME CInv, NEW c \in Callers, NEW e, Fail(c, e), call[c].end = Trying,
           wakes'[c] = Never, \A d \in Callers \ {c} : wakes'[d] = wakes[d],
           \/ UNCHANGED <<orders, lost>>
           \/ /\ orders' = [orders EXCEPT ![c] = @ + 1]
              /\ lost' = [lost EXCEPT ![c] = @ + 1]
    PROVE  CInv'
<1>1. PICK record : MoveOf(c, record) /\ record.end # "returned"
  BY FailMoves DEF CInv
<1>2. /\ call'[c] = record
      /\ \A d \in Callers \ {c} : call'[d] = call[d]
      /\ DOMAIN call' = Callers
  BY <1>1 DEF MoveOf, CInv, CallShape
<1>3. CallShape'
  BY <1>1, <1>2 DEF MoveOf, CInv, CallShape
<1>4. SleepersCall'
  BY <1>2 DEF CInv, SleepersCall
<1>5. OrdersAccountedFor'
  BY <1>1, <1>2 DEF CInv, CallShape, OrdersAccountedFor, Trying
<1>. QED
  BY <1>3, <1>4, <1>5 DEF CInv

LEMMA ReturnKeeps ==
    ASSUME CInv, NEW c \in Callers, Return(c), call[c].end = Trying,
           wakes'[c] = Never, \A d \in Callers \ {c} : wakes'[d] = wakes[d],
           orders' = [orders EXCEPT ![c] = @ + 1], lost' = lost
    PROVE  CInv'
<1>1. /\ call'[c] = Ended("returned")
      /\ \A d \in Callers \ {c} : call'[d] = call[d]
      /\ DOMAIN call' = Callers
  BY DEF Return, CInv, CallShape
<1>2. CallShape'
  BY <1>1 DEF CInv, CallShape, Ended
<1>3. SleepersCall'
  BY <1>1 DEF CInv, SleepersCall
<1>4. OrdersAccountedFor'
  BY <1>1 DEF CInv, CallShape, OrdersAccountedFor, Ended, Trying
<1>. QED
  BY <1>2, <1>3, <1>4 DEF CInv

LEMMA PlaceOrderKeeps ==
    ASSUME CInv, NEW c \in Callers, PlaceOrder(c), call[c].end = Trying,
           wakes'[c] = Never, \A d \in Callers \ {c} : wakes'[d] = wakes[d]
    PROVE  CInv'
<1>1. CASE orders' = [orders EXCEPT ![c] = @ + 1] /\ Return(c) /\ UNCHANGED lost
  BY <1>1, ReturnKeeps
<1>2. CASE orders' = [orders EXCEPT ![c] = @ + 1] /\ Fail(c, Timeout) /\ lost' = [lost EXCEPT ![c] = @ + 1]
  BY <1>2, FailKeeps
<1>3. ASSUME NEW e, Fail(c, e), UNCHANGED <<orders, lost>>
      PROVE  CInv'
  BY <1>3, FailKeeps
<1>. QED
  BY <1>1, <1>2, <1>3 DEF PlaceOrder

LEMMA AccountsInductive == TypeOK /\ CInv /\ [CallsNext]_<<vars, calls>> => CInv'
<1>. SUFFICES ASSUME TypeOK, CInv, [CallsNext]_<<vars, calls>>
              PROVE  CInv'
  OBVIOUS
<1>1. ASSUME NEW c \in Callers, SendNow(c)
      PROVE  CInv'
  <2>1. wakes' = wakes /\ wakes[c] = Never /\ call[c].end = Trying /\ PlaceOrder(c)
    BY <1>1 DEF SendNow, Acquire, Ready
  <2>. QED
    BY <2>1, PlaceOrderKeeps
<1>2. ASSUME NEW c \in Callers, SendLater(c)
      PROVE  CInv'
  <2>1. /\ call[c].end = Trying
        /\ call' = [call EXCEPT ![c].first = First(c)]
        /\ wakes' = [wakes EXCEPT ![c] = now + Remaining]
        /\ UNCHANGED <<orders, lost>>
    BY <1>2 DEF SendLater, Ready, Sleep
  <2>2. /\ \A d \in Callers : call'[d].end = call[d].end /\ DOMAIN call'[d] = DOMAIN call[d]
        /\ DOMAIN call' = Callers
    BY <2>1 DEF CInv, CallShape
  <2>3. \A d \in Callers \ {c} : wakes'[d] = wakes[d]
    BY <2>1 DEF TypeOK
  <2>4. CallShape'
    BY <2>1, <2>2 DEF CInv, CallShape
  <2>5. SleepersCall'
    BY <2>1, <2>2, <2>3 DEF CInv, SleepersCall
  <2>6. OrdersAccountedFor'
    BY <2>1, <2>2 DEF CInv, OrdersAccountedFor
  <2>. QED
    BY <2>4, <2>5, <2>6 DEF CInv
<1>3. ASSUME NEW c \in Callers, Refused(c)
      PROVE  CInv'
  <2>1. /\ call[c].end = Trying /\ wakes[c] = Never /\ wakes' = wakes
        /\ Fail(c, RateLimit) /\ UNCHANGED <<orders, lost>>
    BY <1>3 DEF Refused, Ready, vars
  <2>. QED
    BY <2>1, FailKeeps
<1>4. ASSUME NEW c \in Callers, RefreshFails(c)
      PROVE  CInv'
  <2>1. /\ call[c].end = Trying /\ wakes[c] = Never /\ wakes' = wakes
        /\ Fail(c, Unauthorized) /\ UNCHANGED <<orders, lost>>
    BY <1>4 DEF RefreshFails, Ready, vars
  <2>. QED
    BY <2>1, FailKeeps
<1>5. ASSUME NEW c \in Callers, SendAfterSleep(c)
      PROVE  CInv'
  <2>1. wakes[c] # Never /\ PlaceOrder(c) /\ wakes' = [wakes EXCEPT ![c] = Never]
    BY <1>5 DEF SendAfterSleep, Wake
  <2>2. call[c].end = Trying
    BY <2>1 DEF CInv, SleepersCall
  <2>3. wakes'[c] = Never /\ \A d \in Callers \ {c} : wakes'[d] = wakes[d]
    BY <2>1 DEF TypeOK
  <2>. QED
    BY <2>1, <2>2, <2>3, PlaceOrderKeeps
<1>6. CASE \/ ExpireToken \/ UNCHANGED <<vars, calls>>
           \/ (Tick \/ Reset) /\ UNCHANGED calls
  <2>1. UNCHANGED <<wakes, call, orders, lost>>
    BY <1>6 DEF ExpireToken, Tick, Reset, vars, calls
  <2>. QED
    BY <2>1 DEF CInv, CallShape, SleepersCall, OrdersAccountedFor
<1>. QED
  BY <1>1, <1>2, <1>3, <1>4, <1>5, <1>6 DEF CallsNext

LEMMA AccountsInitially == CallsInit => CInv
  BY DEF CallsInit, Init, CInv, CallShape, SleepersCall, OrdersAccountedFor, Trying

(* For any number of calls and attempts, any answers and any tokens: a     *)
(* call has placed one order for each lost answer, and one it returned.    *)
THEOREM EveryOrderAccountedFor == CallsSpec => []OrdersAccountedFor
<1>1. CallsInit => Init
  BY DEF CallsInit
<1>2. IInv => TypeOK
  BY DEF IInv
<1>3. CInv => OrdersAccountedFor
  BY DEF CInv
<1>. QED
  BY <1>1, <1>2, <1>3, Initially, Inductive, LimiterStep, AccountsInitially, AccountsInductive, PTL
     DEF CallsSpec

-----------------------------------------------------------------------------
(* The token provider counts what it handed out, and expires a token       *)
(* exactly at its limit unless it was told to.                             *)
TokenCounts ==
    /\ token \in [calls : Nat, expired : BOOLEAN, refreshed : BOOLEAN, handed : Nat, forced : BOOLEAN]
    /\ token.handed = token.calls + (IF token.refreshed THEN 1 ELSE 0)
    /\ ~token.expired => ~token.forced /\ (ExpireAfter # 0 => token.calls < ExpireAfter)
    /\ token.expired /\ ~token.forced => ExpireAfter # 0 /\ token.calls = ExpireAfter

(* Every step takes a token, makes it expire or leaves it alone.           *)
LEMMA TokenSteps ==
    ASSUME [CallsNext]_<<vars, calls>>
    PROVE  \/ TakeToken
           \/ ~token.expired /\ token' = [token EXCEPT !.expired = TRUE, !.forced = TRUE]
           \/ UNCHANGED token
<1>1. ASSUME NEW c \in Callers,
             SendNow(c) \/ SendLater(c) \/ Refused(c) \/ RefreshFails(c) \/ SendAfterSleep(c)
      PROVE  TakeToken \/ UNCHANGED token
  BY <1>1 DEF SendNow, SendLater, Refused, RefreshFails, SendAfterSleep
<1>2. CASE ExpireToken
  BY <1>2 DEF ExpireToken
<1>3. CASE UNCHANGED calls
  BY <1>3 DEF calls
<1>. QED
  BY <1>1, <1>2, <1>3 DEF CallsNext

LEMMA TokenInductive == TokenCounts /\ [CallsNext]_<<vars, calls>> => TokenCounts'
<1>. SUFFICES ASSUME TokenCounts, [CallsNext]_<<vars, calls>>
              PROVE  TokenCounts'
  OBVIOUS
<1>1. CASE TakeToken /\ token.expired
  <2>1. token' = Refreshed
    BY <1>1 DEF TakeToken
  <2>. QED
    BY <2>1, ExpireAfterAssumption DEF Refreshed, TokenCounts
<1>2. CASE TakeToken /\ ~token.expired
  <2>1. token' = HandedOut
    BY <1>2 DEF TakeToken
  <2>. QED
    <3>1. token.calls \in Nat /\ token.handed \in Nat
          /\ token = [calls |-> token.calls, expired |-> token.expired, refreshed |-> token.refreshed,
                      handed |-> token.handed, forced |-> token.forced]
      BY DEF TokenCounts
    <3>2. token' = [calls |-> token.calls + 1,
                    expired |-> ExpireAfter # 0 /\ token.calls + 1 >= ExpireAfter,
                    refreshed |-> token.refreshed, handed |-> token.handed + 1,
                    forced |-> token.forced]
      BY <2>1, <3>1, Zenon DEF HandedOut
    <3>3. /\ token'.calls = token.calls + 1 /\ token'.handed = token.handed + 1
          /\ token'.refreshed = token.refreshed /\ token'.forced = token.forced
          /\ token'.expired = (ExpireAfter # 0 /\ token.calls + 1 >= ExpireAfter)
      BY <3>2, Zenon
    <3>4. token' \in [calls : Nat, expired : BOOLEAN, refreshed : BOOLEAN, handed : Nat, forced : BOOLEAN]
      BY <3>1, <3>2 DEF TokenCounts
    <3>. QED
      BY <1>2, <3>1, <3>3, <3>4, ExpireAfterAssumption DEF TokenCounts
<1>3. CASE token' = [token EXCEPT !.expired = TRUE, !.forced = TRUE]
  BY <1>3 DEF TokenCounts
<1>4. CASE UNCHANGED token
  BY <1>4 DEF TokenCounts
<1>. QED
  BY <1>1, <1>2, <1>3, <1>4, TokenSteps

(* For any number of callers and any expire_after_calls: a token that was  *)
(* not told to expire is replaced when it is used up, and only then.       *)
THEOREM TokensUsedUp == CallsSpec => TokenLifetime
<1>1. CallsInit => TokenCounts
  BY ExpireAfterAssumption DEF CallsInit, TokenCounts
<1>2. TokenCounts =>
        [token.expired /\ ~token'.expired =>
            \/ token.forced
            \/ token.handed = ExpireAfter + (IF token.refreshed THEN 1 ELSE 0)]_token
  BY DEF TokenCounts
<1>. QED
  BY <1>1, <1>2, TokenInductive, PTL DEF CallsSpec, TokenLifetime
=============================================================================
