---------------------------- MODULE RateLimiter ----------------------------
(***************************************************************************)
(* src/broker/rate_limit.py: callers ask acquire() for permission to send  *)
(* a request, and one that comes too early sleeps for the rest of the      *)
(* interval.  Several callers are the tasks of AsyncRateLimiter, which     *)
(* interleave at its await; RateLimiter, whose sleep lets nobody else run, *)
(* is the same code with one caller.  The clock does not go back.          *)
(***************************************************************************)
EXTENDS Quantities

CONSTANTS Callers,      \* tasks that share the limiter
          MinInterval,  \* config.min_interval
          MaxTime       \* bound: time explored

ASSUME MinIntervalAssumption == MinInterval \in Nat \ {0}
ASSUME MaxTimeAssumption == MaxTime \in Nat

Never == -1     \* _last_request_time is None

VARIABLES now,      \* time_func()
          last,     \* _last_request_time
          wakes,    \* when a caller asleep in acquire wakes; Never if none is
          granted,  \* history: when a caller was last let through
          gap,      \* history: the shortest time between two of its grants
          any_gap   \* history: the shortest time between two grants of any callers

vars == <<now, last, wakes, granted, gap, any_gap>>

Init ==
    /\ now = 0
    /\ last = Never
    /\ wakes = [c \in Callers |-> Never]
    /\ granted = [c \in Callers |-> Never]
    /\ gap = [c \in Callers |-> MinInterval]
    /\ any_gap = MinInterval

Later(time) == IF time = Never THEN MinInterval ELSE now - time

(* c is let through.                                                       *)
Grant(c) ==
    /\ last' = now
    /\ granted' = [granted EXCEPT ![c] = now]
    /\ gap' = [gap EXCEPT ![c] = Smaller(@, Later(granted[c]))]
    /\ any_gap' = Smaller(any_gap, Later(last))

(* The first request, or one that comes late enough.                       *)
Allowed == last = Never \/ now - last >= MinInterval

Acquire(c) ==
    /\ wakes[c] = Never
    /\ Allowed
    /\ Grant(c)
    /\ UNCHANGED <<now, wakes>>

(* Mutant: the sleep is computed from now, not from the last request.      *)
Remaining_Elapsed == now - last

Remaining == MinInterval - (now - last)

(* Too early, block=True: what is left of the interval is slept.  With     *)
(* block=False the caller gets RateLimitError and nothing changes.         *)
Sleep(c) ==
    /\ wakes[c] = Never
    /\ ~Allowed
    /\ wakes' = [wakes EXCEPT ![c] = now + Remaining]
    /\ UNCHANGED <<now, last, granted, gap, any_gap>>

(* The sleep is over, perhaps late; the limiter does not look again at     *)
(* what was granted meanwhile.                                             *)
Wake(c) ==
    /\ wakes[c] # Never
    /\ now >= wakes[c]
    /\ wakes' = [wakes EXCEPT ![c] = Never]
    /\ Grant(c)
    /\ UNCHANGED now

Tick ==
    /\ now < MaxTime
    /\ now' = now + 1
    /\ UNCHANGED <<last, wakes, granted, gap, any_gap>>

(* reset(): gaps are counted from here on.                                 *)
Reset ==
    /\ last # Never
    /\ last' = Never
    /\ granted' = [c \in Callers |-> Never]
    /\ UNCHANGED <<now, wakes, gap, any_gap>>

Next ==
    \/ \E c \in Callers : Acquire(c) \/ Sleep(c) \/ Wake(c)
    \/ Tick
    \/ Reset

Spec == Init /\ [][Next]_vars

-----------------------------------------------------------------------------
TypeOK ==
    /\ now \in Nat
    /\ last \in Nat \union {Never}
    /\ wakes \in [Callers -> Nat \union {Never}]
    /\ granted \in [Callers -> Nat \union {Never}]
    /\ gap \in [Callers -> Nat]
    /\ any_gap \in Nat

(* Each caller taken alone keeps to the rate, whatever the others did      *)
(* while it slept: two of its requests are never closer than the interval. *)
EachCallerLimited == \A c \in Callers : gap[c] >= MinInterval

(* The limiter keeps to the rate: two requests let through in succession   *)
(* are never closer than the interval ("Limits requests to a maximum       *)
(* rate").  A sleeper does not look again when it wakes, at whoever else   *)
(* was let through meanwhile (rate_limit.py:141-142).                      *)
RateLimited == any_gap >= MinInterval
=============================================================================
