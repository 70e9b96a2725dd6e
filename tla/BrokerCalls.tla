---------------------------- MODULE BrokerCalls ----------------------------
(***************************************************************************)
(* An order sent to a Kite client under retry_async (src/broker/retry.py): *)
(* every attempt takes a token (auth.py), passes the shared rate limiter   *)
(* (rate_limit.py) and places the order (kite_client.py).  The repository  *)
(* has these pieces and leaves it to the user to combine them; the         *)
(* combination, and a client that may lose an answer after it has placed   *)
(* the order, are external.  Each caller makes one call.                   *)
(***************************************************************************)
EXTENDS RateLimiter

CONSTANTS MaxAttempts,  \* RetryConfig.max_attempts
          BaseDelay,    \* RetryConfig.base_delay
          MaxDelay,     \* RetryConfig.max_delay
          ExpireAfter   \* expire_after_calls of the token provider, 0 for None

ASSUME MaxAttemptsAssumption == MaxAttempts \in Nat \ {0}
ASSUME DelaysAssumption == BaseDelay \in Nat /\ MaxDelay \in Nat
ASSUME ExpireAfterAssumption == ExpireAfter \in Nat

(* Mutant: the delays do not grow.                                         *)
Delay_Constant(attempt) ==
    IF attempt = 0 THEN 0 ELSE IF BaseDelay < MaxDelay THEN BaseDelay ELSE MaxDelay

(* calculate_delay with exponential_base 2.  The loop calls it with the    *)
(* attempt that failed, so the first retry follows at once.                *)
Delay(attempt) ==
    IF attempt = 0 THEN 0
    ELSE LET delay == BaseDelay * 2 ^ (attempt - 1)
         IN  IF delay < MaxDelay THEN delay ELSE MaxDelay

(* An exception is its type and what its text mentions.                    *)
Error(type) == [type |-> type, says |-> "nothing"]

Timeout == Error("BrokerTimeout")
RateLimit == [type |-> "RateLimitError", says |-> "rate limit"]
Unauthorized == [type |-> "AuthenticationError", says |-> "auth"]
Rejected == {Error("BrokerRejected"), [type |-> "BrokerRejected", says |-> "rate limit"]}

(* Text counts before type: a rejection that mentions a rate limit is      *)
(* retried.                                                                *)
IsRetryable(e) ==
    \/ e.type \in {"BrokerTimeout", "BrokerDisconnected", "RateLimitError"}
    \/ e.says = "rate limit"

-----------------------------------------------------------------------------
VARIABLES call,     \* each caller's retry loop
          token,    \* the token provider
          orders,   \* the orders the client has placed for each caller
          lost      \* history: those whose answer was lost

calls == <<call, token, orders, lost>>

Trying == "trying"

CallsInit ==
    /\ Init
    /\ call \in [Callers -> [block : BOOLEAN, attempt : {0}, at : {0}, first : {Never}, end : {Trying}]]
    /\ token = [calls |-> 0, expired |-> FALSE, refreshed |-> FALSE, handed |-> 0, forced |-> FALSE]
    /\ orders = [c \in Callers |-> 0]
    /\ lost = [c \in Callers |-> 0]

(* Mutant: the token expires one call late.                                *)
HandedOut_Late ==
    [token EXCEPT !.calls = @ + 1, !.handed = @ + 1,
                  !.expired = ExpireAfter # 0 /\ token.calls + 1 > ExpireAfter]

(* get_token: the call that uses the token up is still given it.           *)
HandedOut ==
    [token EXCEPT !.calls = @ + 1, !.handed = @ + 1,
                  !.expired = ExpireAfter # 0 /\ token.calls + 1 >= ExpireAfter]

Refreshed ==
    [calls |-> 0, expired |-> FALSE, refreshed |-> TRUE, handed |-> 1, forced |-> FALSE]

(* get_token_with_refresh, when it returns a token.                        *)
TakeToken == token' = IF token.expired THEN Refreshed ELSE HandedOut

(* expire_token()                                                          *)
ExpireToken ==
    /\ ~token.expired
    /\ token' = [token EXCEPT !.expired = TRUE, !.forced = TRUE]
    /\ UNCHANGED <<vars, call, orders, lost>>

-----------------------------------------------------------------------------
First(c) == IF call[c].first = Never THEN now ELSE call[c].first

Ended(how) == [block |-> FALSE, attempt |-> 0, at |-> 0, first |-> Never, end |-> how]

Again(c) ==
    [call[c] EXCEPT !.first = First(c), !.attempt = @ + 1, !.at = now + Delay(call[c].attempt)]

(* The loop after an exception: sleep and try again, or raise it.          *)
Fail(c, e) ==
    call' = [call EXCEPT ![c] =
        IF IsRetryable(e) /\ call[c].attempt < MaxAttempts - 1 THEN Again(c)
        ELSE Ended(IF e.type = "RateLimitError" THEN "rate limited" ELSE "raised")]

(* Mutant: the loop does not return, it tries again.                       *)
Return_GoesOn(c) == Fail(c, Timeout)

Return(c) == call' = [call EXCEPT ![c] = Ended("returned")]

(* The client, once the limiter has let the request through: an order, an  *)
(* order whose answer does not arrive, or an error and no order.           *)
PlaceOrder(c) ==
    \/ /\ orders' = [orders EXCEPT ![c] = @ + 1]
       /\ \/ Return(c) /\ UNCHANGED lost
          \/ Fail(c, Timeout) /\ lost' = [lost EXCEPT ![c] = @ + 1]
    \/ /\ \E e \in {Timeout, RateLimit, Unauthorized} \union Rejected : Fail(c, e)
       /\ UNCHANGED <<orders, lost>>

Ready(c) == call[c].end = Trying /\ wakes[c] = Never /\ now >= call[c].at

(* An attempt up to its first await.                                       *)
SendNow(c) ==
    /\ Ready(c)
    /\ TakeToken
    /\ Acquire(c)
    /\ PlaceOrder(c)

SendLater(c) ==
    /\ Ready(c)
    /\ call[c].block
    /\ TakeToken
    /\ Sleep(c)
    /\ call' = [call EXCEPT ![c].first = First(c)]
    /\ UNCHANGED <<orders, lost>>

(* acquire(block=False) raises RateLimitError.                             *)
Refused(c) ==
    /\ Ready(c)
    /\ ~call[c].block
    /\ ~Allowed
    /\ TakeToken
    /\ Fail(c, RateLimit)
    /\ UNCHANGED <<vars, orders, lost>>

RefreshFails(c) ==
    /\ Ready(c)
    /\ token.expired
    /\ Fail(c, Unauthorized)
    /\ UNCHANGED <<vars, token, orders, lost>>

(* The attempt goes on after the limiter's sleep.                          *)
SendAfterSleep(c) ==
    /\ Wake(c)
    /\ PlaceOrder(c)
    /\ UNCHANGED token

CallsNext ==
    \/ \E c \in Callers :
          SendNow(c) \/ SendLater(c) \/ Refused(c) \/ RefreshFails(c) \/ SendAfterSleep(c)
    \/ ExpireToken
    \/ Tick /\ UNCHANGED calls
    \/ Reset /\ UNCHANGED calls

CallsSpec == CallsInit /\ [][CallsNext]_<<vars, calls>>

-----------------------------------------------------------------------------
(* However often a call was retried, it placed one order for each answer   *)
(* that was lost, and one more if it returned; a call that raises without  *)
(* a lost answer has placed none (retry_async returns at the first success *)
(* and passes the client's errors on).                                     *)
OrdersAccountedFor ==
    \A c \in Callers : orders[c] = lost[c] + (IF call[c].end = "returned" THEN 1 ELSE 0)

(* A token is replaced exactly when get_token has handed it out as often   *)
(* as it may, a refreshed one once more by the refresh itself, or when it  *)
(* was made to expire: callers in any order neither refresh a good token   *)
(* nor are given a spent one.                                              *)
TokenLifetime ==
    [][ token.expired /\ ~token'.expired =>
            \/ token.forced
            \/ token.handed = ExpireAfter + (IF token.refreshed THEN 1 ELSE 0) ]_token

(* What max_attempts attempts wait in all by the textbook: nothing before  *)
(* the first retry, then the base delay, doubled each time and not capped. *)
Backoff == BaseDelay * (2 ^ (MaxAttempts - 2) - 1)

(* When the backoff reaches the limiter's interval, a call that does not   *)
(* wait for the limiter gives up on the rate limit only if some request,   *)
(* perhaps one of its own, was let through after it began (calculate_delay *)
(* and acquire, whose numbers nothing else relates).                       *)
BackoffOutlastsInterval ==
    [][ MaxAttempts > 2 /\ MaxDelay >= BaseDelay * 2 ^ (MaxAttempts - 3) /\ Backoff >= MinInterval =>
            \A c \in Callers :
                call[c].end = Trying /\ call'[c].end = "rate limited"
                    => last' # Never /\ last' > First(c) ]_<<vars, calls>>
=============================================================================
