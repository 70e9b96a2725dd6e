---------------------------- MODULE OrderManager ----------------------------
(***************************************************************************)
(* src/execution/order_manager.py driving a broker that honours            *)
(* src/broker/base.py.  The manager keeps its records in memory and dies   *)
(* with the process; the broker outlives it.                               *)
(*                                                                         *)
(* submit_order is one blocking call made of several steps, so that a      *)
(* crash of the process, or the late arrival of a request an earlier       *)
(* attempt gave up on, can fall between any two of them.  The program has  *)
(* one caller at a time, hence one variable call.                          *)
(*                                                                         *)
(* A call that raises at once (KeyError, ValueError for an id already used *)
(* for another order, BrokerRejected for a record already REJECTED)        *)
(* changes nothing: it is a step that is not enabled.                      *)
(*                                                                         *)
(* With Unreliable = FALSE the broker is mock_broker.py: a request that    *)
(* times out never arrives.  With Unreliable = TRUE it is the broker the   *)
(* interface speaks of ("Broker did not respond in time - order's fate is  *)
(* UNKNOWN, not failed"): a request that timed out, or was sent by a       *)
(* process that died, may still arrive later, and an id the broker has     *)
(* already executed may still time out or meet a broken connection.        *)
(***************************************************************************)
EXTENDS Integers, Sequences, FiniteSets, Functions, Reconciliation

CONSTANTS
    Ids,            \* client order ids
    Instruments,
    Orders,         \* what an order asks for: instrument, side, quantity
    Requests,       \* the <<id, order>> pairs callers submit
    MaxAttempts,    \* max_retry_attempts
    Unreliable,     \* see above
    MaxRestarts,    \* bound: process restarts
    NoCall          \* no submit_order in progress

Sides == {"BUY", "SELL"}

ASSUME OrdersAssumption ==
    Orders \subseteq [instrument : Instruments, side : Sides, quantity : Nat \ {0}]
ASSUME RequestsAssumption == Requests \subseteq Ids \X Orders
ASSUME BoundsAssumption ==
    /\ MaxAttempts \in Nat \ {0}
    /\ Unreliable \in BOOLEAN
    /\ MaxRestarts \in Nat

(* The values of OrderStatus the code assigns (ACKNOWLEDGED and CANCELLED  *)
(* are declared and never used).                                           *)
Statuses == {"PENDING", "SUBMITTED", "TIMEOUT", "FILLED", "REJECTED"}

(* fill is the broker's number of the fill, 0 for None.  submit_attempts,   *)
(* last_attempt_time and rejection_reason are for display: nothing in the  *)
(* code reads them back to decide anything.                                *)
OrderRecord == [order : Orders, status : Statuses, fill : Nat]

Fill == [order_id : Ids, order : Orders]

(* ready: about to back off and send; sent: the broker has the request;    *)
(* the others are what broker.submit_order returned or raised.             *)
Replies == {"fill", "timeout", "rejected", "disconnected"}
Phases == {"ready", "sent"} \cup Replies

Call == [id : Ids, order : Orders, attempt : 0 .. MaxAttempts - 1, phase : Phases, fill : Nat]

ASSUME NoCallAssumption == NoCall \notin Call

VARIABLES
    orders,         \* OrderManager._orders, a dict: client_order_id -> OrderRecord
    call,           \* the submit_order call in progress, or NoCall
    fills,          \* MockBroker.fills, in order; a fill is known by its index
    seen_order_ids, \* MockBroker.seen_order_ids
    positions,      \* MockBroker._positions
    inflight,       \* requests the manager gave up on that may still arrive
    restarts,       \* bounded by MaxRestarts
    answers         \* history: what submit_order has returned, to any caller

manager == <<orders, call>>
broker == <<fills, seen_order_ids, positions>>
vars == <<manager, broker, inflight, restarts, answers>>

TypeOK ==
    /\ DOMAIN orders \subseteq Ids
    /\ orders \in [DOMAIN orders -> OrderRecord]
    /\ call \in Call \cup {NoCall}
    /\ fills \in Seq(Fill)
    /\ seen_order_ids \subseteq Ids
    /\ positions \in [Instruments -> Int]
    /\ inflight \subseteq Ids \X Orders
    /\ restarts \in 0 .. MaxRestarts
    /\ answers \subseteq [id : Ids, order : Orders, fill : Nat]

Init ==
    /\ orders = <<>>
    /\ call = NoCall
    /\ fills = <<>>
    /\ seen_order_ids = {}
    /\ positions = [s \in Instruments |-> 0]
    /\ inflight = {}
    /\ restarts = 0
    /\ answers = {}

-----------------------------------------------------------------------------
(* The broker. *)

SignedQty(o) == IF o.side = "BUY" THEN o.quantity ELSE -o.quantity

(* Mutant: the latest fill instead of the order's own. *)
GetOrder_Latest(i) == IF i \in seen_order_ids THEN Len(fills) ELSE 0

(* The index of the fill of an executed order, 0 when there is none. *)
GetOrder(i) ==
    IF i \in seen_order_ids
    THEN CHOOSE k \in DOMAIN fills : fills[k].order_id = i
    ELSE 0

(* A fill for an order id never seen before. *)
Execute(i, o) ==
    /\ fills' = Append(fills, [order_id |-> i, order |-> o])
    /\ seen_order_ids' = seen_order_ids \cup {i}
    /\ positions' = [positions EXCEPT ![o.instrument] = @ + SignedQty(o)]

(* Mutants: a duplicate is executed again; a duplicate moves the position. *)
Take_NoDedup(i, o) == Execute(i, o)

Take_CountsDuplicates(i, o) ==
    IF i \in seen_order_ids
    THEN /\ positions' = [positions EXCEPT ![o.instrument] = @ + SignedQty(o)]
         /\ UNCHANGED <<fills, seen_order_ids>>
    ELSE Execute(i, o)

(* The broker takes an order: a duplicate has no effect. *)
Take(i, o) ==
    IF i \in seen_order_ids THEN UNCHANGED broker ELSE Execute(i, o)

(* The fill the broker answers with: the original one of a duplicate. *)
TakenFill(i) == IF i \in seen_order_ids THEN GetOrder(i) ELSE Len(fills) + 1

-----------------------------------------------------------------------------
(* The records. *)

Put(dict, i, rec) ==
    [j \in DOMAIN dict \cup {i} |-> IF j = i THEN rec ELSE dict[j]]

NewRecord(o) == [order |-> o, status |-> "PENDING", fill |-> 0]

SetStatus(i, status) == orders' = [orders EXCEPT ![i].status = status]

(* Mutant: a filled order may be sent again. *)
Settled_RejectedOnly == {"REJECTED"}

Settled == {"FILLED", "REJECTED"}

PendingOrders == {i \in DOMAIN orders : orders[i].status \notin Settled}

FilledOrders == {i \in DOMAIN orders : orders[i].status = "FILLED"}

-----------------------------------------------------------------------------
(* submit_order, up to its retry loop. *)

(* Mutant: the parameters of a known id are not compared. *)
Conflict_Never(i, o) == FALSE

Conflict(i, o) == i \in DOMAIN orders /\ orders[i].order # o

Track(i, o) ==
    IF i \in DOMAIN orders THEN UNCHANGED orders ELSE orders' = Put(orders, i, NewRecord(o))

Submit(i, o) ==
    /\ call = NoCall
    /\ ~ Conflict(i, o)
    /\ i \in DOMAIN orders => i \in PendingOrders
    /\ Track(i, o)
    /\ call' = [id |-> i, order |-> o, attempt |-> 0, phase |-> "ready", fill |-> 0]
    /\ UNCHANGED <<broker, inflight, restarts, answers>>

(* The id is known and FILLED: the recorded fill is returned. *)
SubmitKnown(i, o) ==
    /\ call = NoCall
    /\ ~ Conflict(i, o)
    /\ i \in FilledOrders
    /\ orders[i].fill # 0
    /\ answers' = answers \cup {[id |-> i, order |-> o, fill |-> orders[i].fill]}
    /\ UNCHANGED <<manager, broker, inflight, restarts>>

(* One turn of the loop, up to the call of the broker. *)
StartAttempt ==
    /\ call # NoCall
    /\ call.phase = "ready"
    /\ SetStatus(call.id, "SUBMITTED")
    /\ call' = [call EXCEPT !.phase = "sent"]
    /\ UNCHANGED <<broker, inflight, restarts, answers>>

-----------------------------------------------------------------------------
(* broker.submit_order: it returns a fill or raises. *)

Sent == call # NoCall /\ call.phase = "sent"

(* What has been sent is the order of the record. *)
SentOrder == orders[call.id].order

Reply(phase) == call' = [call EXCEPT !.phase = phase]

(* The mock never fails for an id it knows. *)
MayFail == call.id \notin seen_order_ids \/ Unreliable

BrokerFills ==
    /\ Sent
    /\ Take(call.id, SentOrder)
    /\ call' = [call EXCEPT !.phase = "fill", !.fill = TakenFill(call.id)]
    /\ UNCHANGED <<orders, inflight, restarts, answers>>

BrokerRejects ==
    /\ Sent
    /\ call.id \notin seen_order_ids
    /\ Reply("rejected")
    /\ UNCHANGED <<orders, broker, inflight, restarts, answers>>

(* A request without an answer may be lost, or still be on its way. *)
GiveUp(i, o) ==
    \/ UNCHANGED inflight
    \/ Unreliable /\ inflight' = inflight \cup {<<i, o>>}

BrokerTimesOut ==
    /\ Sent
    /\ MayFail
    /\ GiveUp(call.id, SentOrder)
    /\ Reply("timeout")
    /\ UNCHANGED <<orders, broker, restarts, answers>>

BrokerDisconnects ==
    /\ Sent
    /\ MayFail
    /\ Reply("disconnected")
    /\ UNCHANGED <<orders, broker, inflight, restarts, answers>>

BrokerAnswers == BrokerFills \/ BrokerRejects \/ BrokerTimesOut \/ BrokerDisconnects

-----------------------------------------------------------------------------
(* What submit_order makes of the answer. *)

Got(reply) == call # NoCall /\ call.phase = reply

HandleFill ==
    /\ Got("fill")
    /\ orders' = [orders EXCEPT ![call.id].status = "FILLED", ![call.id].fill = call.fill]
    /\ answers' = answers \cup {[id |-> call.id, order |-> call.order, fill |-> call.fill]}
    /\ call' = NoCall
    /\ UNCHANGED <<broker, inflight, restarts>>

LastAttempt == call.attempt = MaxAttempts - 1

(* Mutant: the attempt counter is reset, and the retries have no limit. *)
HandleTimeout_ResetsAttempt ==
    /\ Got("timeout")
    /\ SetStatus(call.id, "TIMEOUT")
    /\ call' = IF LastAttempt THEN [call EXCEPT !.attempt = 0, !.phase = "ready"]
               ELSE [call EXCEPT !.attempt = @ + 1, !.phase = "ready"]
    /\ UNCHANGED <<broker, inflight, restarts, answers>>

HandleTimeout ==
    /\ Got("timeout")
    /\ SetStatus(call.id, "TIMEOUT")
    /\ call' = IF LastAttempt THEN NoCall
               ELSE [call EXCEPT !.attempt = @ + 1, !.phase = "ready"]
    /\ UNCHANGED <<broker, inflight, restarts, answers>>

HandleRejected ==
    /\ Got("rejected")
    /\ SetStatus(call.id, "REJECTED")
    /\ call' = NoCall
    /\ UNCHANGED <<broker, inflight, restarts, answers>>

HandleDisconnected ==
    /\ Got("disconnected")
    /\ SetStatus(call.id, "PENDING")
    /\ call' = NoCall
    /\ UNCHANGED <<broker, inflight, restarts, answers>>

HandleAnswer == HandleFill \/ HandleTimeout \/ HandleRejected \/ HandleDisconnected

-----------------------------------------------------------------------------
(* Reconciliation.  Both methods take the caller's word.                   *)

(* Mutant: the status is updated and the fill is not. *)
ReconciledRecord_StatusOnly(i, k) ==
    IF i \in DOMAIN orders
    THEN [orders[i] EXCEPT !.status = "FILLED"]
    ELSE [order |-> fills[k].order, status |-> "FILLED", fill |-> k]

ReconciledRecord(i, k) ==
    IF i \in DOMAIN orders
    THEN [orders[i] EXCEPT !.status = "FILLED", !.fill = k]
    ELSE [order |-> fills[k].order, status |-> "FILLED", fill |-> k]

(* With whatever fill k the caller hands in.                               *)
ReconcileOrder(i, k) ==
    /\ call = NoCall
    /\ orders' = Put(orders, i, ReconciledRecord(i, k))
    /\ UNCHANGED <<call, broker, inflight, restarts, answers>>

MarkRejected(i) ==
    /\ call = NoCall
    /\ i \in DOMAIN orders
    /\ SetStatus(i, "REJECTED")
    /\ UNCHANGED <<call, broker, inflight, restarts, answers>>

-----------------------------------------------------------------------------
(* The environment. *)

(* A caller in doubt asks the broker for the order and passes on what it   *)
(* learns: the fill, or that there is none.  Nothing in the manager keeps  *)
(* a caller to this.                                                       *)
AskBroker(i) ==
    \/ GetOrder(i) # 0 /\ ReconcileOrder(i, GetOrder(i))
    \/ GetOrder(i) = 0 /\ MarkRejected(i)

(* A request an earlier attempt gave up on reaches the broker. *)
ArriveLate(i, o) ==
    /\ <<i, o>> \in inflight
    /\ inflight' = inflight \ {<<i, o>>}
    /\ Take(i, o)
    /\ UNCHANGED <<manager, restarts, answers>>

(* The process dies, with or without a call in progress, and a new         *)
(* OrderManager starts with no records.                                    *)
Restart ==
    /\ restarts < MaxRestarts
    /\ restarts' = restarts + 1
    /\ IF Sent THEN GiveUp(call.id, SentOrder) ELSE UNCHANGED inflight
    /\ orders' = <<>>
    /\ call' = NoCall
    /\ UNCHANGED <<broker, answers>>

Next ==
    \/ \E r \in Requests : Submit(r[1], r[2]) \/ SubmitKnown(r[1], r[2])
    \/ StartAttempt
    \/ BrokerAnswers
    \/ HandleAnswer
    \/ \E i \in Ids : AskBroker(i)
    \/ \E r \in Requests : ArriveLate(r[1], r[2])
    \/ Restart

Spec == Init /\ [][Next]_vars

(* The manager is a running thread and the broker adapter answers or times *)
(* out; nothing obliges a caller, a late request or a restart to come.     *)
FairSpec == Spec /\ WF_vars(StartAttempt) /\ WF_vars(BrokerAnswers) /\ WF_vars(HandleAnswer)
-----------------------------------------------------------------------------
(* Safety. *)

(* However often an id is submitted, retried, re-sent by a new process or  *)
(* delivered late, the broker executes it once.                            *)
AtMostOneFill ==
    \A j, k \in DOMAIN fills : fills[j].order_id = fills[k].order_id => j = k

(* Every caller that got a fill for an id, before or after a restart and   *)
(* through a retry, a reconciliation or the record, got the same fill.     *)
SameFillReturned ==
    \A a, b \in answers : a.id = b.id => a.fill = b.fill

(* An order the manager reports FILLED carries the broker's fill of it.    *)
FilledIsExecuted ==
    \A i \in FilledOrders :
        /\ orders[i].fill \in DOMAIN fills
        /\ fills[orders[i].fill].order_id = i

(* A fill returned to a caller is for the order that caller asked for,     *)
(* although ids are reused for other orders: the parameters are compared   *)
(* before anything is sent or returned (order_manager.py:129-136).  Said   *)
(* only of the first process: the parameters are lost with it, and after a *)
(* restart the broker answers a reused id with the fill of the old order.  *)
FillIsForTheOrder ==
    restarts = 0 => \A a \in answers : fills[a.fill].order = a.order

(* Once every executed order is FILLED in the records, with the order that *)
(* was executed, the reconciliation of the positions the records add up to *)
(* with the broker's (get_positions) finds no mismatch.                    *)
Traded == {orders[i].order.instrument : i \in FilledOrders}

Book ==
    [s \in Traded |->
        SumFunction([i \in {j \in FilledOrders : orders[j].order.instrument = s} |->
                        SignedQty(orders[i].order)])]

BookMatchesBroker ==
    /\ seen_order_ids \subseteq FilledOrders
    /\ \A i \in FilledOrders : orders[i].order = fills[orders[i].fill].order
    => Matched(Book, positions, 0)

(* Until the process dies, a FILLED order stays FILLED with its fill, for  *)
(* callers who reconcile with the broker's own answer (AskBroker).         *)
FilledStays ==
    \A i \in FilledOrders : i \in DOMAIN orders' =>
        orders'[i].status = "FILLED" /\ orders'[i].fill = orders[i].fill

FilledForGood == [][FilledStays]_vars

(* Liveness: a submit_order call returns or raises (or dies).              *)
CallEnds == (call # NoCall) ~> (call = NoCall)

-----------------------------------------------------------------------------
(* Retries, lost replies, late requests, reconciliation and restarts are   *)
(* all invisible in what the callers are promised.                         *)
Ledger == [i \in Ids |-> {k \in DOMAIN fills : fills[k].order_id = i}]

Told == [i \in Ids |-> {a.fill : a \in {b \in answers : b.id = i}}]

Promise == INSTANCE ExactlyOnce WITH ledger <- Ledger, told <- Told

ImplementsExactlyOnce == Promise!Spec
=============================================================================
