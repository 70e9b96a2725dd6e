------------------------ MODULE OrderManager_proofs ------------------------
(* Theorems about OrderManager, for all constants its assumptions allow.   *)
EXTENDS OrderManager, FiniteSetTheorems, WellFoundedInduction, TLAPS

-----------------------------------------------------------------------------
(* The inductive invariant. *)

(* MockBroker keeps fills and seen_order_ids in step. *)
SeenIsFilled ==
    /\ \A k \in DOMAIN fills : fills[k].order_id \in seen_order_ids
    /\ \A i \in seen_order_ids : \E k \in DOMAIN fills : fills[k].order_id = i

IsFillOf(k, i) == k \in DOMAIN fills /\ fills[k].order_id = i

(* submit_order works on a record that exists and is not FILLED; a fill it *)
(* was answered is the broker's.                                           *)
CallOK ==
    call # NoCall =>
        /\ call.id \in DOMAIN orders
        /\ orders[call.id].status # "FILLED"
        /\ call.phase = "fill" => IsFillOf(call.fill, call.id)

RecordsOK == \A i \in FilledOrders : IsFillOf(orders[i].fill, i)

AnswersOK == \A a \in answers : IsFillOf(a.fill, a.id)

IInv ==
    /\ TypeOK
    /\ SeenIsFilled
    /\ AtMostOneFill
    /\ CallOK
    /\ RecordsOK
    /\ AnswersOK

-----------------------------------------------------------------------------
(* The operators. *)

(* get_order finds the fill of an executed order, and nothing else.        *)
LEMMA GetOrderFinds ==
    ASSUME TypeOK, SeenIsFilled, NEW i \in Ids
    PROVE  /\ i \in seen_order_ids => IsFillOf(GetOrder(i), i)
           /\ i \notin seen_order_ids => GetOrder(i) = 0
           /\ GetOrder(i) \in Nat
  BY DEF GetOrder, IsFillOf, SeenIsFilled, TypeOK

(* Recording an order keeps the type of the records and the other orders.  *)
LEMMA PutUpdates ==
    ASSUME TypeOK, NEW i, NEW rec \in OrderRecord, orders' = Put(orders, i, rec)
    PROVE  /\ DOMAIN orders' = DOMAIN orders \cup {i}
           /\ orders' \in [DOMAIN orders' -> OrderRecord]
           /\ orders'[i] = rec
           /\ \A j \in DOMAIN orders : j # i => orders'[j] = orders[j]
  BY DEF Put, TypeOK

(* SetStatus changes the status of one record.                             *)
LEMMA SetStatusUpdates ==
    ASSUME TypeOK, NEW i \in DOMAIN orders, NEW status \in Statuses, SetStatus(i, status)
    PROVE  /\ DOMAIN orders' = DOMAIN orders
           /\ orders' \in [DOMAIN orders' -> OrderRecord]
           /\ orders'[i].status = status
           /\ \A j \in DOMAIN orders : j # i => orders'[j] = orders[j]
  BY DEF SetStatus, TypeOK, OrderRecord

(* What the broker's taking of an order does: it keeps every fill there    *)
(* is, adds at most one, and ends with a fill of that order.               *)
LEMMA TakeExecutes ==
    ASSUME TypeOK, SeenIsFilled, AtMostOneFill,
           NEW i \in Ids, NEW o \in Orders, Take(i, o)
    PROVE  /\ fills' \in Seq(Fill)
           /\ seen_order_ids' = seen_order_ids \cup {i}
           /\ positions' \in [Instruments -> Int]
           /\ SeenIsFilled'
           /\ AtMostOneFill'
           /\ \A k, j : IsFillOf(k, j) => IsFillOf(k, j)'
           /\ TakenFill(i) \in DOMAIN fills' /\ fills'[TakenFill(i)].order_id = i
           /\ TakenFill(i) \in Nat
<1>1. CASE i \in seen_order_ids
  <2>1. UNCHANGED broker
    BY <1>1 DEF Take
  <2>2. IsFillOf(GetOrder(i), i) /\ GetOrder(i) \in Nat
    BY <1>1, GetOrderFinds
  <2> QED
    BY <1>1, <2>1, <2>2
    DEF broker, TypeOK, SeenIsFilled, AtMostOneFill, IsFillOf, TakenFill
<1>2. CASE i \notin seen_order_ids
  <2> DEFINE n == Len(fills) + 1
  <2>1. /\ fills' = Append(fills, [order_id |-> i, order |-> o])
        /\ seen_order_ids' = seen_order_ids \cup {i}
        /\ positions' = [positions EXCEPT ![o.instrument] = @ + SignedQty(o)]
    BY <1>2 DEF Take, Execute
  <2>2. [order_id |-> i, order |-> o] \in Fill /\ fills \in Seq(Fill)
    BY DEF Fill, TypeOK
  <2>3. /\ fills' \in Seq(Fill)
        /\ DOMAIN fills' = DOMAIN fills \cup {n}
        /\ n \in Nat /\ n \notin DOMAIN fills
        /\ fills'[n] = [order_id |-> i, order |-> o]
        /\ \A k \in DOMAIN fills : fills'[k] = fills[k]
    BY <2>1, <2>2
  <2>4. positions' \in [Instruments -> Int]
    <3>1. SignedQty(o) \in Int
      BY OrdersAssumption DEF SignedQty
    <3>2. o.instrument \in Instruments /\ positions[o.instrument] \in Int
      BY OrdersAssumption DEF TypeOK
    <3>3. positions[o.instrument] + SignedQty(o) \in Int
      BY <3>1, <3>2
    <3> QED
      BY <2>1, <3>3 DEF TypeOK
  <2>5. \A k, j : IsFillOf(k, j) => IsFillOf(k, j)'
    BY <2>3 DEF IsFillOf
  <2>6. TakenFill(i) = n
    BY <1>2 DEF TakenFill
  <2>7. SeenIsFilled'
    BY <2>1, <2>3 DEF SeenIsFilled
  <2>8. AtMostOneFill'
    BY <1>2, <2>3 DEF AtMostOneFill, SeenIsFilled
  <2> QED
    BY <2>1, <2>3, <2>4, <2>5, <2>6, <2>7, <2>8
<1> QED
  BY <1>1, <1>2
-----------------------------------------------------------------------------
(* Every step keeps the invariant. *)

LEMMA InitIInv == Init => IInv
<1> SUFFICES ASSUME Init PROVE IInv
  OBVIOUS
<1>1. DOMAIN orders = {} /\ orders \in [DOMAIN orders -> OrderRecord]
  BY DEF Init
<1>2. TypeOK
  BY <1>1, BoundsAssumption DEF Init, TypeOK
<1> QED
  BY <1>1, <1>2
  DEF Init, IInv, SeenIsFilled, AtMostOneFill, CallOK, RecordsOK, FilledOrders, AnswersOK

(* The part of a step that touches neither the broker nor the answers.     *)
LEMMA BrokerUnchanged ==
    ASSUME IInv, UNCHANGED broker, UNCHANGED answers
    PROVE  /\ SeenIsFilled' /\ AtMostOneFill' /\ AnswersOK'
           /\ \A k, j : IsFillOf(k, j)' <=> IsFillOf(k, j)
  BY DEF IInv, broker, SeenIsFilled, AtMostOneFill, AnswersOK, IsFillOf

LEMMA SubmitKeeps ==
    ASSUME IInv, NEW i \in Ids, NEW o \in Orders, Submit(i, o)
    PROVE  IInv'
<1> DEFINE c == [id |-> i, order |-> o, attempt |-> 0, phase |-> "ready", fill |-> 0]
<1>1. c \in Call /\ call' = c
  BY BoundsAssumption DEF Submit, Call, Phases
<1>2. NewRecord(o) \in OrderRecord
  BY DEF NewRecord, OrderRecord, Statuses
<1>3. /\ DOMAIN orders' = DOMAIN orders \cup {i}
      /\ orders' \in [DOMAIN orders' -> OrderRecord]
      /\ \A j \in DOMAIN orders : orders'[j] = orders[j]
      /\ orders'[i].status # "FILLED"
  <2>1. CASE i \in DOMAIN orders
    BY <2>1 DEF Submit, Track, PendingOrders, Settled, IInv, TypeOK
  <2>2. CASE i \notin DOMAIN orders
    <3>1. orders' = Put(orders, i, NewRecord(o))
      BY <2>2 DEF Submit, Track
    <3>2. /\ DOMAIN orders' = DOMAIN orders \cup {i}
          /\ orders' \in [DOMAIN orders' -> OrderRecord]
          /\ orders'[i] = NewRecord(o)
          /\ \A j \in DOMAIN orders : j # i => orders'[j] = orders[j]
      BY <3>1, <1>2, PutUpdates DEF IInv
    <3> QED
      BY <2>2, <3>2 DEF NewRecord
  <2> QED
    BY <2>1, <2>2
<1>4. TypeOK'
  BY <1>1, <1>3 DEF IInv, TypeOK, Submit, broker
<1>5. SeenIsFilled' /\ AtMostOneFill' /\ AnswersOK'
      /\ \A k, j : IsFillOf(k, j)' <=> IsFillOf(k, j)
  BY BrokerUnchanged DEF Submit
<1>6. CallOK'
  BY <1>1, <1>3, NoCallAssumption DEF CallOK
<1>7. RecordsOK'
  BY <1>3, <1>5 DEF IInv, RecordsOK, FilledOrders
<1> QED
  BY <1>4, <1>5, <1>6, <1>7 DEF IInv

LEMMA SubmitKnownKeeps ==
    ASSUME IInv, NEW i \in Ids, NEW o \in Orders, SubmitKnown(i, o)
    PROVE  IInv'
<1> DEFINE a == [id |-> i, order |-> o, fill |-> orders[i].fill]
<1>1. i \in FilledOrders /\ orders[i].fill \in Nat /\ IsFillOf(orders[i].fill, i)
  BY DEF SubmitKnown, FilledOrders, IInv, RecordsOK, TypeOK, OrderRecord
<1>2. answers' = answers \cup {a} /\ a \in [id : Ids, order : Orders, fill : Nat]
  BY <1>1 DEF SubmitKnown
<1>3. AnswersOK'
  BY <1>1, <1>2 DEF AnswersOK, IsFillOf, SubmitKnown, broker, IInv
<1> QED
  BY <1>2, <1>3
  DEF SubmitKnown, manager, broker, IInv, TypeOK, SeenIsFilled, AtMostOneFill, CallOK,
      RecordsOK, FilledOrders, IsFillOf

(* The call in progress is on an order of the records.                     *)
LEMMA CallHasRecord ==
    ASSUME IInv, call # NoCall
    PROVE  /\ call \in Call
           /\ call.id \in Ids /\ call.id \in DOMAIN orders
           /\ orders[call.id] \in OrderRecord
           /\ orders[call.id].order \in Orders
           /\ orders[call.id].status # "FILLED"
  BY DEF IInv, TypeOK, CallOK, Call, OrderRecord

(* What submit_order does with its record, short of filling it.            *)
LEMMA CallSetsStatus ==
    ASSUME IInv, call # NoCall,
           NEW status \in Statuses, status # "FILLED", SetStatus(call.id, status),
           call' \in Call \cup {NoCall},
           call' # NoCall => call'.id = call.id /\ call'.phase # "fill",
           UNCHANGED <<broker, restarts, answers>>,
           inflight' \subseteq Ids \X Orders
    PROVE  IInv'
<1>1. /\ DOMAIN orders' = DOMAIN orders
      /\ orders' \in [DOMAIN orders' -> OrderRecord]
      /\ orders'[call.id].status = status
      /\ \A j \in DOMAIN orders : j # call.id => orders'[j] = orders[j]
  BY CallHasRecord, SetStatusUpdates DEF IInv
<1>2. TypeOK'
  BY <1>1 DEF IInv, TypeOK, broker
<1>3. SeenIsFilled' /\ AtMostOneFill' /\ AnswersOK'
      /\ \A k, j : IsFillOf(k, j)' <=> IsFillOf(k, j)
  BY BrokerUnchanged
<1>4. CallOK'
  BY <1>1, CallHasRecord DEF CallOK
<1>5. RecordsOK'
  BY <1>1, <1>3 DEF IInv, RecordsOK, FilledOrders
<1> QED
  BY <1>2, <1>3, <1>4, <1>5 DEF IInv

LEMMA StartAttemptKeeps ==
    ASSUME IInv, StartAttempt
    PROVE  IInv'
<1>1. call' \in Call /\ call'.id = call.id /\ call'.phase = "sent"
  BY CallHasRecord DEF StartAttempt, Call, Phases
<1> QED
  BY <1>1, CallSetsStatus DEF StartAttempt, Statuses, IInv, TypeOK

LEMMA BrokerFillsKeeps ==
    ASSUME IInv, BrokerFills
    PROVE  IInv'
<1>1. /\ call # NoCall
      /\ call.id \in Ids /\ call.id \in DOMAIN orders
      /\ orders[call.id].order \in Orders
      /\ orders[call.id].status # "FILLED"
      /\ call \in Call
  BY CallHasRecord DEF BrokerFills, Sent
<1>2. /\ fills' \in Seq(Fill)
      /\ seen_order_ids' = seen_order_ids \cup {call.id}
      /\ positions' \in [Instruments -> Int]
      /\ SeenIsFilled'
      /\ AtMostOneFill'
      /\ \A k, j : IsFillOf(k, j) => IsFillOf(k, j)'
      /\ TakenFill(call.id) \in DOMAIN fills' /\ fills'[TakenFill(call.id)].order_id = call.id
      /\ TakenFill(call.id) \in Nat
  BY <1>1, TakeExecutes DEF BrokerFills, SentOrder, IInv
<1>3. /\ call' \in Call /\ call' # NoCall
      /\ call'.id = call.id /\ call'.phase = "fill" /\ call'.fill = TakenFill(call.id)
  <2>1. call' = [call EXCEPT !.phase = "fill", !.fill = TakenFill(call.id)]
    BY DEF BrokerFills
  <2>2. call' \in Call
    BY <1>1, <1>2, <2>1 DEF Call, Phases, Replies
  <2> QED
    BY <1>1, <2>1, <2>2, NoCallAssumption DEF Call
<1>4. UNCHANGED <<orders, inflight, restarts, answers>>
  BY DEF BrokerFills
<1>5. TypeOK'
  BY <1>1, <1>2, <1>3, <1>4 DEF IInv, TypeOK
<1>6. CallOK'
  BY <1>1, <1>2, <1>3, <1>4 DEF CallOK, IsFillOf
<1>7. RecordsOK' /\ AnswersOK'
  BY <1>2, <1>4 DEF IInv, RecordsOK, FilledOrders, AnswersOK
<1> QED
  BY <1>2, <1>5, <1>6, <1>7 DEF IInv

(* The broker raises: only the reply and what is in flight change.         *)
LEMMA BrokerFailsKeeps ==
    ASSUME IInv, BrokerRejects \/ BrokerTimesOut \/ BrokerDisconnects
    PROVE  IInv'
<1>1. call # NoCall /\ UNCHANGED <<orders, broker, restarts, answers>>
  BY DEF BrokerRejects, BrokerTimesOut, BrokerDisconnects, Sent
<1>2. PICK r \in Replies : r # "fill" /\ call' = [call EXCEPT !.phase = r]
  BY DEF BrokerRejects, BrokerTimesOut, BrokerDisconnects, Reply, Replies
<1>3. call' \in Call /\ call'.id = call.id /\ call'.phase # "fill"
  BY <1>1, <1>2, CallHasRecord DEF Call, Phases
<1>4. inflight' \subseteq Ids \X Orders
  BY <1>1, CallHasRecord
  DEF BrokerRejects, BrokerTimesOut, BrokerDisconnects, GiveUp, SentOrder, IInv, TypeOK
<1>5. TypeOK'
  BY <1>1, <1>3, <1>4 DEF IInv, TypeOK, broker
<1>6. CallOK'
  BY <1>1, <1>3 DEF IInv, CallOK
<1>7. SeenIsFilled' /\ AtMostOneFill' /\ AnswersOK'
      /\ \A k, j : IsFillOf(k, j)' <=> IsFillOf(k, j)
  BY <1>1, BrokerUnchanged
<1>8. RecordsOK'
  BY <1>1, <1>7 DEF IInv, RecordsOK, FilledOrders
<1> QED
  BY <1>5, <1>6, <1>7, <1>8 DEF IInv

LEMMA HandleFillKeeps ==
    ASSUME IInv, HandleFill
    PROVE  IInv'
<1>1. /\ call # NoCall
      /\ call.id \in Ids /\ call.order \in Orders /\ call.fill \in Nat
      /\ call.id \in DOMAIN orders
      /\ IsFillOf(call.fill, call.id)
  BY CallHasRecord DEF HandleFill, Got, IInv, CallOK, Call
<1>2. /\ DOMAIN orders' = DOMAIN orders
      /\ orders' \in [DOMAIN orders' -> OrderRecord]
      /\ orders'[call.id].fill = call.fill
      /\ \A j \in DOMAIN orders : j # call.id => orders'[j] = orders[j]
  BY <1>1 DEF HandleFill, IInv, TypeOK, OrderRecord, Statuses
<1>3. call' = NoCall /\ UNCHANGED <<broker, inflight, restarts>>
  BY DEF HandleFill
<1>4. answers' = answers \cup {[id |-> call.id, order |-> call.order, fill |-> call.fill]}
  BY DEF HandleFill
<1>5. TypeOK'
  BY <1>1, <1>2, <1>3, <1>4 DEF IInv, TypeOK, broker
<1>6. SeenIsFilled' /\ AtMostOneFill' /\ \A k, j : IsFillOf(k, j)' <=> IsFillOf(k, j)
  BY <1>3 DEF IInv, broker, SeenIsFilled, AtMostOneFill, IsFillOf
<1>7. CallOK' /\ RecordsOK' /\ AnswersOK'
  BY <1>1, <1>2, <1>3, <1>4, <1>6 DEF IInv, CallOK, RecordsOK, FilledOrders, AnswersOK
<1> QED
  BY <1>5, <1>6, <1>7 DEF IInv

LEMMA HandleTimeoutKeeps ==
    ASSUME IInv, HandleTimeout
    PROVE  IInv'
<1>1. call # NoCall /\ call \in Call
  BY CallHasRecord DEF HandleTimeout, Got
<1>2. CASE LastAttempt
  BY <1>1, <1>2, CallSetsStatus DEF HandleTimeout, Statuses, IInv, TypeOK
<1>3. CASE ~ LastAttempt
  <2>1. call' = [call EXCEPT !.attempt = call.attempt + 1, !.phase = "ready"]
    BY <1>3 DEF HandleTimeout
  <2>2. call.attempt + 1 \in 0 .. MaxAttempts - 1
    BY <1>1, <1>3, BoundsAssumption DEF Call, LastAttempt
  <2>3. call' \in Call /\ call'.id = call.id /\ call'.phase = "ready"
    BY <1>1, <2>1, <2>2 DEF Call, Phases
  <2> QED
    BY <1>1, <2>3, CallSetsStatus DEF HandleTimeout, Statuses, IInv, TypeOK
<1> QED
  BY <1>2, <1>3

LEMMA HandleFailureKeeps ==
    ASSUME IInv, HandleRejected \/ HandleDisconnected
    PROVE  IInv'
<1>1. CASE HandleRejected
  BY <1>1, CallSetsStatus DEF HandleRejected, Got, Statuses, IInv, TypeOK
<1>2. CASE HandleDisconnected
  BY <1>2, CallSetsStatus DEF HandleDisconnected, Got, Statuses, IInv, TypeOK
<1> QED
  BY <1>1, <1>2

LEMMA ReconcileOrderKeeps ==
    ASSUME IInv, NEW i \in Ids, GetOrder(i) # 0, ReconcileOrder(i, GetOrder(i))
    PROVE  IInv'
<1> DEFINE k == GetOrder(i)
           r == ReconciledRecord(i, k)
<1>1. IsFillOf(k, i) /\ k \in Nat
  BY GetOrderFinds DEF IInv
<1>2. fills[k] \in Fill
  BY <1>1 DEF IInv, TypeOK, IsFillOf
<1>3. r \in OrderRecord /\ r.fill = k
  BY <1>1, <1>2 DEF ReconciledRecord, OrderRecord, Statuses, Fill, IInv, TypeOK
<1>4. /\ DOMAIN orders' = DOMAIN orders \cup {i}
      /\ orders' \in [DOMAIN orders' -> OrderRecord]
      /\ orders'[i] = r
      /\ \A j \in DOMAIN orders : j # i => orders'[j] = orders[j]
  <2>1. orders' = Put(orders, i, r)
    BY DEF ReconcileOrder
  <2> QED
    BY <1>3, <2>1, PutUpdates DEF IInv
<1>5. call = NoCall /\ UNCHANGED <<call, broker, inflight, restarts, answers>>
  BY DEF ReconcileOrder
<1>6. TypeOK'
  BY <1>4, <1>5 DEF IInv, TypeOK, broker
<1>7. SeenIsFilled' /\ AtMostOneFill' /\ AnswersOK'
      /\ \A m, j : IsFillOf(m, j)' <=> IsFillOf(m, j)
  BY <1>5, BrokerUnchanged
<1>8. CallOK' /\ RecordsOK'
  BY <1>1, <1>3, <1>4, <1>5, <1>7 DEF IInv, CallOK, RecordsOK, FilledOrders
<1> QED
  BY <1>6, <1>7, <1>8 DEF IInv

LEMMA MarkRejectedKeeps ==
    ASSUME IInv, NEW i \in Ids, MarkRejected(i)
    PROVE  IInv'
<1>1. /\ DOMAIN orders' = DOMAIN orders
      /\ orders' \in [DOMAIN orders' -> OrderRecord]
      /\ orders'[i].status = "REJECTED"
      /\ \A j \in DOMAIN orders : j # i => orders'[j] = orders[j]
  BY SetStatusUpdates DEF MarkRejected, IInv, Statuses
<1>2. call = NoCall /\ UNCHANGED <<call, broker, inflight, restarts, answers>>
  BY DEF MarkRejected
<1>3. TypeOK'
  BY <1>1, <1>2 DEF IInv, TypeOK, broker
<1>4. SeenIsFilled' /\ AtMostOneFill' /\ AnswersOK'
      /\ \A k, j : IsFillOf(k, j)' <=> IsFillOf(k, j)
  BY <1>2, BrokerUnchanged
<1>5. CallOK' /\ RecordsOK'
  BY <1>1, <1>2, <1>4 DEF IInv, CallOK, RecordsOK, FilledOrders
<1> QED
  BY <1>3, <1>4, <1>5 DEF IInv

LEMMA ArriveLateKeeps ==
    ASSUME IInv, NEW i \in Ids, NEW o \in Orders, ArriveLate(i, o)
    PROVE  IInv'
<1>1. /\ fills' \in Seq(Fill)
      /\ seen_order_ids' = seen_order_ids \cup {i}
      /\ positions' \in [Instruments -> Int]
      /\ SeenIsFilled'
      /\ AtMostOneFill'
      /\ \A k, j : IsFillOf(k, j) => IsFillOf(k, j)'
  BY TakeExecutes DEF ArriveLate, IInv
<1>2. UNCHANGED <<orders, call, restarts, answers>> /\ inflight' \subseteq inflight
  BY DEF ArriveLate, manager
<1>3. TypeOK'
  BY <1>1, <1>2 DEF IInv, TypeOK
<1>4. CallOK' /\ RecordsOK' /\ AnswersOK'
  BY <1>1, <1>2 DEF IInv, CallOK, RecordsOK, FilledOrders, AnswersOK
<1> QED
  BY <1>1, <1>3, <1>4 DEF IInv

LEMMA RestartKeeps ==
    ASSUME IInv, Restart
    PROVE  IInv'
<1>1. DOMAIN orders' = {} /\ orders' \in [DOMAIN orders' -> OrderRecord]
  BY DEF Restart
<1>2. call' = NoCall /\ UNCHANGED <<broker, answers>>
  BY DEF Restart
<1>3. inflight' \subseteq Ids \X Orders
  BY CallHasRecord DEF Restart, Sent, GiveUp, SentOrder, IInv, TypeOK
<1>4. restarts' \in 0 .. MaxRestarts
  BY BoundsAssumption DEF Restart, IInv, TypeOK
<1>5. TypeOK'
  BY <1>1, <1>2, <1>3, <1>4 DEF IInv, TypeOK, broker
<1>6. SeenIsFilled' /\ AtMostOneFill' /\ AnswersOK'
  BY <1>2, BrokerUnchanged
<1>7. CallOK' /\ RecordsOK'
  BY <1>1, <1>2 DEF CallOK, RecordsOK, FilledOrders
<1> QED
  BY <1>5, <1>6, <1>7 DEF IInv

LEMMA NextIInv == IInv /\ [Next]_vars => IInv'
<1> SUFFICES ASSUME IInv, [Next]_vars PROVE IInv'
  OBVIOUS
<1>1. \A r \in Requests : r[1] \in Ids /\ r[2] \in Orders
  BY RequestsAssumption
<1>2. CASE \E r \in Requests : Submit(r[1], r[2]) \/ SubmitKnown(r[1], r[2])
  BY <1>1, <1>2, SubmitKeeps, SubmitKnownKeeps
<1>3. CASE StartAttempt
  BY <1>3, StartAttemptKeeps
<1>4. CASE BrokerAnswers
  BY <1>4, BrokerFillsKeeps, BrokerFailsKeeps DEF BrokerAnswers
<1>5. CASE HandleAnswer
  BY <1>5, HandleFillKeeps, HandleTimeoutKeeps, HandleFailureKeeps DEF HandleAnswer
<1>6. CASE \E i \in Ids : AskBroker(i)
  BY <1>6, ReconcileOrderKeeps, MarkRejectedKeeps DEF AskBroker
<1>7. CASE \E r \in Requests : ArriveLate(r[1], r[2])
  BY <1>1, <1>7, ArriveLateKeeps
<1>8. CASE Restart
  BY <1>8, RestartKeeps
<1>9. CASE UNCHANGED vars
  BY <1>9
  DEF vars, manager, broker, IInv, TypeOK, SeenIsFilled, AtMostOneFill, CallOK, RecordsOK,
      FilledOrders, AnswersOK, IsFillOf
<1> QED
  BY <1>2, <1>3, <1>4, <1>5, <1>6, <1>7, <1>8, <1>9 DEF Next

LEMMA Invariance == Spec => []IInv
  BY InitIInv, NextIInv, PTL DEF Spec
-----------------------------------------------------------------------------
(* The theorems. *)

(* Every variable keeps its type.                                          *)
THEOREM TypeCorrect == Spec => []TypeOK
<1>1. IInv => TypeOK
  BY DEF IInv
<1> QED
  BY <1>1, Invariance, PTL

(* However an id is submitted, retried, re-sent by a new process or        *)
(* delivered late, the broker executes it at most once.                    *)
THEOREM ExecutedOnce == Spec => []AtMostOneFill
<1>1. IInv => AtMostOneFill
  BY DEF IInv
<1> QED
  BY <1>1, Invariance, PTL

(* All the callers that got a fill for an id got the same one, across      *)
(* retries, reconciliations and restarts (guarantee 1 of OrderManager).    *)
THEOREM SameFill == Spec => []SameFillReturned
<1>1. IInv => SameFillReturned
  BY DEF IInv, AnswersOK, IsFillOf, AtMostOneFill, SameFillReturned
<1> QED
  BY <1>1, Invariance, PTL

(* A FILLED record carries the broker's fill of its order.                 *)
THEOREM FilledIsReal == Spec => []FilledIsExecuted
<1>1. IInv => FilledIsExecuted
  BY DEF IInv, RecordsOK, IsFillOf, FilledIsExecuted
<1> QED
  BY <1>1, Invariance, PTL

(* While the process lives, a FILLED order stays FILLED with its fill,     *)
(* whatever is submitted, answered or reconciled.                          *)
THEOREM FilledIsFinal == Spec => FilledForGood
<1>1. IInv /\ [Next]_vars => [FilledStays]_vars
  <2> SUFFICES ASSUME IInv, [Next]_vars, NEW i \in FilledOrders, i \in DOMAIN orders'
               PROVE  orders'[i].status = "FILLED" /\ orders'[i].fill = orders[i].fill
    BY DEF FilledStays
  <2>1. i \in DOMAIN orders /\ orders[i].status = "FILLED" /\ i \in Ids
    BY DEF FilledOrders, IInv, TypeOK
  <2>2. call # NoCall => call.id # i /\ call.id \in DOMAIN orders
    BY <2>1, CallHasRecord
  <2>3. orders[i] \in OrderRecord
    BY <2>1 DEF IInv, TypeOK
  <2>4. IsFillOf(orders[i].fill, i) /\ i \in seen_order_ids
    BY <2>1 DEF IInv, RecordsOK, SeenIsFilled, IsFillOf
  <2>5. \A r \in Requests : r[1] \in Ids /\ r[2] \in Orders
    BY RequestsAssumption
  <2>6. CASE \E r \in Requests : Submit(r[1], r[2]) \/ SubmitKnown(r[1], r[2])
    <3>1. PICK r \in Requests : Submit(r[1], r[2]) \/ SubmitKnown(r[1], r[2])
      BY <2>6
    <3>2. CASE Submit(r[1], r[2])
      <4>1. r[1] # i
        BY <3>2, <2>1 DEF Submit, PendingOrders, Settled
      <4>2. orders' = orders \/ orders' = Put(orders, r[1], NewRecord(r[2]))
        BY <3>2 DEF Submit, Track
      <4> QED
        BY <4>1, <4>2, <2>1 DEF Put
    <3>3. CASE SubmitKnown(r[1], r[2])
      BY <3>3, <2>1 DEF SubmitKnown, manager
    <3> QED
      BY <3>1, <3>2, <3>3
  <2>7. CASE StartAttempt
    BY <2>7, <2>1, <2>2 DEF StartAttempt, SetStatus
  <2>8. CASE BrokerAnswers
    BY <2>8, <2>1
    DEF BrokerAnswers, BrokerFills, BrokerRejects, BrokerTimesOut, BrokerDisconnects
  <2>9. CASE HandleAnswer
    BY <2>9, <2>1, <2>2
    DEF HandleAnswer, HandleFill, HandleTimeout, HandleRejected, HandleDisconnected, Got,
        SetStatus
  <2>10. CASE \E j \in Ids : AskBroker(j)
    <3>1. PICK j \in Ids : AskBroker(j)
      BY <2>10
    <3>2. CASE ReconcileOrder(j, GetOrder(j))
      <4>1. IsFillOf(GetOrder(i), i)
        BY <2>1, <2>4, GetOrderFinds DEF IInv
      <4>2. GetOrder(i) = orders[i].fill
        BY <2>4, <4>1 DEF IInv, AtMostOneFill, IsFillOf
      <4>3. orders' = Put(orders, j, ReconciledRecord(j, GetOrder(j)))
        BY <3>2 DEF ReconcileOrder
      <4>4. CASE j = i
        BY <2>1, <2>3, <4>2, <4>3, <4>4 DEF Put, ReconciledRecord, OrderRecord
      <4>5. CASE j # i
        BY <2>1, <4>3, <4>5 DEF Put
      <4> QED
        BY <4>4, <4>5
    <3>3. CASE GetOrder(j) = 0 /\ MarkRejected(j)
      <4>1. j # i
        BY <3>3, <2>1, <2>4, GetOrderFinds DEF IInv, IsFillOf, TypeOK
      <4> QED
        BY <3>3, <4>1, <2>1 DEF MarkRejected, SetStatus
    <3> QED
      BY <3>1, <3>2, <3>3 DEF AskBroker
  <2>11. CASE \E r \in Requests : ArriveLate(r[1], r[2])
    BY <2>11, <2>1 DEF ArriveLate, manager
  <2>12. CASE Restart
    BY <2>12 DEF Restart
  <2>13. CASE UNCHANGED vars
    BY <2>13, <2>1 DEF vars, manager
  <2> QED
    BY <2>6, <2>7, <2>8, <2>9, <2>10, <2>11, <2>12, <2>13 DEF Next
<1> QED
  BY <1>1, Invariance, PTL DEF Spec, FilledForGood
-----------------------------------------------------------------------------
(* While the process that recorded an order lives, everything that is on   *)
(* its way under the order's id - the call, the requests it gave up on,    *)
(* the broker's fill - is for the recorded order.                          *)

RecordedAs(i, o) == i \in DOMAIN orders /\ orders[i].order = o

FillsRecorded == \A k \in DOMAIN fills : RecordedAs(fills[k].order_id, fills[k].order)

InflightRecorded == \A i \in Ids, o \in Orders : <<i, o>> \in inflight => RecordedAs(i, o)

CallRecorded == call # NoCall => call.order = orders[call.id].order

Recorded ==
    restarts = 0 => FillsRecorded /\ InflightRecorded /\ CallRecorded /\ FillIsForTheOrder

(* No step of a living process changes what an id was recorded for.        *)
RecordsStay == \A i \in DOMAIN orders : i \in DOMAIN orders' /\ orders'[i].order = orders[i].order

LEMMA RecordsStaySteps ==
    ASSUME IInv, Next
    PROVE  RecordsStay \/ Restart
<1>1. \A r \in Requests : r[1] \in Ids /\ r[2] \in Orders
  BY RequestsAssumption
<1>2. ASSUME NEW r \in Requests, Submit(r[1], r[2])
      PROVE  RecordsStay
  BY <1>2 DEF Submit, Track, Put, RecordsStay
<1>3. CASE \E r \in Requests : SubmitKnown(r[1], r[2]) \/ ArriveLate(r[1], r[2])
  BY <1>3 DEF SubmitKnown, ArriveLate, manager, RecordsStay
<1>4. CASE BrokerAnswers
  BY <1>4 DEF BrokerAnswers, BrokerFills, BrokerRejects, BrokerTimesOut, BrokerDisconnects, RecordsStay
<1>5. CASE StartAttempt
  BY <1>5, CallHasRecord DEF StartAttempt, SetStatus, RecordsStay, OrderRecord, IInv, TypeOK
<1>6. CASE HandleAnswer
  <2>1. call # NoCall /\ \A i \in DOMAIN orders : orders[i] \in OrderRecord
    BY <1>6
    DEF HandleAnswer, HandleFill, HandleTimeout, HandleRejected, HandleDisconnected, Got, IInv, TypeOK
  <2>2. CASE HandleFill
    BY <2>1, <2>2 DEF HandleFill, RecordsStay, OrderRecord
  <2>3. ASSUME NEW status, SetStatus(call.id, status)
        PROVE  RecordsStay
    BY <2>1, <2>3 DEF SetStatus, RecordsStay, OrderRecord
  <2> QED
    BY <1>6, <2>2, <2>3 DEF HandleAnswer, HandleTimeout, HandleRejected, HandleDisconnected
<1>7. ASSUME NEW i \in Ids, NEW k, ReconcileOrder(i, k)
      PROVE  RecordsStay
  <2>1. orders' = Put(orders, i, ReconciledRecord(i, k))
    BY <1>7 DEF ReconcileOrder
  <2>2. i \in DOMAIN orders => ReconciledRecord(i, k).order = orders[i].order
    BY DEF ReconciledRecord, OrderRecord, IInv, TypeOK
  <2> QED
    BY <2>1, <2>2 DEF Put, RecordsStay
<1>8. ASSUME NEW i \in Ids, MarkRejected(i)
      PROVE  RecordsStay
  BY <1>8 DEF MarkRejected, SetStatus, RecordsStay, OrderRecord, IInv, TypeOK
<1> QED
  BY <1>2, <1>3, <1>4, <1>5, <1>6, <1>7, <1>8 DEF Next, AskBroker

(* A request the broker takes brings at most the fill of its own order.    *)
LEMMA TakeRecords ==
    ASSUME IInv, NEW i \in Ids, NEW o \in Orders, Take(i, o),
           RecordedAs(i, o), FillsRecorded, RecordsStay
    PROVE  /\ FillsRecorded'
           /\ \A k \in DOMAIN fills : k \in DOMAIN fills' /\ fills'[k] = fills[k]
<1>1. CASE UNCHANGED fills
  BY <1>1 DEF FillsRecorded, RecordedAs, RecordsStay
<1>2. CASE Execute(i, o)
  <2> DEFINE n == Len(fills) + 1
             f == [order_id |-> i, order |-> o]
  <2>1. fills' = Append(fills, f) /\ fills \in Seq(Fill) /\ f \in Fill
    BY <1>2 DEF Execute, IInv, TypeOK, Fill
  <2>2. /\ DOMAIN fills' = DOMAIN fills \cup {n}
        /\ fills'[n].order_id = i /\ fills'[n].order = o
        /\ \A k \in DOMAIN fills : fills'[k] = fills[k]
    BY <2>1
  <2> QED
    BY <2>2 DEF FillsRecorded, RecordedAs, RecordsStay
<1> QED
  BY <1>1, <1>2 DEF Take, broker

LEMMA RecordedKeeps == IInv /\ IInv' /\ Recorded /\ [Next]_vars => Recorded'
<1> SUFFICES ASSUME IInv, IInv', Recorded, [Next]_vars, restarts' = 0
             PROVE  FillsRecorded' /\ InflightRecorded' /\ CallRecorded' /\ FillIsForTheOrder'
  BY DEF Recorded
<1>1. CASE UNCHANGED vars
  BY <1>1
  DEF vars, manager, broker, Recorded, FillsRecorded, InflightRecorded, CallRecorded, RecordedAs,
      FillIsForTheOrder
<1>2. CASE Next
  <2>1. ~ Restart /\ restarts = 0
    <3>1. restarts \in Nat
      BY BoundsAssumption DEF IInv, TypeOK
    <3>2. ~ Restart
      BY <3>1 DEF Restart
    <3> QED
      BY <1>2, <3>2
      DEF Next, Submit, SubmitKnown, StartAttempt, BrokerAnswers, BrokerFills, BrokerRejects,
          BrokerTimesOut, BrokerDisconnects, HandleAnswer, HandleFill, HandleTimeout,
          HandleRejected, HandleDisconnected, AskBroker, ReconcileOrder, MarkRejected, ArriveLate
  <2>2. RecordsStay
    BY <1>2, <2>1, RecordsStaySteps
  <2>3. FillsRecorded /\ InflightRecorded /\ CallRecorded /\ FillIsForTheOrder
    BY <2>1 DEF Recorded
  <2>4. \A r \in Requests : r[1] \in Ids /\ r[2] \in Orders
    BY RequestsAssumption
  (* The broker: a new fill is of the order sent, or of one in flight. *)
  <2>5. /\ FillsRecorded'
        /\ \A k \in DOMAIN fills : k \in DOMAIN fills' /\ fills'[k] = fills[k]
    <3>1. CASE UNCHANGED fills
      BY <2>2, <2>3, <3>1 DEF FillsRecorded, RecordedAs, RecordsStay
    <3>2. CASE BrokerFills
      <4>1. call.id \in Ids /\ SentOrder \in Orders /\ RecordedAs(call.id, SentOrder)
        BY <3>2, CallHasRecord DEF BrokerFills, Sent, SentOrder, RecordedAs
      <4> QED
        BY <2>2, <2>3, <3>2, <4>1, TakeRecords DEF BrokerFills
    <3>3. ASSUME NEW r \in Requests, ArriveLate(r[1], r[2])
          PROVE  /\ FillsRecorded'
                 /\ \A k \in DOMAIN fills : k \in DOMAIN fills' /\ fills'[k] = fills[k]
      <4>1. RecordedAs(r[1], r[2])
        BY <2>3, <2>4, <3>3 DEF ArriveLate, InflightRecorded
      <4> QED
        BY <2>2, <2>3, <2>4, <3>3, <4>1, TakeRecords DEF ArriveLate
    <3> QED
      BY <1>2, <2>1, <3>1, <3>2, <3>3
      DEF Next, Submit, SubmitKnown, StartAttempt, BrokerAnswers, BrokerRejects, broker,
          BrokerTimesOut, BrokerDisconnects, HandleAnswer, HandleFill, HandleTimeout,
          HandleRejected, HandleDisconnected, AskBroker, ReconcileOrder, MarkRejected
  (* What is in flight was sent by the call. *)
  <2>6. InflightRecorded'
    <3>1. CASE inflight' \subseteq inflight
      BY <2>2, <2>3, <3>1 DEF InflightRecorded, RecordedAs, RecordsStay
    <3>2. CASE BrokerTimesOut
      <4>1. RecordedAs(call.id, SentOrder)
        BY <3>2, CallHasRecord DEF BrokerTimesOut, Sent, SentOrder, RecordedAs
      <4>2. inflight' \subseteq inflight \cup {<<call.id, SentOrder>>}
        BY <3>2 DEF BrokerTimesOut, GiveUp
      <4> QED
        BY <2>2, <2>3, <4>1, <4>2 DEF InflightRecorded, RecordedAs, RecordsStay
    <3> QED
      BY <1>2, <2>1, <3>1, <3>2
      DEF Next, Submit, SubmitKnown, StartAttempt, BrokerAnswers, BrokerFills, BrokerRejects,
          BrokerDisconnects, HandleAnswer, HandleFill, HandleTimeout, HandleRejected,
          HandleDisconnected, AskBroker, ReconcileOrder, MarkRejected, ArriveLate
  (* A call begins with the order recorded. *)
  <2>7. CallRecorded'
    <3>1. ASSUME NEW r \in Requests, Submit(r[1], r[2])
          PROVE  CallRecorded'
      <4>1. call'.id = r[1] /\ call'.order = r[2]
        BY <3>1 DEF Submit
      <4>2. orders'[r[1]].order = r[2]
        BY <3>1 DEF Submit, Track, Conflict, Put, NewRecord
      <4> QED
        BY <4>1, <4>2 DEF CallRecorded
    <3>2. CASE call' = NoCall
      BY <3>2 DEF CallRecorded
    <3>3. CASE call # NoCall /\ call' # NoCall /\ call'.id = call.id /\ call'.order = call.order
      BY <2>2, <2>3, <3>3, CallHasRecord DEF CallRecorded, RecordsStay
    <3>4. CASE StartAttempt \/ BrokerAnswers \/ HandleTimeout
      <4>1. call # NoCall /\ call \in Call
        BY <3>4, CallHasRecord
        DEF StartAttempt, BrokerAnswers, BrokerFills, BrokerRejects, BrokerTimesOut,
            BrokerDisconnects, HandleTimeout, Got, Sent
      <4>2. call' = NoCall \/ (call'.id = call.id /\ call'.order = call.order)
        BY <3>4, <4>1
        DEF StartAttempt, BrokerAnswers, BrokerFills, BrokerRejects, BrokerTimesOut,
            BrokerDisconnects, HandleTimeout, Reply, Call
      <4> QED
        BY <3>2, <3>3, <4>1, <4>2
    <3>5. CASE call' = call
      BY <3>2, <3>3, <3>5
    <3> QED
      BY <1>2, <2>1, <3>1, <3>2, <3>4, <3>5
      DEF Next, SubmitKnown, HandleAnswer, HandleFill, HandleRejected, HandleDisconnected,
          AskBroker, ReconcileOrder, MarkRejected, ArriveLate, manager
  (* A caller is answered with the fill recorded, or with the call's. *)
  <2>8. FillIsForTheOrder'
    <3>1. ASSUME NEW a \in answers
          PROVE  fills'[a.fill].order = a.order
      <4>1. a.fill \in DOMAIN fills
        BY DEF IInv, AnswersOK, IsFillOf
      <4> QED
        BY <2>1, <2>3, <2>5, <4>1 DEF FillIsForTheOrder
    <3>2. CASE UNCHANGED answers
      BY <3>1, <3>2 DEF FillIsForTheOrder
    <3>3. ASSUME NEW i \in Ids, NEW o \in Orders, NEW k, IsFillOf(k, i), RecordedAs(i, o),
                 answers' = answers \cup {[id |-> i, order |-> o, fill |-> k]}
          PROVE  FillIsForTheOrder'
      <4>1. fills'[k].order = o
        BY <2>3, <2>5, <3>3 DEF FillsRecorded, IsFillOf, RecordedAs
      <4> QED
        BY <3>1, <3>3, <4>1 DEF FillIsForTheOrder
    <3>4. ASSUME NEW r \in Requests, SubmitKnown(r[1], r[2])
          PROVE  FillIsForTheOrder'
      <4>1. IsFillOf(orders[r[1]].fill, r[1]) /\ RecordedAs(r[1], r[2])
        BY <3>4 DEF SubmitKnown, Conflict, FilledOrders, RecordedAs, IInv, RecordsOK
      <4> QED
        BY <2>4, <3>3, <3>4, <4>1 DEF SubmitKnown
    <3>5. CASE HandleFill
      <4>1. /\ call.id \in Ids /\ call.order \in Orders
            /\ IsFillOf(call.fill, call.id) /\ RecordedAs(call.id, call.order)
        BY <2>3, <3>5, CallHasRecord DEF HandleFill, Got, IInv, CallOK, Call, CallRecorded, RecordedAs
      <4> QED
        BY <3>3, <3>5, <4>1 DEF HandleFill
    <3> QED
      BY <1>2, <2>1, <3>2, <3>4, <3>5
      DEF Next, Submit, StartAttempt, BrokerAnswers, BrokerFills, BrokerRejects,
          BrokerTimesOut, BrokerDisconnects, HandleAnswer, HandleTimeout,
          HandleRejected, HandleDisconnected, AskBroker, ReconcileOrder, MarkRejected, ArriveLate
  <2> QED
    BY <2>5, <2>6, <2>7, <2>8
<1> QED
  BY <1>1, <1>2

(* For any ids, orders and attempts, with a broker that loses and delays:  *)
(* until the process dies, a caller is given a fill only of the order it   *)
(* asked for, however ids are reused.                                      *)
THEOREM FillOfTheOrderAsked == Spec => []FillIsForTheOrder
<1>1. Init => Recorded
  BY DEF Init, Recorded, FillsRecorded, InflightRecorded, CallRecorded, FillIsForTheOrder
<1>2. Recorded => FillIsForTheOrder
  BY DEF Recorded, FillIsForTheOrder
<1> QED
  BY <1>1, <1>2, Invariance, RecordedKeeps, PTL DEF Spec
-----------------------------------------------------------------------------
(* Sums of integers over finite sets.  SumFunction takes the elements in   *)
(* an order the definition leaves open: the lemmas show that the order     *)
(* makes no difference.                                                    *)

Pick(s) == CHOOSE x \in s : TRUE

PartialSum(f, h, s) == IF s = {} THEN 0 ELSE f[Pick(s)] + h[s \ {Pick(s)}]

Sums(f, h) == h = [s \in SUBSET DOMAIN f |-> PartialSum(f, h, s)]

LEMMA PickIn == ASSUME NEW s, s # {} PROVE Pick(s) \in s
  BY DEF Pick

(* Among the finite sets of some kind, one has no smaller one of the kind.  *)
LEMMA SmallestSet ==
    ASSUME NEW S, IsFiniteSet(S), NEW Bad \in SUBSET SUBSET S, Bad # {}
    PROVE  \E s \in Bad : \A x \in s : s \ {x} \notin Bad
<1>1. SUBSET S = FiniteSubsetsOf(S)
  BY FS_FiniteSubsetsOfFinite, Zenon
<1>2. PICK s \in Bad : \A r \in Bad : ~ (<<r, s>> \in StrictSubsetOrdering(S))
  <2>. DEFINE O == StrictSubsetOrdering(S)
              F == FiniteSubsetsOf(S)
  <2>1. IsWellFoundedOn(O, F)
    BY FS_StrictSubsetOrderingWellFounded, Zenon
  <2>2. Bad \subseteq F
    BY <1>1
  <2>. HIDE DEF O, F
  <2>3. \E s \in Bad : \A r \in Bad : ~ (<<r, s>> \in O)
    BY <2>1, <2>2, WFMin, Zenon
  <2>. QED
    BY <2>3 DEF O
<1>3. ASSUME NEW x \in s, s \ {x} \in Bad
      PROVE  FALSE
  <2>1. <<s \ {x}, s>> \in StrictSubsetOrdering(S)
    BY <1>3 DEF StrictSubsetOrdering
  <2>. QED
    BY <1>2, <1>3, <2>1
<1>. QED
  BY <1>2, <1>3

(* The sum of a finite family of integers exists.                          *)
LEMMA SumsExist ==
    ASSUME NEW S, IsFiniteSet(S), NEW f \in [S -> Int]
    PROVE  \E h : Sums(f, h)
<1>. DEFINE UpTo(n, h) == \A s \in SUBSET S : Cardinality(s) <= n => h[s] = PartialSum(f, h, s)
            Bad == {n \in Nat : ~ \E h \in [SUBSET S -> Int] : UpTo(n, h)}
<1>0. /\ Cardinality(S) \in Nat
      /\ \A s \in SUBSET S : IsFiniteSet(s) /\ Cardinality(s) \in Nat /\ Cardinality(s) <= Cardinality(S)
  BY FS_CardinalityType, FS_Subset
<1>1. 0 \notin Bad
  <2>. DEFINE h == [s \in SUBSET S |-> 0]
  <2>1. ASSUME NEW s \in SUBSET S, Cardinality(s) <= 0
        PROVE  s = {}
    <3>. HIDE DEF Bad, h
    <3>1. IsFiniteSet(s) /\ Cardinality(s) = 0
      BY <2>1, <1>0
    <3>. QED
      BY <3>1, FS_EmptySet
  <2>2. h \in [SUBSET S -> Int] /\ UpTo(0, h)
    BY <2>1 DEF PartialSum
  <2>. HIDE DEF h, UpTo
  <2>. QED
    BY <2>2
<1>2. ASSUME NEW n \in Nat, n \notin Bad
      PROVE  n + 1 \notin Bad
  <2>1. PICK h \in [SUBSET S -> Int] : UpTo(n, h)
    BY <1>2
  <2>. DEFINE g == [s \in SUBSET S |-> PartialSum(f, h, s)]
  <2>2. g \in [SUBSET S -> Int]
    BY PickIn DEF PartialSum
  <2>3. UpTo(n + 1, g)
    <3>1. SUFFICES ASSUME NEW s \in SUBSET S, Cardinality(s) <= n + 1
                   PROVE  g[s] = PartialSum(f, g, s)
      OBVIOUS
    <3>2. CASE s = {}
      BY <3>2 DEF PartialSum
    <3>3. CASE s # {}
      <4>. DEFINE x == Pick(s)
      <4>1. x \in s
        BY <3>3, PickIn
      <4>. HIDE DEF x
      <4>2. Cardinality(s \ {x}) = Cardinality(s) - 1 /\ s \ {x} \in SUBSET S
        BY <1>0, <4>1, FS_RemoveElement
      <4>3. Cardinality(s \ {x}) <= n
        BY <1>0, <3>1, <4>2
      <4>4. h[s \ {x}] = g[s \ {x}]
        BY <2>1, <4>2, <4>3
      <4>5. g[s] = f[x] + h[s \ {x}] /\ PartialSum(f, g, s) = f[x] + g[s \ {x}]
        BY <3>3 DEF PartialSum, x
      <4>. QED
        BY <4>4, <4>5
    <3>. QED
      BY <3>2, <3>3
  <2>. HIDE DEF g, UpTo
  <2>. QED
    BY <2>2, <2>3
<1>3. Bad = {}
  <2>. SUFFICES ASSUME Bad # {} PROVE FALSE
    OBVIOUS
  <2>1. PICK n \in Bad : \A m \in Bad : ~ (<<m, n>> \in OpToRel(<, Nat))
    <3>. HIDE DEF Bad
    <3>1. Bad \subseteq Nat
      BY DEF Bad
    <3>. QED
      BY <3>1, NatLessThanWellFounded, WFMin, Zenon
  <2>2. n \in Nat /\ n # 0
    BY <1>1
  <2>3. n - 1 \in Nat /\ (n - 1) + 1 = n
    BY <2>2
  <2>4. n - 1 \in Bad
    <3>. HIDE DEF Bad
    <3>. QED
      BY <1>2, <2>3
  <2>5. <<n - 1, n>> \in OpToRel(<, Nat)
    BY <2>2, <2>3 DEF OpToRel
  <2>. QED
    BY <2>1, <2>4, <2>5
<1>4. PICK h \in [SUBSET S -> Int] : UpTo(Cardinality(S), h)
  BY <1>0, <1>3
<1>5. h = [s \in SUBSET DOMAIN f |-> PartialSum(f, h, s)]
  BY <1>0, <1>4
<1>. QED
  BY <1>5 DEF Sums

(* Partial sums are integers and take the elements in any order.           *)
AnyOrder(S, f, h) ==
    /\ h \in [SUBSET S -> Int]
    /\ h[{}] = 0
    /\ \A s \in SUBSET S : \A y \in s : h[s] = f[y] + h[s \ {y}]

LEMMA SumsFacts ==
    ASSUME NEW S, IsFiniteSet(S), NEW f \in [S -> Int], NEW h, Sums(f, h)
    PROVE  AnyOrder(S, f, h)
<1>1. /\ h[{}] = 0
      /\ \A s \in SUBSET S : s # {} => Pick(s) \in s /\ h[s] = f[Pick(s)] + h[s \ {Pick(s)}]
  BY PickIn DEF Sums, PartialSum
<1>2. \A s \in SUBSET S : h[s] \in Int
  <2>. DEFINE Bad == {s \in SUBSET S : h[s] \notin Int}
  <2>. SUFFICES ASSUME Bad # {} PROVE FALSE
    OBVIOUS
  <2>1. PICK s \in Bad : \A x \in s : s \ {x} \notin Bad
    BY SmallestSet
  <2>2. s # {}
    <3>1. h[{}] \in Int
      BY <1>1
    <3>. QED
      BY <3>1
  <2>. DEFINE x == Pick(s)
  <2>3. x \in s /\ h[s] = f[x] + h[s \ {x}]
    BY <1>1, <2>2
  <2>. HIDE DEF x
  <2>4. h[s \ {x}] \in Int /\ f[x] \in Int
    BY <2>1, <2>3
  <2>5. h[s] \in Int
    BY <2>3, <2>4
  <2>. QED
    BY <2>5
<1>3. h \in [SUBSET S -> Int]
  BY <1>2 DEF Sums
<1>4. \A s \in SUBSET S : \A y \in s : h[s] = f[y] + h[s \ {y}]
  <2>. DEFINE Bad == {s \in SUBSET S : \E y \in s : h[s] # f[y] + h[s \ {y}]}
  <2>. SUFFICES ASSUME Bad # {} PROVE FALSE
    OBVIOUS
  <2>1. PICK s \in Bad : \A x \in s : s \ {x} \notin Bad
    BY SmallestSet
  <2>2. PICK y \in s : h[s] # f[y] + h[s \ {y}]
    OBVIOUS
  <2>. DEFINE x == Pick(s)
  <2>3. x \in s /\ h[s] = f[x] + h[s \ {x}]
    BY <1>1
  <2>. HIDE DEF x
  <2>4. x # y
    BY <2>2, <2>3
  <2>5. h[s \ {x}] = f[y] + h[(s \ {x}) \ {y}]
    BY <2>1, <2>3, <2>4
  <2>6. h[s \ {y}] = f[x] + h[(s \ {y}) \ {x}]
    BY <2>1, <2>3, <2>4
  <2>7. (s \ {x}) \ {y} = (s \ {y}) \ {x}
    OBVIOUS
  <2>8. f[x] \in Int /\ f[y] \in Int /\ h[(s \ {x}) \ {y}] \in Int
    BY <1>2, <2>3
  <2>9. h[s] = f[y] + h[s \ {y}]
    <3>1. f[x] + (f[y] + h[(s \ {x}) \ {y}]) = f[y] + (f[x] + h[(s \ {x}) \ {y}])
      BY <2>8
    <3>2. h[s] = f[x] + (f[y] + h[(s \ {x}) \ {y}])
      BY <2>3, <2>5, Zenon
    <3>3. f[y] + h[s \ {y}] = f[y] + (f[x] + h[(s \ {x}) \ {y}])
      BY <2>6, <2>7, Zenon
    <3>. QED
      BY <3>1, <3>2, <3>3, Zenon
  <2>. QED
    BY <2>2, <2>9
<1>. QED
  BY <1>1, <1>3, <1>4 DEF AnyOrder

LEMMA SumIsLast ==
    ASSUME NEW S, IsFiniteSet(S), NEW f \in [S -> Int]
    PROVE  \E h : Sums(f, h) /\ SumFunction(f) = h[S]
<1>. DEFINE it == CHOOSE h : Sums(f, h)
<1>1. Sums(f, it)
  BY SumsExist
<1>2. SumFunction(f) = it[DOMAIN f]
  BY DEFS SumFunction, SumFunctionOnSet, FoldFunctionOnSet, MapThenFoldSet, Sums, PartialSum, Pick
<1>. QED
  BY <1>1, <1>2

(* Families that agree have the same partial sums.                         *)
LEMMA SumsAgree ==
    ASSUME NEW S, IsFiniteSet(S), NEW f \in [S -> Int], NEW h, Sums(f, h),
           NEW R \in SUBSET S, NEW g \in [R -> Int], NEW k, Sums(g, k),
           \A i \in R : g[i] = f[i]
    PROVE  k[R] = h[R]
<1>. DEFINE Bad == {s \in SUBSET R : k[s] # h[s]}
<1>1. IsFiniteSet(R)
  BY FS_Subset
<1>. SUFFICES ASSUME Bad # {} PROVE FALSE
  OBVIOUS
<1>2. PICK s \in Bad : \A x \in s : s \ {x} \notin Bad
  BY <1>1, SmallestSet
<1>3. /\ h[{}] = 0 /\ k[{}] = 0
      /\ \A r \in SUBSET R : \A y \in r : h[r] = f[y] + h[r \ {y}] /\ k[r] = g[y] + k[r \ {y}]
  <2>1. AnyOrder(S, f, h)
    BY SumsFacts
  <2>2. AnyOrder(R, g, k)
    BY <1>1, SumsFacts
  <2>. QED
    BY <2>1, <2>2 DEF AnyOrder
<1>4. PICK x \in s : TRUE
  BY <1>3
<1>5. k[s \ {x}] = h[s \ {x}]
  BY <1>2
<1>. QED
  BY <1>3, <1>4, <1>5

(* The sum of nothing is zero; one more element adds its value.            *)
LEMMA SumOfNone ==
    ASSUME NEW f \in [{} -> Int]
    PROVE  SumFunction(f) = 0
<1>1. IsFiniteSet({})
  BY FS_EmptySet
<1>2. PICK h : Sums(f, h) /\ SumFunction(f) = h[{}]
  BY <1>1, SumIsLast, Zenon
<1>3. AnyOrder({}, f, h)
  BY <1>1, <1>2, SumsFacts
<1>. QED
  BY <1>2, <1>3 DEF AnyOrder

LEMMA SumOfOneMore ==
    ASSUME NEW S, IsFiniteSet(S), NEW x, x \notin S,
           NEW f \in [S \cup {x} -> Int], NEW g \in [S -> Int], \A i \in S : g[i] = f[i]
    PROVE  SumFunction(f) = SumFunction(g) + f[x]
<1>1. IsFiniteSet(S \cup {x})
  BY FS_AddElement
<1>2. PICK h : Sums(f, h) /\ SumFunction(f) = h[S \cup {x}]
  BY <1>1, SumIsLast
<1>3. PICK k : Sums(g, k) /\ SumFunction(g) = k[S]
  BY SumIsLast
<1>4. k[S] = h[S]
  BY <1>1, <1>2, <1>3, SumsAgree
<1>5. AnyOrder(S \cup {x}, f, h)
  BY <1>1, <1>2, SumsFacts
<1>6. h[S \cup {x}] = f[x] + h[(S \cup {x}) \ {x}] /\ (S \cup {x}) \ {x} = S
  BY <1>5 DEF AnyOrder
<1>7. h[S] \in Int /\ f[x] \in Int
  BY <1>5 DEF AnyOrder
<1>8. f[x] + h[S] = h[S] + f[x]
  BY <1>7
<1>. QED
  BY <1>2, <1>3, <1>4, <1>6, <1>8, Zenon
-----------------------------------------------------------------------------
(* The records and the broker's positions. *)

(* The broker's positions are what its fills add up to.                    *)
Executed(s) == {i \in seen_order_ids : fills[GetOrder(i)].order.instrument = s}

ExecutedQty(i) == SignedQty(fills[GetOrder(i)].order)

PositionsAddUp ==
    /\ IsFiniteSet(seen_order_ids)
    /\ \A s \in Instruments :
           positions[s] = SumFunction([i \in Executed(s) |-> ExecutedQty(i)])

(* What was executed under an id, told by its fill.                        *)
LEMMA ExecutedAs ==
    ASSUME IInv, NEW i, NEW k, IsFillOf(k, i)
    PROVE  i \in seen_order_ids /\ GetOrder(i) = k
<1>1. i \in seen_order_ids
  BY DEF IsFillOf, IInv, SeenIsFilled
<1>2. \A j : IsFillOf(j, i) => j = k
  BY DEF IsFillOf, IInv, AtMostOneFill
<1>3. GetOrder(i) = CHOOSE j \in DOMAIN fills : fills[j].order_id = i
  BY <1>1 DEF GetOrder
<1>. QED
  BY <1>1, <1>2, <1>3 DEF IsFillOf

LEMMA ExecutedIsFill ==
    ASSUME IInv, NEW i \in seen_order_ids
    PROVE  /\ i \in Ids
           /\ IsFillOf(GetOrder(i), i)
           /\ fills[GetOrder(i)].order \in Orders
           /\ fills[GetOrder(i)].order.instrument \in Instruments
           /\ ExecutedQty(i) \in Int
<1>1. i \in Ids /\ IsFillOf(GetOrder(i), i)
  BY GetOrderFinds DEF IInv, TypeOK
<1>2. fills[GetOrder(i)] \in Fill
  BY <1>1 DEF IsFillOf, IInv, TypeOK
<1>3. fills[GetOrder(i)].order \in Orders
  BY <1>2 DEF Fill
<1>. QED
  BY <1>1, <1>3, OrdersAssumption DEF ExecutedQty, SignedQty

(* Taking an order moves the position of its instrument by its quantity,   *)
(* once.                                                                   *)
LEMMA TakeAddsUp ==
    ASSUME IInv, IInv', PositionsAddUp, NEW i \in Ids, NEW o \in Orders, Take(i, o)
    PROVE  PositionsAddUp'
<1>1. CASE UNCHANGED broker
  BY <1>1 DEF broker, PositionsAddUp, Executed, ExecutedQty, GetOrder
<1>2. CASE i \notin seen_order_ids /\ Execute(i, o)
  <2>. DEFINE n == Len(fills) + 1
              f == [order_id |-> i, order |-> o]
  <2>1. /\ seen_order_ids' = seen_order_ids \cup {i}
        /\ positions' = [positions EXCEPT ![o.instrument] = @ + SignedQty(o)]
        /\ fills' = Append(fills, f) /\ fills \in Seq(Fill) /\ f \in Fill
    BY <1>2 DEF Execute, IInv, TypeOK, Fill
  <2>2. /\ DOMAIN fills' = DOMAIN fills \cup {n}
        /\ fills'[n] = f
        /\ \A k \in DOMAIN fills : fills'[k] = fills[k]
    BY <2>1
  <2>3. \A k, j : IsFillOf(k, j)' => GetOrder(j)' = k
    <3>1. SUFFICES ASSUME NEW k, NEW j, IsFillOf(k, j)'
                   PROVE  GetOrder(j)' = k
      OBVIOUS
    <3>2. j \in seen_order_ids'
      BY <3>1 DEF IsFillOf, IInv, SeenIsFilled
    <3>3. \A l : IsFillOf(l, j)' => l = k
      BY <3>1 DEF IsFillOf, IInv, AtMostOneFill
    <3>4. GetOrder(j)' = CHOOSE l \in DOMAIN fills' : fills'[l].order_id = j
      BY <3>2 DEF GetOrder
    <3>. QED
      BY <3>1, <3>3, <3>4 DEF IsFillOf
  <2>4. GetOrder(i)' = n /\ fills'[GetOrder(i)'] = f
    BY <2>2, <2>3 DEF IsFillOf
  <2>5. \A j \in seen_order_ids :
            /\ GetOrder(j)' = GetOrder(j)
            /\ fills'[GetOrder(j)'] = fills[GetOrder(j)]
    <3>1. ASSUME NEW j \in seen_order_ids
          PROVE  /\ GetOrder(j)' = GetOrder(j)
                 /\ fills'[GetOrder(j)'] = fills[GetOrder(j)]
      <4>1. GetOrder(j) \in DOMAIN fills /\ fills[GetOrder(j)].order_id = j
        BY ExecutedIsFill DEF IsFillOf
      <4>2. GetOrder(j) \in DOMAIN fills' /\ fills'[GetOrder(j)] = fills[GetOrder(j)]
        BY <2>2, <4>1
      <4>3. GetOrder(j)' = GetOrder(j)
        BY <2>3, <4>1, <4>2 DEF IsFillOf
      <4>. QED
        BY <4>2, <4>3
    <3>. QED
      BY <3>1
  <2>6. ExecutedQty(i)' = SignedQty(o) /\ \A j \in seen_order_ids : ExecutedQty(j)' = ExecutedQty(j)
    BY <2>4, <2>5 DEF ExecutedQty
  <2>7. IsFiniteSet(seen_order_ids)'
    BY <2>1, FS_AddElement DEF PositionsAddUp
  <2>8. ASSUME NEW s \in Instruments
        PROVE  positions'[s] = SumFunction([j \in Executed(s)' |-> ExecutedQty(j)'])
    <3>. DEFINE g == [j \in Executed(s) |-> ExecutedQty(j)]
                h == [j \in Executed(s)' |-> ExecutedQty(j)']
    <3>1. positions[s] = SumFunction(g) /\ positions[s] \in Int
      BY DEF PositionsAddUp, IInv, TypeOK
    <3>2. \A j : j \in Executed(s)' <=> j \in seen_order_ids'
                                        /\ fills'[GetOrder(j)'].order.instrument = s
      BY DEF Executed
    <3>3. \A j \in seen_order_ids : j \in Executed(s)' <=> j \in Executed(s)
      BY <2>1, <2>5, <3>2 DEF Executed
    <3>4. i \in Executed(s)' <=> s = o.instrument
      BY <2>1, <2>4, <3>2
    <3>5. Executed(s) \subseteq seen_order_ids /\ Executed(s)' \subseteq seen_order_ids \cup {i}
      BY <2>1, <3>2 DEF Executed
    <3>6. CASE s # o.instrument
      <4>1. Executed(s)' = Executed(s)
        BY <3>6, <3>3, <3>4, <3>5
      <4>2. h = g
        BY <2>6, <4>1 DEF Executed
      <4>3. positions'[s] = positions[s]
        BY <2>1, <3>6 DEF IInv, TypeOK
      <4>. QED
        BY <3>1, <4>2, <4>3
    <3>7. CASE s = o.instrument
      <4>1. Executed(s)' = Executed(s) \cup {i} /\ i \notin Executed(s)
        BY <1>2, <3>7, <3>3, <3>4, <3>5
      <4>2. IsFiniteSet(Executed(s))
        BY FS_Subset DEF PositionsAddUp, Executed
      <4>3. SignedQty(o) \in Int
        BY OrdersAssumption DEF SignedQty
      <4>4. g \in [Executed(s) -> Int]
        BY ExecutedIsFill DEF Executed
      <4>5. /\ h \in [Executed(s) \cup {i} -> Int]
            /\ \A j \in Executed(s) : g[j] = h[j]
            /\ h[i] = SignedQty(o)
        BY <2>6, <4>1, <4>3, <4>4 DEF Executed
      <4>6. SumFunction(h) = SumFunction(g) + h[i]
        <5>. HIDE DEF g, h
        <5>. QED
          BY <4>1, <4>2, <4>4, <4>5, SumOfOneMore
      <4>7. positions'[s] = positions[s] + SignedQty(o)
        BY <2>1, <3>7 DEF IInv, TypeOK
      <4>. QED
        BY <3>1, <4>5, <4>6, <4>7, Zenon
    <3>. QED
      BY <3>6, <3>7
  <2>. QED
    BY <2>7, <2>8 DEF PositionsAddUp
<1>. QED
  BY <1>1, <1>2 DEF Take

LEMMA AddUpKeeps == IInv /\ IInv' /\ PositionsAddUp /\ [Next]_vars => PositionsAddUp'
<1>. SUFFICES ASSUME IInv, IInv', PositionsAddUp, [Next]_vars
              PROVE  PositionsAddUp'
  OBVIOUS
<1>1. CASE UNCHANGED broker
  BY <1>1 DEF broker, PositionsAddUp, Executed, ExecutedQty, GetOrder
<1>2. CASE BrokerFills
  BY <1>2, CallHasRecord, TakeAddsUp DEF BrokerFills, Sent, SentOrder
<1>3. ASSUME NEW r \in Requests, ArriveLate(r[1], r[2])
      PROVE  PositionsAddUp'
  <2>1. r[1] \in Ids /\ r[2] \in Orders
    BY RequestsAssumption
  <2>. QED
    BY <1>3, <2>1, TakeAddsUp DEF ArriveLate
<1>. QED
  BY <1>1, <1>2, <1>3
  DEF Next, vars, Submit, SubmitKnown, StartAttempt, BrokerAnswers, BrokerRejects,
      BrokerTimesOut, BrokerDisconnects, HandleAnswer, HandleFill, HandleTimeout,
      HandleRejected, HandleDisconnected, AskBroker, ReconcileOrder, MarkRejected, Restart

LEMMA AddUpMatches == IInv /\ PositionsAddUp => BookMatchesBroker
<1>. SUFFICES ASSUME IInv, PositionsAddUp,
                     seen_order_ids \subseteq FilledOrders,
                     \A i \in FilledOrders : orders[i].order = fills[orders[i].fill].order
              PROVE  Matched(Book, positions, 0)
  BY DEF BookMatchesBroker
<1>1. \A i \in FilledOrders : i \in seen_order_ids /\ GetOrder(i) = orders[i].fill
  BY ExecutedAs DEF IInv, RecordsOK
<1>2. \A i \in FilledOrders : orders[i].order = fills[GetOrder(i)].order
  BY <1>1
<1>3. FilledOrders = seen_order_ids
  BY <1>1
<1>4. \A s : {i \in FilledOrders : orders[i].order.instrument = s} = Executed(s)
  BY <1>2, <1>3 DEF Executed
<1>5. Traded \subseteq Instruments
  BY <1>2, <1>3, ExecutedIsFill DEF Traded
<1>6. ASSUME NEW s \in Instruments
      PROVE  Quantity(Book, s) = positions[s]
  <2>1. CASE s \in Traded
    <3>1. Book[s] = SumFunction([i \in Executed(s) |-> SignedQty(orders[i].order)])
      BY <1>4, <2>1 DEF Book
    <3>2. [i \in Executed(s) |-> SignedQty(orders[i].order)] = [i \in Executed(s) |-> ExecutedQty(i)]
      BY <1>2, <1>3 DEF Executed, ExecutedQty
    <3>3. s \in DOMAIN Book
      BY <2>1 DEF Book
    <3>. QED
      BY <3>1, <3>2, <3>3 DEF Quantity, PositionsAddUp
  <2>2. CASE s \notin Traded
    <3>1. Executed(s) = {}
      BY <1>2, <1>3, <2>2 DEF Executed, Traded
    <3>2. SumFunction([i \in Executed(s) |-> ExecutedQty(i)]) = 0
      BY <3>1, SumOfNone
    <3>3. s \notin DOMAIN Book
      BY <2>2 DEF Book
    <3>. QED
      BY <3>2, <3>3 DEF Quantity, PositionsAddUp
  <2>. QED
    BY <2>1, <2>2
<1>7. Symbols(Book, positions) = Instruments
  BY <1>5 DEF Symbols, Book, IInv, TypeOK
<1>8. \A s \in Instruments : IsMatch(Book, positions, s, 0)
  <2>1. ASSUME NEW s \in Instruments
        PROVE  IsMatch(Book, positions, s, 0)
    <3>1. positions[s] \in Int /\ Quantity(positions, s) = positions[s]
      BY DEF IInv, TypeOK, Quantity
    <3>2. Difference(Book, positions, s) = 0
      BY <1>6, <3>1 DEF Difference
    <3>. QED
      BY <3>2 DEF IsMatch, Abs
  <2>. QED
    BY <2>1
<1>. QED
  BY <1>7, <1>8 DEF Matched, Mismatched

(* For any ids, orders and attempts, with a broker that loses and delays   *)
(* and a process that dies: whenever every executed order is FILLED in the *)
(* records as executed, reconciling the book they add up to against the    *)
(* broker's positions finds no mismatch.                                   *)
THEOREM BooksAgree == Spec => []BookMatchesBroker
<1>1. Init => PositionsAddUp
  <2>. SUFFICES ASSUME Init PROVE PositionsAddUp
    OBVIOUS
  <2>1. seen_order_ids = {} /\ \A s \in Instruments : positions[s] = 0
    BY DEF Init
  <2>2. \A s \in Instruments : Executed(s) = {}
    BY <2>1 DEF Executed
  <2>3. \A s \in Instruments : SumFunction([i \in Executed(s) |-> ExecutedQty(i)]) = 0
    BY <2>2, SumOfNone
  <2>. QED
    BY <2>1, <2>3, FS_EmptySet DEF PositionsAddUp
<1>. QED
  BY <1>1, Invariance, AddUpKeeps, AddUpMatches, PTL DEF Spec
-----------------------------------------------------------------------------
(* The order manager implements ExactlyOnce. *)

(* A broker that takes an order executes it, or ignores a duplicate.       *)
LEMMA TakeIsExecute ==
    ASSUME IInv, NEW i \in Ids, NEW o \in Orders, Take(i, o), UNCHANGED answers
    PROVE  Promise!Execute(i) \/ UNCHANGED <<Ledger, Told>>
<1>1. UNCHANGED Told
  BY DEF Told
<1>2. CASE i \in seen_order_ids
  BY <1>1, <1>2 DEF Take, broker, Ledger
<1>3. CASE i \notin seen_order_ids
  <2> DEFINE n == Len(fills) + 1
  <2>1. /\ DOMAIN fills' = DOMAIN fills \cup {n}
        /\ fills'[n].order_id = i
        /\ n \notin DOMAIN fills
        /\ \A k \in DOMAIN fills : fills'[k] = fills[k]
    <3>1. fills' = Append(fills, [order_id |-> i, order |-> o]) /\ fills \in Seq(Fill)
      BY <1>3 DEF Take, Execute, IInv, TypeOK
    <3>2. [order_id |-> i, order |-> o] \in Fill
      BY DEF Fill
    <3> QED
      BY <3>1, <3>2
  <2>2. Ledger[i] = {}
    BY <1>3 DEF Ledger, IInv, SeenIsFilled
  <2>3. Ledger'[i] = {n}
    BY <1>3, <2>1 DEF Ledger, IInv, SeenIsFilled
  <2>4. \A j \in Ids : j # i => Ledger'[j] = Ledger[j]
    BY <2>1 DEF Ledger
  <2>5. Ledger' = [Ledger EXCEPT ![i] = {n}]
    BY <2>3, <2>4 DEF Ledger
  <2> QED
    BY <1>1, <2>2, <2>3, <2>5 DEF Promise!Execute
<1> QED
  BY <1>2, <1>3

(* A caller that is answered a fill is told of the one execution.          *)
LEMMA AnswerIsTell ==
    ASSUME IInv, NEW i \in Ids, NEW o, NEW f, IsFillOf(f, i),
           answers' = answers \cup {[id |-> i, order |-> o, fill |-> f]},
           UNCHANGED fills
    PROVE  Promise!Tell(i)
<1>1. UNCHANGED Ledger
  BY DEF Ledger
<1>2. Ledger[i] = {f}
  BY DEF IInv, AtMostOneFill, IsFillOf, Ledger
<1>3. Told'[i] = {f}
  <2>1. \A a \in answers : a.id = i => a.fill = f
    BY DEF IInv, AnswersOK, AtMostOneFill, IsFillOf
  <2> DEFINE new == [id |-> i, order |-> o, fill |-> f]
  <2>2. new \in answers' /\ new.id = i /\ new.fill = f
    OBVIOUS
  <2>3. \A a \in answers' : a.id = i => a.fill = f
    BY <2>1, <2>2
  <2>4. Told'[i] = {a.fill : a \in {b \in answers' : b.id = i}}
    BY DEF Told
  <2> HIDE DEF new
  <2> QED
    BY <2>2, <2>3, <2>4
<1>4. \A j \in Ids : j # i => Told'[j] = Told[j]
  BY DEF Told
<1>5. Told' = [Told EXCEPT ![i] = {f}]
  BY <1>3, <1>4 DEF Told
<1> QED
  BY <1>1, <1>2, <1>5 DEF Promise!Tell

LEMMA Stutters ==
    ASSUME UNCHANGED <<fills, answers>>
    PROVE  UNCHANGED <<Ledger, Told>>
  BY DEF Ledger, Told

LEMMA InitRefines == Init => Promise!Init
  BY DEF Init, Promise!Init, Ledger, Told

LEMMA NextRefines == IInv /\ [Next]_vars => [Promise!Next]_<<Ledger, Told>>
<1> SUFFICES ASSUME IInv, [Next]_vars
             PROVE  (\E i \in Ids : Promise!Execute(i) \/ Promise!Tell(i))
                    \/ UNCHANGED <<Ledger, Told>>
  BY DEF Promise!Next
<1>1. \A r \in Requests : r[1] \in Ids /\ r[2] \in Orders
  BY RequestsAssumption
<1>2. CASE \E r \in Requests : Submit(r[1], r[2])
  BY <1>2, Stutters DEF Submit, broker
<1>3. ASSUME NEW r \in Requests, SubmitKnown(r[1], r[2])
      PROVE  Promise!Tell(r[1])
  <2>1. IsFillOf(orders[r[1]].fill, r[1])
    BY <1>3 DEF SubmitKnown, IInv, RecordsOK
  <2> QED
    BY <1>1, <1>3, <2>1, AnswerIsTell DEF SubmitKnown, broker
<1>4. CASE StartAttempt
  BY <1>4, Stutters DEF StartAttempt, broker
<1>5. CASE BrokerFills
  BY <1>5, CallHasRecord, TakeIsExecute DEF BrokerFills, Sent, SentOrder
<1>6. CASE BrokerRejects \/ BrokerTimesOut \/ BrokerDisconnects
  BY <1>6, Stutters DEF BrokerRejects, BrokerTimesOut, BrokerDisconnects, broker
<1>7. CASE HandleFill
  <2>1. call.id \in Ids /\ IsFillOf(call.fill, call.id)
    BY <1>7, CallHasRecord DEF HandleFill, Got, IInv, CallOK
  <2> QED
    BY <1>7, <2>1, AnswerIsTell DEF HandleFill, broker
<1>8. CASE HandleTimeout \/ HandleRejected \/ HandleDisconnected
  BY <1>8, Stutters DEF HandleTimeout, HandleRejected, HandleDisconnected, broker
<1>9. CASE \E i \in Ids : AskBroker(i)
  BY <1>9, Stutters DEF AskBroker, ReconcileOrder, MarkRejected, broker
<1>10. ASSUME NEW r \in Requests, ArriveLate(r[1], r[2])
       PROVE  Promise!Execute(r[1]) \/ UNCHANGED <<Ledger, Told>>
  BY <1>1, <1>10, TakeIsExecute DEF ArriveLate
<1>11. CASE Restart
  BY <1>11, Stutters DEF Restart, broker
<1>12. CASE UNCHANGED vars
  BY <1>12, Stutters DEF vars, broker
<1> QED
  BY <1>1, <1>2, <1>3, <1>4, <1>5, <1>6, <1>7, <1>8, <1>9, <1>10, <1>11, <1>12
  DEF Next, BrokerAnswers, HandleAnswer

(* Retries, lost replies, late requests, reconciliation and restarts are   *)
(* invisible to callers: each order is executed at most once, and callers  *)
(* are told of that execution only.                                        *)
THEOREM Refinement == Spec => ImplementsExactlyOnce
  BY InitRefines, Invariance, NextRefines, PTL
  DEF Spec, ImplementsExactlyOnce, Promise!Spec, Promise!vars
=============================================================================
