----------------------------- MODULE AsyncFeed -----------------------------
(***************************************************************************)
(* src/market_data/async_feed.py: a producer task and a consumer task      *)
(* around a bounded asyncio.Queue, and the stop methods of the producer,   *)
(* of the consumer and of the feed that holds both.                        *)
(*                                                                         *)
(* asyncio runs one task at a time and switches only where a coroutine     *)
(* waits, so an action is what a task does from one such point to the      *)
(* next.  Queue.put and Queue.get do not wait when there is room, or an    *)
(* item.  Cancelling a task raises CancelledError at the point where it    *)
(* waits.  One caller at a time is inside a stop method.                   *)
(*                                                                         *)
(* Ticks are numbered in the order of the source; 0 is the None that marks *)
(* the end of the stream.                                                  *)
(***************************************************************************)
EXTENDS Naturals, Sequences

CONSTANTS
    MaxTicks,   \* bound: how many ticks the source has at most
    MaxQueue,   \* max_queue_size, 0 for an unbounded queue
    Finite,     \* the source ends (or raises) by itself; a live feed does not
    Timeouts,   \* a wait may outlast the 1.0 seconds stop() allows it
    Stops       \* the stop methods callers use

Sentinel == 0

Methods == {"feed", "producer", "consumer"}

ASSUME FeedAssumption ==
    /\ MaxTicks \in Nat
    /\ MaxQueue \in Nat
    /\ Finite \in BOOLEAN
    /\ Timeouts \in BOOLEAN
    /\ Stops \subseteq Methods

VARIABLES
    queue,          \* the items of feed._queue
    unfinished,     \* its count of items put and not yet marked task_done
    ppc,            \* where the producer task waits
    fetched,        \* how many ticks the producer took from the source
    dropped,        \* how many of them it never put: cancelled, or told to stop
    pstopped,       \* producer._stopped
    cpc,            \* where the consumer task waits
    hand,           \* the tick the handler is working on, 0 when there is none
    cstopped,       \* consumer._stopped
    handled,        \* history: the ticks whose handler ran to its end, or raised
    interrupted,    \* history: how many handlers were cancelled
    caller,         \* the stop method in progress, or "none"
    spc             \* where that caller waits

producer == <<ppc, fetched, dropped, pstopped>>
consumer == <<cpc, hand, cstopped, handled, interrupted>>
stopper == <<caller, spc>>
vars == <<queue, unfinished, producer, consumer, stopper>>

(* source: for a tick of the source, or the pause between two ticks;       *)
(* put: for room in the queue, for the tick just fetched;                  *)
(* sentinel: for room in the queue, for the None of the finally clause.    *)
ProducerPoints == {"new", "source", "put", "sentinel", "done"}

ConsumerPoints == {"new", "get", "handler", "done"}

(* producer: for the producer task to end by itself, at most 1 second;     *)
(* cancelled: for the producer task to end, once it has been cancelled;    *)
(* put: for room in the queue for stop()'s own None, at most 1 second;     *)
(* join: for every item to be marked done.                                 *)
StopPoints == {"none", "producer", "cancelled", "put", "join"}

TypeOK ==
    /\ queue \in Seq(0 .. MaxTicks)
    /\ unfinished \in Nat
    /\ ppc \in ProducerPoints
    /\ fetched \in 0 .. MaxTicks
    /\ dropped \in 0 .. MaxTicks
    /\ pstopped \in BOOLEAN
    /\ cpc \in ConsumerPoints
    /\ hand \in 0 .. MaxTicks
    /\ cstopped \in BOOLEAN
    /\ handled \in Seq(1 .. MaxTicks)
    /\ interrupted \in Nat
    /\ caller \in Methods \cup {"none"}
    /\ spc \in StopPoints

Init ==
    /\ queue = <<>>
    /\ unfinished = 0
    /\ ppc = "new"
    /\ fetched = 0
    /\ dropped = 0
    /\ pstopped = FALSE
    /\ cpc = "new"
    /\ hand = 0
    /\ cstopped = FALSE
    /\ handled = <<>>
    /\ interrupted = 0
    /\ caller = "none"
    /\ spc = "none"

-----------------------------------------------------------------------------
(* asyncio.Queue *)

Room == MaxQueue = 0 \/ Len(queue) < MaxQueue

Put(item) ==
    /\ queue' = Append(queue, item)
    /\ unfinished' = unfinished + 1

TaskDone == unfinished' = unfinished - 1

-----------------------------------------------------------------------------
(* AsyncTickProducer._produce *)

(* The task runs on to its next wait, or to its end, with its None put,    *)
(* waited for or (after stop()) not sent at all.                           *)
(* Mutant: the None is sent only to a consumer that can take it at once.    *)
Finally_NoWait ==
    \/ (pstopped \/ ~ Room) /\ ppc' = "done" /\ UNCHANGED <<queue, unfinished>>
    \/ ~ pstopped /\ Room /\ Put(Sentinel) /\ ppc' = "done"

Finally ==
    \/ pstopped /\ ppc' = "done" /\ UNCHANGED <<queue, unfinished>>
    \/ ~ pstopped /\ Room /\ Put(Sentinel) /\ ppc' = "done"
    \/ ~ pstopped /\ ~ Room /\ ppc' = "sentinel" /\ UNCHANGED <<queue, unfinished>>

(* The source yields a tick. *)
Fetch ==
    /\ ppc = "source"
    /\ fetched < MaxTicks
    /\ ~ pstopped
    /\ fetched' = fetched + 1
    /\ \/ Room /\ Put(fetched') /\ UNCHANGED ppc
       \/ ~ Room /\ ppc' = "put" /\ UNCHANGED <<queue, unfinished>>
    /\ UNCHANGED <<dropped, pstopped, consumer, stopper>>

(* It yields one to a producer that was stopped before it was started.     *)
FetchStopped ==
    /\ ppc = "source"
    /\ fetched < MaxTicks
    /\ pstopped
    /\ fetched' = fetched + 1
    /\ dropped' = dropped + 1
    /\ Finally
    /\ UNCHANGED <<pstopped, consumer, stopper>>

(* Mutant: a full queue is emptied to make room.                            *)
PutTick_Overwrites ==
    /\ ppc = "put"
    /\ queue' = <<fetched>>
    /\ unfinished' = unfinished + 1
    /\ ppc' = "source"
    /\ UNCHANGED <<fetched, dropped, pstopped, consumer, stopper>>

PutTick ==
    /\ ppc = "put"
    /\ Room
    /\ Put(fetched)
    /\ ppc' = "source"
    /\ UNCHANGED <<fetched, dropped, pstopped, consumer, stopper>>

(* The source is exhausted, or raises (which is logged). *)
SourceEnds ==
    /\ ppc = "source"
    /\ Finite
    /\ Finally
    /\ UNCHANGED <<fetched, dropped, pstopped, consumer, stopper>>

PutSentinel ==
    /\ ppc = "sentinel"
    /\ Room
    /\ Put(Sentinel)
    /\ ppc' = "done"
    /\ UNCHANGED <<fetched, dropped, pstopped, consumer, stopper>>

(* CancelledError where the task waits: a tick waiting for room is lost,   *)
(* a None waiting for room is not sent, otherwise the finally clause runs. *)
CancelProducer ==
    IF ppc = "sentinel"
    THEN ppc' = "done" /\ UNCHANGED <<queue, unfinished, fetched, dropped>>
    ELSE /\ dropped' = IF ppc = "put" THEN dropped + 1 ELSE dropped
         /\ Finally
         /\ UNCHANGED fetched

-----------------------------------------------------------------------------
(* AsyncTickConsumer._consume *)

(* Mutant: a tick is marked done when it is taken, and again when handled.  *)
GetTick_DoneTwice ==
    /\ cpc = "get"
    /\ queue # <<>>
    /\ Head(queue) # Sentinel
    /\ hand' = Head(queue)
    /\ queue' = Tail(queue)
    /\ TaskDone
    /\ cpc' = "handler"
    /\ UNCHANGED <<producer, cstopped, handled, interrupted, stopper>>

GetTick ==
    /\ cpc = "get"
    /\ queue # <<>>
    /\ Head(queue) # Sentinel
    /\ hand' = Head(queue)
    /\ queue' = Tail(queue)
    /\ cpc' = "handler"
    /\ UNCHANGED <<unfinished, producer, cstopped, handled, interrupted, stopper>>

(* Mutant: the None is not marked done. *)
GetSentinel_NotDone ==
    /\ cpc = "get"
    /\ queue # <<>>
    /\ Head(queue) = Sentinel
    /\ queue' = Tail(queue)
    /\ cpc' = "done"
    /\ UNCHANGED <<unfinished, producer, hand, cstopped, handled, interrupted, stopper>>

GetSentinel ==
    /\ cpc = "get"
    /\ queue # <<>>
    /\ Head(queue) = Sentinel
    /\ queue' = Tail(queue)
    /\ TaskDone
    /\ cpc' = "done"
    /\ UNCHANGED <<producer, hand, cstopped, handled, interrupted, stopper>>

(* The handler returns, or raises (which is logged). *)
HandlerEnds ==
    /\ cpc = "handler"
    /\ handled' = Append(handled, hand)
    /\ hand' = 0
    /\ TaskDone
    /\ cpc' = "get"
    /\ UNCHANGED <<queue, producer, cstopped, interrupted, stopper>>

(* CancelledError where the task waits: a running handler is cut short and *)
(* its tick marked done.                                                   *)
CancelConsumer ==
    /\ cpc' = IF cpc = "new" THEN "new" ELSE "done"
    /\ hand' = 0
    /\ IF cpc = "handler"
       THEN interrupted' = interrupted + 1 /\ TaskDone
       ELSE UNCHANGED <<interrupted, unfinished>>

-----------------------------------------------------------------------------
(* AsyncMarketDataFeed.start.  A consumer already told to stop ends at     *)
(* once.                                                                   *)
Start ==
    /\ caller = "none"
    /\ ppc = "new"
    /\ ppc' = "source"
    /\ cpc' = IF cstopped THEN "done" ELSE "get"
    /\ UNCHANGED <<queue, unfinished, fetched, dropped, pstopped, hand, cstopped,
                   handled, interrupted, stopper>>

-----------------------------------------------------------------------------
(* The stop methods. *)

FeedStop ==
    /\ "feed" \in Stops
    /\ caller = "none"
    /\ caller' = "feed"
    /\ spc' = IF ppc \in {"new", "done"} THEN "join" ELSE "producer"
    /\ UNCHANGED <<queue, unfinished, producer, consumer>>

ProducerEnded ==
    /\ spc = "producer"
    /\ ppc = "done"
    /\ spc' = "join"
    /\ UNCHANGED <<queue, unfinished, producer, consumer, caller>>

(* wait_for cancels the task it waited for, and waits for it to end.       *)
ProducerTimesOut ==
    /\ Timeouts
    /\ spc = "producer"
    /\ ppc # "done"
    /\ CancelProducer
    /\ spc' = "cancelled"
    /\ UNCHANGED <<pstopped, consumer, caller>>

(* Only then does feed.stop call producer.stop. *)
CancelledEnded ==
    /\ spc = "cancelled"
    /\ ppc = "done"
    /\ IF pstopped THEN spc' = "join" ELSE spc' = "put"
    /\ pstopped' = TRUE
    /\ UNCHANGED <<queue, unfinished, ppc, fetched, dropped, consumer, caller>>

(* producer.stop called by itself. *)
ProducerStop ==
    /\ "producer" \in Stops
    /\ caller = "none"
    /\ ~ pstopped
    /\ pstopped' = TRUE
    /\ \/ ppc \in {"new", "done"} /\ UNCHANGED <<ppc, dropped>>
       \/ ppc \in {"source", "put", "sentinel"} /\ ppc' = "done"
          /\ dropped' = IF ppc = "put" THEN dropped + 1 ELSE dropped
    /\ caller' = "producer"
    /\ spc' = "put"
    /\ UNCHANGED <<queue, unfinished, fetched, consumer>>

Return == caller' = "none" /\ spc' = "none"

(* The end of producer.stop, within feed.stop or not. *)
AfterPut ==
    IF caller = "feed" THEN spc' = "join" /\ UNCHANGED caller ELSE Return

StopPuts ==
    /\ spc = "put"
    /\ Room
    /\ Put(Sentinel)
    /\ AfterPut
    /\ UNCHANGED <<producer, consumer>>

(* Mutant: the None is put without a time limit. *)
StopPutTimesOut_Never == FALSE /\ UNCHANGED vars

StopPutTimesOut ==
    /\ Timeouts
    /\ spc = "put"
    /\ ~ Room
    /\ AfterPut
    /\ UNCHANGED <<queue, unfinished, producer, consumer>>

(* Mutant: stop() does not wait for the queue. *)
Joined_NoWait ==
    /\ spc = "join"
    /\ cstopped' = TRUE
    /\ CancelConsumer
    /\ Return
    /\ UNCHANGED <<queue, producer, handled>>

Joined ==
    /\ spc = "join"
    /\ unfinished = 0
    /\ cstopped' = TRUE
    /\ CancelConsumer
    /\ Return
    /\ UNCHANGED <<queue, producer, handled>>

ConsumerStop ==
    /\ "consumer" \in Stops
    /\ caller = "none"
    /\ cstopped' = TRUE
    /\ CancelConsumer
    /\ UNCHANGED <<queue, producer, handled, stopper>>

-----------------------------------------------------------------------------
Source == Fetch \/ FetchStopped \/ SourceEnds

ProducerPuts == PutTick \/ PutSentinel

Consumer == GetTick \/ GetSentinel \/ HandlerEnds

StopGoesOn ==
    ProducerEnded \/ ProducerTimesOut \/ CancelledEnded \/ StopPuts \/ StopPutTimesOut
    \/ Joined

Callers == Start \/ FeedStop \/ ProducerStop \/ ConsumerStop

Next == Source \/ ProducerPuts \/ Consumer \/ StopGoesOn \/ Callers

Spec == Init /\ [][Next]_vars

(* The event loop runs every task that can run, handlers return, the 1.0   *)
(* second timers expire, and a finite source yields or ends.  Nothing      *)
(* obliges a live source to yield or a caller to call.                     *)
FairSpec ==
    /\ Spec
    /\ WF_vars(ProducerPuts)
    /\ WF_vars(Consumer)
    /\ WF_vars(StopGoesOn)
    /\ Finite => WF_vars(Source)
-----------------------------------------------------------------------------
(* Safety. *)

InHand == IF cpc = "handler" THEN 1 ELSE 0

(* join() counts right: what it waits for is what is queued or in hand.    *)
UnfinishedCounts == unfinished = Len(queue) + InHand

Taken == Len(handled) + interrupted + InHand

(* The ticks handled are the first ones of the source, in its order, and   *)
(* what waits in the queue comes next: no cancellation, stop or full queue *)
(* loses, repeats or reorders a tick in the middle of the stream, and all  *)
(* the stops together lose the one tick that waited for room.              *)
StreamInOrder ==
    /\ dropped <= 1
    /\ \A k \in DOMAIN handled : handled[k] = k
    /\ cpc = "handler" => hand = Len(handled) + 1
    /\ \A k \in DOMAIN queue : queue[k] # Sentinel => queue[k] = Taken + k

-----------------------------------------------------------------------------
(* Liveness. *)

(* feed.stop returns, on a feed whose consumer has not been stopped yet    *)
(* ("Shutdown should complete without hanging").                           *)
FeedStops == (caller = "feed" /\ ~ cstopped) ~> (caller = "none")

(* It returns, the queue drained and the end of the stream taken, whenever *)
(* the producer ended within the second it is given: nobody has forced it. *)
FeedStopsInTime ==
    (caller = "feed" /\ ~ cstopped) ~> (caller = "none" \/ spc = "cancelled" \/ pstopped)

(* producer.stop returns whatever the source and the consumer do.          *)
ProducerStops == (caller = "producer") ~> (caller = "none")

-----------------------------------------------------------------------------
(* The ticks put in the queue so far. *)
Accepted == fetched - dropped - (IF ppc = "put" THEN 1 ELSE 0)

(* The feed delivers the ticks it accepted, and drains before stop ends.   *)
Stream == INSTANCE TickStream
            WITH accepted <- Accepted, handled <- handled, stopping <- (caller = "feed"),
                 open <- ~ cstopped

ImplementsTickStream == Stream!Spec
=============================================================================
