-------------------------- MODULE AsyncFeed_proofs --------------------------
(***************************************************************************)
(* Proofs about the async feed, for every number of ticks, every size of   *)
(* the queue and every set of stop methods in use; then about the feed     *)
(* that replays a file, which takes steps of the feed only, and of the     *)
(* loading of that file, for every length of it.                           *)
(***************************************************************************)
EXTENDS ReplayFeed, FiniteSetTheorems, WellFoundedInduction, TLAPS

(* In the queue, the ticks accepted and not yet taken come first, in the   *)
(* order of the source, and then only Nones.                               *)
TicksFirst ==
    /\ Taken <= Accepted
    /\ Accepted <= Taken + Len(queue)
    /\ \A k \in 1 .. Len(queue) :
          /\ queue[k] # Sentinel <=> k <= Accepted - Taken
          /\ queue[k] # Sentinel => queue[k] = Taken + k

(* As long as the producer may still put a tick there is no None.          *)
Producing ==
    ppc \in {"new", "source", "put"} /\ ~pstopped => Accepted = Taken + Len(queue)

(* The tick in hand is the next one, and what was lost is not followed by  *)
(* anything.                                                               *)
Hands ==
    /\ dropped <= 1
    /\ dropped > 0 => ppc \in {"sentinel", "done"}
    /\ ppc = "put" => fetched > 0
    /\ \A k \in DOMAIN handled : handled[k] = k
    /\ cpc = "handler" => hand = Len(handled) + 1 /\ hand <= MaxTicks
    /\ cpc \in {"get", "handler"} => ~cstopped
    /\ interrupted > 0 => cpc = "done" /\ cstopped

(* Who waits where.                                                        *)
Points ==
    /\ ppc = "put" => ~pstopped
    /\ ppc = "new" => cpc = "new"
    /\ spc = "put" => pstopped
    /\ spc \in {"producer", "cancelled", "join"} => caller = "feed"
    /\ caller = "none" => spc = "none"

IInv == TypeOK /\ UnfinishedCounts /\ TicksFirst /\ Producing /\ Hands /\ Points

(* The counts the queue is compared with are numbers.                      *)
LEMMA Counts ==
  ASSUME TypeOK
  PROVE  Taken \in Nat /\ Accepted \in Int /\ InHand \in Nat /\ Len(queue) \in Nat
  BY FeedAssumption DEF TypeOK, Taken, Accepted, InHand

(* A producer that has not ended has dropped nothing.                      *)
LEMMA NothingDropped ==
  ASSUME TypeOK, Hands, ppc \notin {"sentinel", "done"}
  PROVE  /\ dropped = 0 /\ fetched \in 0 .. MaxTicks /\ MaxTicks \in Nat
         /\ ppc = "put" => fetched > 0
<1>1. dropped \in 0 .. MaxTicks /\ fetched \in 0 .. MaxTicks /\ MaxTicks \in Nat
  BY FeedAssumption DEF TypeOK
<1> QED
  BY <1>1 DEF Hands

(* What is left of a queue after its head, and what an append makes of it. *)
LEMMA Removed ==
  ASSUME NEW S, NEW q \in Seq(S), q # <<>>
  PROVE  /\ Head(q) = q[1] /\ Head(q) \in S /\ Len(q) \in Nat \ {0}
         /\ Tail(q) \in Seq(S)
         /\ Len(Tail(q)) = Len(q) - 1
         /\ \A k \in 1 .. Len(Tail(q)) : Tail(q)[k] = q[k + 1]
  OBVIOUS

LEMMA Appended ==
  ASSUME NEW S, NEW q \in Seq(S), NEW x \in S
  PROVE  /\ Append(q, x) \in Seq(S)
         /\ Len(Append(q, x)) = Len(q) + 1
         /\ \A k \in 1 .. Len(q) : Append(q, x)[k] = q[k]
         /\ Append(q, x)[Len(q) + 1] = x
  OBVIOUS

(* A None goes behind everything.                                          *)
LEMMA PutsNone ==
  ASSUME TypeOK, TicksFirst, UnfinishedCounts, Put(Sentinel),
         Taken' = Taken, Accepted' = Accepted, InHand' = InHand
  PROVE  queue' \in Seq(0 .. MaxTicks) /\ unfinished' \in Nat /\ TicksFirst' /\ UnfinishedCounts'
<1>1. /\ Sentinel \in 0 .. MaxTicks /\ queue \in Seq(0 .. MaxTicks)
      /\ queue' = Append(queue, Sentinel) /\ unfinished' = unfinished + 1 /\ unfinished \in Nat
  BY FeedAssumption DEF Put, TypeOK, Sentinel
<1>2. /\ queue' \in Seq(0 .. MaxTicks) /\ Len(queue') = Len(queue) + 1
      /\ \A k \in 1 .. Len(queue) : queue'[k] = queue[k]
      /\ queue'[Len(queue) + 1] = Sentinel
  BY <1>1, Appended
<1>3. UnfinishedCounts' /\ unfinished' \in Nat
  BY <1>1, <1>2, Counts DEF UnfinishedCounts
<1>4. ASSUME NEW k \in 1 .. Len(queue')
      PROVE  /\ queue'[k] # Sentinel <=> k <= Accepted' - Taken'
             /\ queue'[k] # Sentinel => queue'[k] = Taken' + k
  BY <1>2, Counts DEF TicksFirst
<1>5. TicksFirst'
  BY <1>2, <1>4, Counts DEF TicksFirst
<1> QED
  BY <1>2, <1>3, <1>5

(* The next tick goes behind the others, as long as there is no None.      *)
LEMMA PutsTick ==
  ASSUME TypeOK, TicksFirst, UnfinishedCounts, NEW tick \in 1 .. MaxTicks, Put(tick),
         tick = Accepted + 1, Accepted = Taken + Len(queue),
         Taken' = Taken, Accepted' = Accepted + 1, InHand' = InHand
  PROVE  /\ queue' \in Seq(0 .. MaxTicks) /\ unfinished' \in Nat /\ TicksFirst' /\ UnfinishedCounts'
         /\ Accepted' = Taken' + Len(queue')
<1>1. /\ tick \in 0 .. MaxTicks /\ queue \in Seq(0 .. MaxTicks)
      /\ queue' = Append(queue, tick) /\ unfinished' = unfinished + 1 /\ unfinished \in Nat
  BY FeedAssumption DEF Put, TypeOK
<1>2. /\ queue' \in Seq(0 .. MaxTicks) /\ Len(queue') = Len(queue) + 1
      /\ \A k \in 1 .. Len(queue) : queue'[k] = queue[k]
      /\ queue'[Len(queue) + 1] = tick
  BY <1>1, Appended
<1>3. Taken \in Nat /\ Accepted \in Int /\ InHand \in Nat /\ Len(queue) \in Nat
  BY Counts
<1>4. unfinished = Len(queue) + InHand
  BY DEF UnfinishedCounts
<1>5. unfinished' = Len(queue') + InHand'
  BY <1>1, <1>2, <1>3, <1>4
<1>6. UnfinishedCounts' /\ unfinished' \in Nat
  BY <1>1, <1>5 DEF UnfinishedCounts
<1>7. Accepted' = Taken' + Len(queue')
  BY <1>2, <1>3
<1>8. ASSUME NEW k \in 1 .. Len(queue')
      PROVE  queue'[k] # Sentinel /\ queue'[k] = Taken' + k
  <2>1. CASE k = Len(queue) + 1
    BY <2>1, <1>2, <1>3 DEF Sentinel
  <2>2. CASE k \in 1 .. Len(queue)
    BY <2>2, <1>2, <1>3 DEF TicksFirst
  <2> QED
    BY <2>1, <2>2, <1>2, <1>3
<1>9. TicksFirst'
  BY <1>2, <1>7, <1>8, Counts DEF TicksFirst
<1> QED
  BY <1>2, <1>6, <1>7, <1>9

(* What is neither put nor taken leaves the queue as it is.                *)
LEMMA LeavesQueue ==
  ASSUME TypeOK, TicksFirst, UnfinishedCounts, UNCHANGED <<queue, unfinished>>,
         Taken' = Taken, Accepted' = Accepted, InHand' = InHand
  PROVE  queue' \in Seq(0 .. MaxTicks) /\ unfinished' \in Nat /\ TicksFirst' /\ UnfinishedCounts'
  BY DEF TypeOK, TicksFirst, UnfinishedCounts

(* The end of the producer: a None, or nothing yet, or nothing at all.     *)
LEMMA Finishes ==
  ASSUME TypeOK, TicksFirst, UnfinishedCounts, Finally,
         Taken' = Taken, Accepted' = Accepted, InHand' = InHand
  PROVE  /\ queue' \in Seq(0 .. MaxTicks) /\ unfinished' \in Nat /\ TicksFirst' /\ UnfinishedCounts'
         /\ ppc' \in {"sentinel", "done"}
<1>1. CASE UNCHANGED <<queue, unfinished>>
  BY <1>1, LeavesQueue DEF Finally
<1>2. CASE Put(Sentinel)
  BY <1>2, PutsNone DEF Finally
<1> QED
  BY <1>1, <1>2 DEF Finally

-----------------------------------------------------------------------------
LEMMA Initially == Init => IInv
<1> SUFFICES ASSUME Init PROVE IInv
  OBVIOUS
<1>1. queue \in Seq(0 .. MaxTicks) /\ handled \in Seq(1 .. MaxTicks) /\ DOMAIN handled = {}
  BY DEF Init
<1>2. TypeOK /\ Hands /\ Points
  <2>1. TypeOK
    <3>1. /\ unfinished = 0 /\ fetched = 0 /\ dropped = 0 /\ hand = 0 /\ interrupted = 0
          /\ ppc = "new" /\ cpc = "new" /\ caller = "none" /\ spc = "none"
          /\ pstopped = FALSE /\ cstopped = FALSE
      BY DEF Init
    <3>2. 0 \in 0 .. MaxTicks
      BY FeedAssumption
    <3> QED
      BY <1>1, <3>1, <3>2, Zenon DEF TypeOK, ProducerPoints, ConsumerPoints, StopPoints
  <2>2. Hands /\ Points
    BY <1>1 DEF Init, Hands, Points
  <2> QED
    BY <2>1, <2>2
<1>3. Taken = 0 /\ Accepted = 0 /\ InHand = 0 /\ Len(queue) = 0
  BY DEF Init, Taken, Accepted, InHand
<1>4. UnfinishedCounts /\ TicksFirst /\ Producing
  BY <1>3 DEF Init, UnfinishedCounts, TicksFirst, Producing
<1> QED
  BY <1>2, <1>4 DEF IInv

(* The steps of the producer task.                                         *)
LEMMA ProducerSteps == IInv /\ (Source \/ ProducerPuts) => IInv'
<1> USE DEF ProducerPoints
<1> SUFFICES ASSUME IInv, Source \/ ProducerPuts PROVE IInv'
  OBVIOUS
<1> TypeOK /\ UnfinishedCounts /\ TicksFirst /\ Producing /\ Hands /\ Points
  BY DEF IInv
<1>1. Taken' = Taken /\ InHand' = InHand
  BY DEF Source, ProducerPuts, Fetch, FetchStopped, SourceEnds, PutTick, PutSentinel, consumer,
         Taken, InHand
<1>2. CASE Fetch
  <2>1. /\ fetched' \in 1 .. MaxTicks /\ fetched' = Accepted + 1 /\ dropped = 0
        /\ Accepted = Taken + Len(queue)
    BY <1>2, FeedAssumption DEF Fetch, TypeOK, Hands, Producing, Accepted
  <2>2. CASE Put(fetched') /\ UNCHANGED ppc
    <3>1. Accepted' = Accepted + 1
      BY <1>2, <2>1, <2>2 DEF Fetch, Accepted, TypeOK
    <3>2. /\ queue' \in Seq(0 .. MaxTicks) /\ unfinished' \in Nat /\ TicksFirst' /\ UnfinishedCounts'
          /\ Accepted' = Taken' + Len(queue')
      BY <1>1, <2>1, <2>2, <3>1, PutsTick
    <3>3. TypeOK' /\ Producing' /\ Hands' /\ Points'
      BY <1>2, <2>1, <2>2, <3>2
         DEF Fetch, consumer, stopper, TypeOK, Producing, Hands, Points
    <3> QED
      BY <3>2, <3>3 DEF IInv
  <2>3. CASE ppc' = "put" /\ UNCHANGED <<queue, unfinished>>
    <3>1. Accepted' = Accepted
      BY <1>2, <2>1, <2>3 DEF Fetch, Accepted, TypeOK
    <3>2. queue' \in Seq(0 .. MaxTicks) /\ unfinished' \in Nat /\ TicksFirst' /\ UnfinishedCounts'
      BY <1>1, <2>3, <3>1, LeavesQueue
    <3>3. TypeOK' /\ Producing' /\ Hands' /\ Points'
      BY <1>1, <1>2, <2>1, <2>3, <3>1, <3>2
         DEF Fetch, consumer, stopper, TypeOK, Producing, Hands, Points
    <3> QED
      BY <3>2, <3>3 DEF IInv
  <2> QED
    BY <1>2, <2>2, <2>3 DEF Fetch
<1>3. CASE FetchStopped
  <2>1. ppc' = "done" /\ Accepted' = Accepted /\ dropped = 0 /\ fetched' \in 1 .. MaxTicks
    <3>1. ppc = "source" /\ ppc' = "done" /\ fetched < MaxTicks
          /\ fetched' = fetched + 1 /\ dropped' = dropped + 1
      BY <1>3 DEF FetchStopped, Finally
    <3>2. dropped = 0 /\ fetched \in 0 .. MaxTicks /\ MaxTicks \in Nat
      BY <3>1, NothingDropped
    <3> QED
      BY <3>1, <3>2 DEF Accepted
  <2>2. queue' \in Seq(0 .. MaxTicks) /\ unfinished' \in Nat /\ TicksFirst' /\ UnfinishedCounts'
    BY <1>1, <1>3, <2>1, Finishes DEF FetchStopped
  <2>3. dropped' = 1 /\ 1 \in 0 .. MaxTicks /\ fetched' \in 0 .. MaxTicks
    BY <1>3, <2>1, FeedAssumption DEF FetchStopped
  <2>4. TypeOK'
    BY <1>3, <2>1, <2>2, <2>3 DEF FetchStopped, consumer, stopper, TypeOK
  <2>5. Producing' /\ Hands' /\ Points'
    BY <1>3, <2>1, <2>3 DEF FetchStopped, consumer, stopper, Producing, Hands, Points
  <2> QED
    BY <2>2, <2>4, <2>5 DEF IInv
<1>4. CASE SourceEnds
  <2>1. ppc' \in {"sentinel", "done"} /\ Accepted' = Accepted
    BY <1>4 DEF SourceEnds, Finally, Accepted
  <2>2. queue' \in Seq(0 .. MaxTicks) /\ unfinished' \in Nat /\ TicksFirst' /\ UnfinishedCounts'
    BY <1>1, <1>4, <2>1, Finishes DEF SourceEnds
  <2>3. TypeOK' /\ Producing' /\ Hands' /\ Points'
    BY <1>4, <2>1, <2>2 DEF SourceEnds, consumer, stopper, TypeOK, Producing, Hands, Points
  <2> QED
    BY <2>2, <2>3 DEF IInv
<1>5. CASE PutTick
  <2>1. /\ fetched \in 1 .. MaxTicks /\ fetched = Accepted + 1
        /\ Accepted = Taken + Len(queue) /\ Accepted' = Accepted + 1
    BY <1>5, FeedAssumption DEF PutTick, TypeOK, Hands, Points, Producing, Accepted
  <2>2. /\ queue' \in Seq(0 .. MaxTicks) /\ unfinished' \in Nat /\ TicksFirst' /\ UnfinishedCounts'
        /\ Accepted' = Taken' + Len(queue')
    BY <1>1, <1>5, <2>1, PutsTick DEF PutTick
  <2>3. TypeOK' /\ Producing' /\ Hands' /\ Points'
    BY <1>5, <2>2 DEF PutTick, consumer, stopper, TypeOK, Producing, Hands, Points
  <2> QED
    BY <2>2, <2>3 DEF IInv
<1>6. CASE PutSentinel
  <2>1. Accepted' = Accepted
    BY <1>6 DEF PutSentinel, Accepted
  <2>2. queue' \in Seq(0 .. MaxTicks) /\ unfinished' \in Nat /\ TicksFirst' /\ UnfinishedCounts'
    BY <1>1, <1>6, <2>1, PutsNone DEF PutSentinel
  <2>3. TypeOK' /\ Producing' /\ Hands' /\ Points'
    BY <1>6, <2>2 DEF PutSentinel, consumer, stopper, TypeOK, Producing, Hands, Points
  <2> QED
    BY <2>2, <2>3 DEF IInv
<1> QED
  BY <1>2, <1>3, <1>4, <1>5, <1>6 DEF Source, ProducerPuts

(* The steps of the consumer task.                                         *)
LEMMA ConsumerSteps == IInv /\ Consumer => IInv'
<1> USE DEF ConsumerPoints, Sentinel
<1> SUFFICES ASSUME IInv, Consumer PROVE IInv'
  OBVIOUS
<1> TypeOK /\ UnfinishedCounts /\ TicksFirst /\ Producing /\ Hands /\ Points
  BY DEF IInv
<1>1. Taken \in Nat /\ Accepted \in Int /\ InHand \in Nat /\ queue \in Seq(0 .. MaxTicks)
  BY Counts DEF TypeOK
<1>2. Accepted' = Accepted
  BY DEF Consumer, GetTick, GetSentinel, HandlerEnds, producer, Accepted
<1>3. ASSUME queue # <<>>, queue' = Tail(queue)
      PROVE  /\ queue' \in Seq(0 .. MaxTicks)
             /\ Len(queue') = Len(queue) - 1 /\ Len(queue) \in Nat \ {0}
             /\ \A k \in 1 .. Len(queue') : queue'[k] = queue[k + 1] /\ k + 1 \in 1 .. Len(queue)
             /\ Head(queue) = queue[1] /\ Head(queue) \in 0 .. MaxTicks
  <2>1. /\ Head(queue) = queue[1] /\ Head(queue) \in 0 .. MaxTicks
        /\ Len(queue) \in Nat \ {0}
        /\ queue' \in Seq(0 .. MaxTicks)
        /\ Len(queue') = Len(queue) - 1
        /\ \A k \in 1 .. Len(queue') : queue'[k] = queue[k + 1]
    <3> DEFINE S == 0 .. MaxTicks
    <3>1. queue \in Seq(S)
      BY <1>1
    <3> HIDE DEF S
    <3>2. /\ Head(queue) = queue[1] /\ Head(queue) \in S
          /\ Len(queue) \in Nat \ {0}
          /\ Tail(queue) \in Seq(S)
          /\ Len(Tail(queue)) = Len(queue) - 1
          /\ \A k \in 1 .. Len(Tail(queue)) : Tail(queue)[k] = queue[k + 1]
      BY <1>3, <3>1, Removed
    <3> QED
      BY <1>3, <3>2 DEF S
  <2> QED
    BY <2>1
<1>4. CASE GetTick
  <2>1. queue # <<>> /\ queue' = Tail(queue) /\ Head(queue) # Sentinel /\ UNCHANGED unfinished
    BY <1>4 DEF GetTick
  <2>2. Head(queue) = Taken + 1 /\ 1 <= Accepted - Taken
    <3>1. 1 \in 1 .. Len(queue) /\ Head(queue) = queue[1]
      BY <1>3, <2>1
    <3> QED
      BY <2>1, <3>1 DEF TicksFirst
  <2>3. Taken = Len(handled) /\ cpc = "get"
    BY <1>4 DEF GetTick, Hands, Taken, InHand, TypeOK
  <2>4. Taken' = Taken + 1 /\ InHand' = InHand + 1
    BY <1>4, <1>1 DEF GetTick, Taken, InHand, TypeOK
  <2>5. UnfinishedCounts' /\ TicksFirst' /\ Producing'
    <3>1. UnfinishedCounts'
      BY <1>1, <1>3, <2>1, <2>4 DEF UnfinishedCounts
    <3>2. TicksFirst'
      BY <1>1, <1>2, <1>3, <2>1, <2>2, <2>4 DEF TicksFirst
    <3>3. Producing'
      BY <1>1, <1>2, <1>3, <1>4, <2>1, <2>4 DEF GetTick, producer, Producing
    <3> QED
      BY <3>1, <3>2, <3>3
  <2>6. TypeOK' /\ Hands' /\ Points'
    BY <1>3, <1>4, <2>1, <2>2, <2>3 DEF GetTick, producer, stopper, TypeOK, Hands, Points
  <2> QED
    BY <2>5, <2>6 DEF IInv
<1>5. CASE GetSentinel
  <2>1. queue # <<>> /\ queue' = Tail(queue) /\ Head(queue) = Sentinel /\ unfinished' = unfinished - 1
    BY <1>5 DEF GetSentinel, TaskDone
  <2>2. Taken' = Taken /\ InHand' = InHand
    BY <1>5 DEF GetSentinel, Taken, InHand
  <2>3. Accepted = Taken /\ Accepted # Taken + Len(queue)
    BY <1>1, <1>3, <2>1 DEF TicksFirst
  <2>4. UnfinishedCounts' /\ TicksFirst' /\ Producing' /\ unfinished' \in Nat
    BY <1>1, <1>2, <1>3, <1>5, <2>1, <2>2, <2>3
       DEF GetSentinel, producer, UnfinishedCounts, TicksFirst, Producing
  <2>5. TypeOK' /\ Hands' /\ Points'
    BY <1>3, <1>5, <2>1, <2>4 DEF GetSentinel, producer, stopper, TypeOK, Hands, Points
  <2> QED
    BY <2>4, <2>5 DEF IInv
<1>6. CASE HandlerEnds
  <2>1. /\ hand = Len(handled) + 1 /\ hand \in 1 .. MaxTicks /\ handled' = Append(handled, hand)
        /\ handled \in Seq(1 .. MaxTicks)
    BY <1>6 DEF HandlerEnds, Hands, TypeOK
  <2>2. /\ handled' \in Seq(1 .. MaxTicks) /\ Len(handled') = Len(handled) + 1
        /\ \A k \in 1 .. Len(handled) : handled'[k] = handled[k]
        /\ handled'[Len(handled) + 1] = hand
    BY <2>1, Appended
  <2>3. \A k \in DOMAIN handled' : handled'[k] = k
    BY <2>1, <2>2 DEF Hands
  <2>4. Taken' = Taken /\ InHand' = InHand - 1 /\ unfinished' = unfinished - 1
    BY <1>6, <2>2 DEF HandlerEnds, TaskDone, Taken, InHand, TypeOK
  <2>5. UnfinishedCounts' /\ TicksFirst' /\ Producing' /\ unfinished' \in Nat
    BY <1>1, <1>2, <1>6, <2>4
       DEF HandlerEnds, producer, InHand, UnfinishedCounts, TicksFirst, Producing
  <2>6. TypeOK' /\ Hands' /\ Points'
    BY <1>6, <2>2, <2>3, <2>5, FeedAssumption
       DEF HandlerEnds, producer, stopper, TypeOK, Hands, Points
  <2> QED
    BY <2>5, <2>6 DEF IInv
<1> QED
  BY <1>4, <1>5, <1>6 DEF Consumer

(* A consumer that is cancelled, in its handler or not, by feed.stop or by *)
(* consumer.stop.                                                          *)
LEMMA ConsumerCancelled ==
  ASSUME IInv, CancelConsumer, cstopped' = TRUE, UNCHANGED <<queue, producer, handled>>,
         \/ UNCHANGED stopper
         \/ caller' = "none" /\ spc' = "none"
  PROVE  IInv'
<1> TypeOK /\ UnfinishedCounts /\ TicksFirst /\ Producing /\ Hands /\ Points
  BY DEF IInv
<1>1. Accepted' = Accepted
  BY DEF producer, Accepted
<1>2. CASE cpc = "handler"
  <2>1. Taken' = Taken /\ InHand = 1 /\ InHand' = 0 /\ unfinished' = unfinished - 1
    BY <1>2 DEF CancelConsumer, TaskDone, Taken, InHand, TypeOK
  <2>2. UnfinishedCounts' /\ unfinished' \in Nat
    BY <2>1, Counts DEF UnfinishedCounts
  <2>3. TicksFirst' /\ Producing'
    BY <1>1, <2>1 DEF TicksFirst, Producing, producer
  <2>4. TypeOK'
    BY <1>2, <2>2, FeedAssumption
       DEF CancelConsumer, TypeOK, producer, stopper, ConsumerPoints, StopPoints
  <2>5. Hands' /\ Points'
    BY <1>2 DEF CancelConsumer, Hands, Points, producer, stopper
  <2> QED
    BY <2>2, <2>3, <2>4, <2>5 DEF IInv
<1>3. CASE cpc # "handler"
  <2>1. Taken' = Taken /\ InHand' = InHand /\ UNCHANGED <<unfinished, interrupted>>
    BY <1>3 DEF CancelConsumer, Taken, InHand
  <2>2. UnfinishedCounts' /\ TicksFirst' /\ Producing'
    BY <1>1, <2>1 DEF UnfinishedCounts, TicksFirst, Producing, producer
  <2>3. TypeOK'
    BY <1>3, <2>1, FeedAssumption
       DEF CancelConsumer, TypeOK, producer, stopper, ConsumerPoints, StopPoints
  <2>4. Hands' /\ Points'
    BY <1>3, <2>1 DEF CancelConsumer, Hands, Points, producer, stopper
  <2> QED
    BY <2>2, <2>3, <2>4 DEF IInv
<1> QED
  BY <1>2, <1>3

(* The stop methods, once they have been called.                           *)
LEMMA StopSteps == IInv /\ StopGoesOn => IInv'
<1> USE DEF ProducerPoints, StopPoints
<1> SUFFICES ASSUME IInv, StopGoesOn PROVE IInv'
  OBVIOUS
<1> TypeOK /\ UnfinishedCounts /\ TicksFirst /\ Producing /\ Hands /\ Points
  BY DEF IInv
<1>1. CASE ProducerEnded
  <2>1. Taken' = Taken /\ InHand' = InHand /\ Accepted' = Accepted
    BY <1>1 DEF ProducerEnded, producer, consumer, Taken, InHand, Accepted
  <2>2. queue' \in Seq(0 .. MaxTicks) /\ unfinished' \in Nat /\ TicksFirst' /\ UnfinishedCounts'
    BY <1>1, <2>1, LeavesQueue DEF ProducerEnded
  <2>3. TypeOK' /\ Producing' /\ Hands' /\ Points'
    BY <1>1, <2>1, <2>2 DEF ProducerEnded, producer, consumer, TypeOK, Producing, Hands, Points
  <2> QED
    BY <2>2, <2>3 DEF IInv
<1>2. CASE ProducerTimesOut
  <2>1. Taken' = Taken /\ InHand' = InHand /\ UNCHANGED fetched
    BY <1>2 DEF ProducerTimesOut, CancelProducer, consumer, Taken, InHand
  <2>2. CASE ppc = "sentinel" /\ ppc' = "done" /\ UNCHANGED <<queue, unfinished, fetched, dropped>>
    <3>1. Accepted' = Accepted
      BY <2>2 DEF Accepted
    <3>2. queue' \in Seq(0 .. MaxTicks) /\ unfinished' \in Nat /\ TicksFirst' /\ UnfinishedCounts'
      BY <2>1, <2>2, <3>1, LeavesQueue
    <3>3. TypeOK' /\ Producing' /\ Hands' /\ Points'
      BY <1>2, <2>2, <3>2 DEF ProducerTimesOut, consumer, TypeOK, Producing, Hands, Points
    <3> QED
      BY <3>2, <3>3 DEF IInv
  <2>3. CASE /\ ppc # "sentinel" /\ Finally
             /\ dropped' = IF ppc = "put" THEN dropped + 1 ELSE dropped
    <3>1. ppc' \in {"sentinel", "done"} /\ ppc # "done"
      BY <1>2, <2>3 DEF Finally, ProducerTimesOut
    <3>2. /\ dropped = 0 /\ dropped' \in 0 .. 1 /\ dropped' \in 0 .. MaxTicks
          /\ Accepted' = Accepted
      <4>1. /\ dropped = 0 /\ fetched \in 0 .. MaxTicks /\ MaxTicks \in Nat
            /\ ppc = "put" => fetched > 0
        BY <2>3, <3>1, NothingDropped
      <4> QED
        BY <2>1, <2>3, <3>1, <4>1 DEF Accepted
    <3>3. queue' \in Seq(0 .. MaxTicks) /\ unfinished' \in Nat /\ TicksFirst' /\ UnfinishedCounts'
      BY <2>1, <2>3, <3>2, Finishes
    <3>4. TypeOK'
      BY <1>2, <2>1, <3>1, <3>2, <3>3 DEF ProducerTimesOut, consumer, TypeOK
    <3>5. Producing' /\ Hands' /\ Points'
      BY <1>2, <2>1, <3>1, <3>2 DEF ProducerTimesOut, consumer, Producing, Hands, Points
    <3> QED
      BY <3>3, <3>4, <3>5 DEF IInv
  <2> QED
    BY <1>2, <2>2, <2>3 DEF ProducerTimesOut, CancelProducer
<1>3. CASE CancelledEnded
  <2>1. Taken' = Taken /\ InHand' = InHand /\ Accepted' = Accepted
    BY <1>3 DEF CancelledEnded, consumer, Taken, InHand, Accepted
  <2>2. queue' \in Seq(0 .. MaxTicks) /\ unfinished' \in Nat /\ TicksFirst' /\ UnfinishedCounts'
    BY <1>3, <2>1, LeavesQueue DEF CancelledEnded
  <2>3. TypeOK' /\ Producing' /\ Hands' /\ Points'
    BY <1>3, <2>2 DEF CancelledEnded, consumer, TypeOK, Producing, Hands, Points
  <2> QED
    BY <2>2, <2>3 DEF IInv
<1>4. CASE StopPuts
  <2>1. Taken' = Taken /\ InHand' = InHand /\ Accepted' = Accepted
    BY <1>4 DEF StopPuts, producer, consumer, Taken, InHand, Accepted
  <2>2. queue' \in Seq(0 .. MaxTicks) /\ unfinished' \in Nat /\ TicksFirst' /\ UnfinishedCounts'
    BY <1>4, <2>1, PutsNone DEF StopPuts
  <2>3. TypeOK' /\ Producing' /\ Hands' /\ Points'
    BY <1>4, <2>2
       DEF StopPuts, AfterPut, Return, producer, consumer, TypeOK, Producing, Hands, Points
  <2> QED
    BY <2>2, <2>3 DEF IInv
<1>5. CASE StopPutTimesOut
  <2>1. Taken' = Taken /\ InHand' = InHand /\ Accepted' = Accepted
    BY <1>5 DEF StopPutTimesOut, producer, consumer, Taken, InHand, Accepted
  <2>2. queue' \in Seq(0 .. MaxTicks) /\ unfinished' \in Nat /\ TicksFirst' /\ UnfinishedCounts'
    BY <1>5, <2>1, LeavesQueue DEF StopPutTimesOut
  <2>3. TypeOK' /\ Producing' /\ Hands' /\ Points'
    BY <1>5, <2>1, <2>2
       DEF StopPutTimesOut, AfterPut, Return, producer, consumer, TypeOK, Producing, Hands, Points
  <2> QED
    BY <2>2, <2>3 DEF IInv
<1>6. CASE Joined
  BY <1>6, ConsumerCancelled DEF Joined, Return
<1> QED
  BY <1>1, <1>2, <1>3, <1>4, <1>5, <1>6 DEF StopGoesOn

(* The calls of start and of the stop methods.                             *)
LEMMA CallSteps == IInv /\ Callers => IInv'
<1> USE DEF ProducerPoints, ConsumerPoints, StopPoints, Methods
<1> SUFFICES ASSUME IInv, Callers PROVE IInv'
  OBVIOUS
<1> TypeOK /\ UnfinishedCounts /\ TicksFirst /\ Producing /\ Hands /\ Points
  BY DEF IInv
<1>1. CASE Start
  <2>1. Taken' = Taken /\ InHand' = InHand /\ Accepted' = Accepted
    BY <1>1 DEF Start, Taken, InHand, Accepted, Points
  <2>2. queue' \in Seq(0 .. MaxTicks) /\ unfinished' \in Nat /\ TicksFirst' /\ UnfinishedCounts'
    BY <1>1, <2>1, LeavesQueue DEF Start
  <2>3. TypeOK' /\ Producing' /\ Hands' /\ Points'
    BY <1>1, <2>1, <2>2 DEF Start, stopper, TypeOK, Producing, Hands, Points
  <2> QED
    BY <2>2, <2>3 DEF IInv
<1>2. CASE FeedStop
  <2>1. Taken' = Taken /\ InHand' = InHand /\ Accepted' = Accepted
    BY <1>2 DEF FeedStop, producer, consumer, Taken, InHand, Accepted
  <2>2. queue' \in Seq(0 .. MaxTicks) /\ unfinished' \in Nat /\ TicksFirst' /\ UnfinishedCounts'
    BY <1>2, <2>1, LeavesQueue DEF FeedStop
  <2>3. TypeOK' /\ Producing' /\ Hands' /\ Points'
    BY <1>2, <2>1, <2>2 DEF FeedStop, producer, consumer, TypeOK, Producing, Hands, Points
  <2> QED
    BY <2>2, <2>3 DEF IInv
<1>3. CASE ProducerStop
  <2>1. Taken' = Taken /\ InHand' = InHand /\ UNCHANGED fetched /\ pstopped'
    BY <1>3 DEF ProducerStop, consumer, Taken, InHand
  <2>2. dropped' \in 0 .. 1 /\ dropped' \in 0 .. MaxTicks /\ Accepted' = Accepted /\ ppc' # "put"
    <3>1. CASE ppc = "put"
      <4>1. ppc' = "done" /\ dropped' = dropped + 1
        BY <1>3, <3>1 DEF ProducerStop
      <4>2. dropped = 0 /\ fetched \in 0 .. MaxTicks /\ MaxTicks \in Nat /\ fetched > 0
        BY <3>1, NothingDropped
      <4> QED
        BY <2>1, <3>1, <4>1, <4>2 DEF Accepted
    <3>2. CASE ppc # "put"
      <4>1. ppc' # "put" /\ UNCHANGED dropped
        BY <1>3, <3>2 DEF ProducerStop
      <4>2. dropped \in 0 .. 1 /\ dropped \in 0 .. MaxTicks
        BY FeedAssumption DEF TypeOK, Hands
      <4> QED
        BY <2>1, <3>2, <4>1, <4>2 DEF Accepted
    <3> QED
      BY <3>1, <3>2
  <2>3. queue' \in Seq(0 .. MaxTicks) /\ unfinished' \in Nat /\ TicksFirst' /\ UnfinishedCounts'
    BY <1>3, <2>1, <2>2, LeavesQueue DEF ProducerStop
  <2>4. TypeOK'
    BY <1>3, <2>1, <2>2, <2>3 DEF ProducerStop, consumer, TypeOK
  <2>5. Producing' /\ Hands' /\ Points'
    BY <1>3, <2>1, <2>2 DEF ProducerStop, consumer, Producing, Hands, Points, TypeOK
  <2> QED
    BY <2>3, <2>4, <2>5 DEF IInv
<1>4. CASE ConsumerStop
  BY <1>4, ConsumerCancelled DEF ConsumerStop
<1> QED
  BY <1>1, <1>2, <1>3, <1>4 DEF Callers

LEMMA Steps == IInv /\ [Next]_vars => IInv'
<1>1. ASSUME IInv, UNCHANGED vars PROVE IInv'
  <2>1. TypeOK' /\ UnfinishedCounts'
    BY <1>1 DEF vars, producer, consumer, stopper, IInv, TypeOK, UnfinishedCounts, InHand
  <2>2. TicksFirst'
    BY <1>1 DEF vars, producer, consumer, stopper, IInv, TicksFirst, Taken, InHand, Accepted
  <2>3. Producing' /\ Hands' /\ Points'
    BY <1>1 DEF vars, producer, consumer, stopper, IInv, Producing, Hands, Points, Taken,
               InHand, Accepted
  <2> QED
    BY <2>1, <2>2, <2>3 DEF IInv
<1> QED
  BY <1>1, ProducerSteps, ConsumerSteps, StopSteps, CallSteps DEF Next

LEMMA Invariance == Spec => []IInv
  BY Initially, Steps, PTL DEF Spec

-----------------------------------------------------------------------------
(* What queue.join() waits for is what is queued or in hand, whatever is   *)
(* cancelled where (task_done in _consume).                                *)
THEOREM CountIsRight == Spec => []UnfinishedCounts
<1>1. IInv => UnfinishedCounts
  BY DEF IInv
<1> QED
  BY <1>1, Invariance, PTL

(* Ticks are handled in the order of the source, without a gap, and at     *)
(* most one is lost, the last one fetched.                                 *)
THEOREM HandledInOrder == Spec => []StreamInOrder
<1>1. ASSUME IInv PROVE StreamInOrder
  <2>1. \A k \in DOMAIN queue : queue[k] # Sentinel => queue[k] = Taken + k
    <3>1. DOMAIN queue = 1 .. Len(queue)
      BY <1>1 DEF IInv, TypeOK
    <3> QED
      BY <1>1, <3>1 DEF IInv, TicksFirst
  <2> QED
    BY <1>1, <2>1 DEF IInv, Hands, StreamInOrder
<1> QED
  BY <1>1, Invariance, PTL

-----------------------------------------------------------------------------
LEMMA InitRefines == Init => Stream!Init
  BY DEF Init, Stream!Init, Accepted

(* A step that leaves the stream as it is.                                 *)
LEMMA Unseen ==
  ASSUME Accepted' = Accepted, UNCHANGED <<handled, cstopped>>,
         (caller = "feed")' = (caller = "feed")
  PROVE  [Stream!Next]_(Stream!vars)
  BY DEF Stream!vars

LEMMA SourceRefines == IInv /\ (Source \/ ProducerPuts) => [Stream!Next]_(Stream!vars)
<1> SUFFICES ASSUME IInv, Source \/ ProducerPuts PROVE [Stream!Next]_(Stream!vars)
  OBVIOUS
<1>1. UNCHANGED <<handled, cstopped, caller>>
  BY DEF Source, ProducerPuts, Fetch, FetchStopped, SourceEnds, PutTick, PutSentinel, consumer,
         stopper
<1>2. fetched \in Nat /\ dropped \in Nat
  BY FeedAssumption DEF IInv, TypeOK
<1>3. Accepted' = Accepted \/ Accepted' = Accepted + 1
  BY <1>2 DEF Source, ProducerPuts, Fetch, FetchStopped, SourceEnds, PutTick, PutSentinel, Finally,
              Accepted
<1>4. Accepted' = Accepted + 1 => Stream!Accept
  BY <1>1 DEF Stream!Accept
<1> QED
  BY <1>1, <1>3, <1>4, Unseen DEF Stream!Next

LEMMA ConsumerRefines == IInv /\ Consumer => [Stream!Next]_(Stream!vars)
<1> SUFFICES ASSUME IInv, Consumer PROVE [Stream!Next]_(Stream!vars)
  OBVIOUS
<1>1. Accepted' = Accepted /\ UNCHANGED <<cstopped, caller>>
  BY DEF Consumer, GetTick, GetSentinel, HandlerEnds, producer, stopper, Accepted
<1>2. CASE HandlerEnds
  <2>1. /\ ~cstopped /\ hand = Len(handled) + 1 /\ Taken = Len(handled) + 1
    BY <1>2 DEF HandlerEnds, IInv, TypeOK, Hands, Taken, InHand
  <2>2. Len(handled) < Accepted
    BY <2>1, Counts DEF IInv, TicksFirst, TypeOK
  <2>3. Stream!Handle
    BY <1>1, <1>2, <2>1, <2>2 DEF HandlerEnds, Stream!Handle
  <2> QED
    BY <2>3 DEF Stream!Next
<1>3. CASE GetTick \/ GetSentinel
  BY <1>1, <1>3, Unseen DEF GetTick, GetSentinel
<1> QED
  BY <1>2, <1>3 DEF Consumer

(* stop() returns only when everything accepted has been handled.          *)
LEMMA JoinedRefines == IInv /\ Joined => [Stream!Next]_(Stream!vars)
<1> SUFFICES ASSUME IInv, Joined PROVE Stream!StopReturns
  BY DEF Stream!Next
<1>1. caller = "feed" /\ caller' = "none" /\ cstopped' /\ UNCHANGED handled /\ Accepted' = Accepted
  BY DEF Joined, Return, IInv, Points, producer, Accepted
<1>2. Len(queue) = 0 /\ InHand = 0
  BY Counts DEF IInv, Joined, UnfinishedCounts
<1>3. ASSUME ~cstopped PROVE Len(handled) = Accepted
  <2>1. interrupted = 0
    BY <1>3 DEF IInv, Hands, TypeOK
  <2> QED
    BY <1>2, <2>1, Counts DEF IInv, TicksFirst, TypeOK, Taken
<1> QED
  BY <1>1, <1>3 DEF Stream!StopReturns

LEMMA StopRefines == IInv /\ StopGoesOn => [Stream!Next]_(Stream!vars)
<1> SUFFICES ASSUME IInv, StopGoesOn PROVE [Stream!Next]_(Stream!vars)
  OBVIOUS
<1>1. CASE ProducerEnded \/ CancelledEnded
  BY <1>1, Unseen DEF ProducerEnded, CancelledEnded, producer, consumer, Accepted
<1>2. CASE StopPuts \/ StopPutTimesOut
  BY <1>2, Unseen DEF StopPuts, StopPutTimesOut, AfterPut, Return, producer, consumer, Accepted
<1>3. CASE ProducerTimesOut
  <2>1. fetched \in Nat /\ dropped \in Nat
    BY FeedAssumption DEF IInv, TypeOK
  <2>2. Accepted' = Accepted
    BY <1>3, <2>1 DEF ProducerTimesOut, CancelProducer, Finally, Accepted
  <2> QED
    BY <1>3, <2>2, Unseen DEF ProducerTimesOut, consumer
<1>4. CASE Joined
  BY <1>4, JoinedRefines
<1> QED
  BY <1>1, <1>2, <1>3, <1>4 DEF StopGoesOn

LEMMA CallRefines == IInv /\ Callers => [Stream!Next]_(Stream!vars)
<1> SUFFICES ASSUME IInv, Callers PROVE [Stream!Next]_(Stream!vars)
  OBVIOUS
<1>1. CASE Start
  BY <1>1, Unseen DEF Start, stopper, Accepted
<1>2. CASE FeedStop
  <2>1. Stream!Stop
    BY <1>2 DEF FeedStop, producer, consumer, Accepted, Stream!Stop
  <2> QED
    BY <2>1 DEF Stream!Next
<1>3. CASE ProducerStop
  <2>1. fetched \in Nat /\ dropped \in Nat
    BY FeedAssumption DEF IInv, TypeOK
  <2>2. Accepted' = Accepted
    BY <1>3, <2>1 DEF ProducerStop, Accepted
  <2> QED
    BY <1>3, <2>2, Unseen DEF ProducerStop, consumer
<1>4. CASE ConsumerStop
  <2>1. Stream!Abandon
    BY <1>4 DEF ConsumerStop, producer, stopper, Accepted, Stream!Abandon
  <2> QED
    BY <2>1 DEF Stream!Next
<1> QED
  BY <1>1, <1>2, <1>3, <1>4 DEF Callers

LEMMA NextRefines == IInv /\ [Next]_vars => [Stream!Next]_(Stream!vars)
<1>1. UNCHANGED vars => [Stream!Next]_(Stream!vars)
  BY Unseen DEF vars, producer, consumer, stopper, Accepted
<1> QED
  BY <1>1, SourceRefines, ConsumerRefines, StopRefines, CallRefines DEF Next

(* The feed with its queue, its tasks and their cancellation is a stream   *)
(* that hands over what it accepted, once and in order, and that stop()    *)
(* leaves only when it is drained.                                         *)
THEOREM Refinement == Spec => ImplementsTickStream
  BY InitRefines, Invariance, NextRefines, PTL DEF Spec, ImplementsTickStream, Stream!Spec

-----------------------------------------------------------------------------
(* A feed that replays a file takes steps of the feed only, so that the    *)
(* theorems above hold of it as well (ReplayMarketData.stream_ticks).      *)
THEOREM ReplayIsFeed == ReplaySpec => Spec
<1>1. ReplayInit => Init
  BY DEF ReplayInit
<1>2. [ReplayNext]_<<vars, replay>> => [Next]_vars
  BY DEF ReplayNext, ReplayStep, ReplaySource, Next, Source
<1> QED
  BY <1>1, <1>2, PTL DEF ReplaySpec, Spec
-----------------------------------------------------------------------------
(* Folds over lists.  FoldLeft is defined by recursion over the sets of    *)
(* indices, last one first: induction is by well-founded orders.           *)

(* A set of indices has a last one.                                        *)
LEMMA MaxIsLast ==
    ASSUME NEW n \in Nat, NEW s \in SUBSET (1 .. n), s # {}
    PROVE  Max(s) \in s /\ \A x \in s : x <= Max(s)
<1>. DEFINE Bounds == {b \in Nat : \A x \in s : x <= b}
<1>1. Bounds # {} /\ Bounds \subseteq Nat
  <2>1. n \in Bounds
    OBVIOUS
  <2>. QED
    BY <2>1
<1>2. PICK b \in Bounds : \A c \in Bounds : ~ (<<c, b>> \in OpToRel(<, Nat))
  <2>. HIDE DEF Bounds
  <2>. QED
    BY <1>1, NatLessThanWellFounded, WFMin, Zenon
<1>3. b \in s
  <2>. SUFFICES ASSUME b \notin s PROVE FALSE
    OBVIOUS
  <2>1. b \in Nat /\ \A x \in s : x \in Int /\ 1 <= x /\ x <= b /\ x # b
    OBVIOUS
  <2>2. b - 1 \in Nat /\ \A x \in s : x <= b - 1
    <3>. HIDE DEF Bounds
    <3>1. PICK x \in s : TRUE
      OBVIOUS
    <3>2. b - 1 \in Nat
      BY <2>1, <3>1
    <3>3. ASSUME NEW y \in s PROVE y <= b - 1
      BY <2>1
    <3>. QED
      BY <3>2, <3>3
  <2>3. b - 1 \in Bounds /\ <<b - 1, b>> \in OpToRel(<, Nat)
    BY <2>2 DEF OpToRel
  <2>. QED
    BY <1>2, <2>3
<1>4. b \in s /\ \A x \in s : b >= x
  BY <1>3
<1>5. Max(s) \in s /\ \A x \in s : Max(s) >= x
  <2>. HIDE DEF Bounds
  <2>. QED
    BY <1>4 DEF Max
<1>. QED
  BY <1>5

(* A fold is a function of sets of indices, whose values are its states:   *)
(* step[a][i] is the state after the i-th element in the state a.          *)
FoldValue(base, step, h, s) ==
    IF s = {} THEN base ELSE step[h[s \ {Max(s)}]][Max(s)]

IsFold(n, States, base, step, h) ==
    /\ h \in [SUBSET (1 .. n) -> States]
    /\ \A s \in SUBSET (1 .. n) : h[s] = FoldValue(base, step, h, s)

LEMMA FoldExists ==
    ASSUME NEW n \in Nat, NEW States, NEW base \in States, NEW step \in [States -> [1 .. n -> States]]
    PROVE  \E h : IsFold(n, States, base, step, h)
<1>. DEFINE D == 1 .. n
            UpTo(m, h) == \A s \in SUBSET D : Cardinality(s) <= m => h[s] = FoldValue(base, step, h, s)
            Bad == {m \in Nat : ~ \E h \in [SUBSET D -> States] : UpTo(m, h)}
<1>1. /\ IsFiniteSet(D) /\ Cardinality(D) \in Nat
      /\ \A s \in SUBSET D : IsFiniteSet(s) /\ Cardinality(s) \in Nat /\ Cardinality(s) <= Cardinality(D)
  <2>1. IsFiniteSet(D)
    BY FS_Interval
  <2>. HIDE DEF D
  <2>. QED
    BY <2>1, FS_CardinalityType, FS_Subset
<1>2. 0 \notin Bad
  <2>. DEFINE h == [s \in SUBSET D |-> base]
  <2>1. ASSUME NEW s \in SUBSET D, Cardinality(s) <= 0
        PROVE  s = {}
    <3>. HIDE DEF Bad, h, D
    <3>1. IsFiniteSet(s) /\ Cardinality(s) = 0
      BY <2>1, <1>1
    <3>. QED
      BY <3>1, FS_EmptySet
  <2>2. h \in [SUBSET D -> States] /\ UpTo(0, h)
    BY <2>1 DEF FoldValue
  <2>. HIDE DEF h, UpTo
  <2>. QED
    BY <2>2
<1>3. ASSUME NEW m \in Nat, m \notin Bad
      PROVE  m + 1 \notin Bad
  <2>1. PICK h \in [SUBSET D -> States] : UpTo(m, h)
    BY <1>3
  <2>. DEFINE g == [s \in SUBSET D |-> FoldValue(base, step, h, s)]
  <2>2. \A s \in SUBSET D : s # {} => Max(s) \in s
    BY MaxIsLast
  <2>3. g \in [SUBSET D -> States]
    <3>1. ASSUME NEW s \in SUBSET D, s # {}
          PROVE  FoldValue(base, step, h, s) \in States
      <4>1. Max(s) \in D /\ s \ {Max(s)} \in SUBSET D
        BY <2>2, <3>1
      <4>2. h[s \ {Max(s)}] \in States
        BY <4>1
      <4>3. step[h[s \ {Max(s)}]] \in [D -> States]
        BY <4>2
      <4>4. step[h[s \ {Max(s)}]][Max(s)] \in States
        BY <4>1, <4>3, Zenon
      <4>. QED
        BY <3>1, <4>4 DEF FoldValue
    <3>2. FoldValue(base, step, h, {}) \in States
      BY DEF FoldValue
    <3>. QED
      BY <3>1, <3>2
  <2>4. UpTo(m + 1, g)
    <3>1. SUFFICES ASSUME NEW s \in SUBSET D, Cardinality(s) <= m + 1
                   PROVE  g[s] = FoldValue(base, step, g, s)
      OBVIOUS
    <3>2. CASE s = {}
      BY <3>2 DEF FoldValue
    <3>3. CASE s # {}
      <4>. DEFINE x == Max(s)
      <4>1. x \in s
        BY <2>2, <3>3
      <4>. HIDE DEF x
      <4>2. Cardinality(s \ {x}) = Cardinality(s) - 1 /\ s \ {x} \in SUBSET D
        BY <1>1, <4>1, FS_RemoveElement
      <4>3. Cardinality(s \ {x}) <= m
        BY <1>1, <3>1, <4>2
      <4>4. h[s \ {x}] = g[s \ {x}]
        BY <2>1, <4>2, <4>3
      <4>5. g[s] = step[h[s \ {x}]][x] /\ FoldValue(base, step, g, s) = step[g[s \ {x}]][x]
        BY <3>3 DEF FoldValue, x
      <4>. QED
        BY <4>4, <4>5
    <3>. QED
      BY <3>2, <3>3
  <2>. HIDE DEF g, UpTo
  <2>. QED
    BY <2>3, <2>4
<1>4. Bad = {}
  <2>. SUFFICES ASSUME Bad # {} PROVE FALSE
    OBVIOUS
  <2>. HIDE DEF Bad
  <2>1. Bad \subseteq Nat
    BY DEF Bad
  <2>2. PICK m \in Bad : \A k \in Bad : ~ (<<k, m>> \in OpToRel(<, Nat))
    BY <2>1, NatLessThanWellFounded, WFMin, Zenon
  <2>3. m - 1 \in Nat /\ (m - 1) + 1 = m
    BY <1>2, <2>1
  <2>4. m - 1 \in Bad
    BY <1>3, <2>3
  <2>5. <<m - 1, m>> \in OpToRel(<, Nat)
    BY <2>1, <2>3 DEF OpToRel
  <2>. QED
    BY <2>2, <2>4, <2>5
<1>5. PICK h \in [SUBSET D -> States] : UpTo(Cardinality(D), h)
  BY <1>1, <1>4
<1>. QED
  BY <1>1, <1>5 DEF IsFold

(* The last index of a beginning, and what comes before it.                *)
LEMMA PrefixLast ==
    ASSUME NEW n \in Nat, NEW k \in 1 .. n
    PROVE  /\ 1 .. k \in SUBSET (1 .. n) /\ 1 .. k # {}
           /\ Max(1 .. k) = k
           /\ (1 .. k) \ {k} = 1 .. k - 1
<1>1. 1 .. k \in SUBSET (1 .. n) /\ 1 .. k # {} /\ k \in 1 .. k
  OBVIOUS
<1>2. Max(1 .. k) \in 1 .. k /\ k <= Max(1 .. k)
  BY <1>1, MaxIsLast
<1>3. (1 .. k) \ {k} = 1 .. k - 1
  <2>1. \A m : m \in (1 .. k) \ {k} <=> m \in 1 .. k - 1
    OBVIOUS
  <2>. QED
    BY <2>1
<1>. QED
  BY <1>1, <1>2, <1>3
-----------------------------------------------------------------------------
(* The loading of a list of rows.                                          *)
LoadState == [ticks : Seq(Rows), prev : Nat, error : BOOLEAN]

LEMMA LoadRowType ==
    ASSUME NEW a \in LoadState, NEW row \in Rows
    PROVE  LoadRow(a, row) \in LoadState
<1>1. row.timestamp \in Nat
  BY ReplayAssumption DEF Rows
<1>2. Append(a.ticks, row) \in Seq(Rows)
  BY DEF LoadState
<1>. QED
  BY <1>1, <1>2 DEF LoadRow, LoadState

(* What FoldLeft is evaluated by: the rows up to the last one of a set.    *)
LoadedBy(rows, h, s) ==
    IF s = {} THEN NothingRead ELSE LoadRow(h[s \ {Max(s)}], rows[Max(s)])

Loads(rows, h) == h = [s \in SUBSET DOMAIN rows |-> LoadedBy(rows, h, s)]

LEMMA FoldIsLast ==
    ASSUME NEW rows, \E h : Loads(rows, h)
    PROVE  \E h : Loads(rows, h) /\ FoldLeft(LoadRow, NothingRead, rows) = h[DOMAIN rows]
<1>. DEFINE it == CHOOSE h : Loads(rows, h)
<1>1. Loads(rows, it)
  OBVIOUS
<1>2. FoldLeft(LoadRow, NothingRead, rows) = it[DOMAIN rows]
  BY DEF FoldLeft, MapThenFoldSet, Loads, LoadedBy
<1>. QED
  BY <1>1, <1>2

LEMMA LoadsExist ==
    ASSUME NEW rows \in Seq(Rows)
    PROVE  \E h : Loads(rows, h)
<1>. DEFINE n == Len(rows)
            step == [a \in LoadState |-> [i \in 1 .. n |-> LoadRow(a, rows[i])]]
<1>1. n \in Nat /\ DOMAIN rows = 1 .. n /\ \A i \in 1 .. n : rows[i] \in Rows
  OBVIOUS
<1>2. NothingRead \in LoadState
  BY DEF NothingRead, LoadState, NoTimestamp
<1>3. step \in [LoadState -> [1 .. n -> LoadState]]
  BY <1>1, LoadRowType
<1>4. PICK h : IsFold(n, LoadState, NothingRead, step, h)
  <2>. HIDE DEF n, step
  <2>. QED
    BY <1>1, <1>2, <1>3, FoldExists
<1>5. ASSUME NEW s \in SUBSET (1 .. n), s # {}
      PROVE  h[s] = LoadRow(h[s \ {Max(s)}], rows[Max(s)])
  <2>1. Max(s) \in 1 .. n /\ s \ {Max(s)} \in SUBSET (1 .. n)
    BY <1>1, <1>5, MaxIsLast
  <2>2. h[s \ {Max(s)}] \in LoadState
    BY <1>4, <2>1 DEF IsFold
  <2>. QED
    BY <1>4, <1>5, <2>1, <2>2 DEF IsFold, FoldValue
<1>6. h[{}] = NothingRead
  BY <1>4 DEF IsFold, FoldValue
<1>7. \A s \in SUBSET (1 .. n) : h[s] = LoadedBy(rows, h, s)
  BY <1>5, <1>6 DEF LoadedBy
<1>8. h = [s \in SUBSET DOMAIN rows |-> LoadedBy(rows, h, s)]
  <2>. HIDE DEF n
  <2>. QED
    BY <1>1, <1>4, <1>7 DEF IsFold
<1>. QED
  BY <1>8 DEF Loads

(* The rows up to the k-th have been taken, or one of them refused.        *)
Good(rows, k) ==
    /\ \A i \in 1 .. k : rows[i].valid
    /\ \A i, j \in 1 .. k : i < j => rows[i].timestamp <= rows[j].timestamp

LoadedTo(rows, k, so_far) ==
    /\ so_far \in LoadState
    /\ ~ so_far.error <=> Good(rows, k)
    /\ ~ so_far.error =>
          /\ Len(so_far.ticks) = k
          /\ \A i \in 1 .. k : so_far.ticks[i] = rows[i] /\ rows[i].timestamp <= so_far.prev
          /\ k > 0 => so_far.prev = rows[k].timestamp
          /\ k = 0 => so_far.prev = 0

LEMMA LoadRowTakes ==
    ASSUME NEW rows \in Seq(Rows), NEW k \in 1 .. Len(rows), NEW so_far,
           LoadedTo(rows, k - 1, so_far)
    PROVE  LoadedTo(rows, k, LoadRow(so_far, rows[k]))
<1>. DEFINE row == rows[k]
<1>1. /\ row \in Rows /\ row.timestamp \in Nat /\ row.valid \in BOOLEAN
      /\ \A i \in 1 .. k : rows[i] \in Rows /\ rows[i].timestamp \in Nat
  <2>1. \A i \in 1 .. k : rows[i] \in Rows
    OBVIOUS
  <2>2. \A r \in Rows : r.timestamp \in Nat /\ r.valid \in BOOLEAN
    BY ReplayAssumption DEF Rows
  <2>. QED
    BY <2>1, <2>2
<1>2. 1 .. k = (1 .. k - 1) \cup {k} /\ k - 1 \in Nat
  OBVIOUS
<1>3. Good(rows, k) <=> /\ Good(rows, k - 1)
                        /\ row.valid
                        /\ \A i \in 1 .. k - 1 : rows[i].timestamp <= row.timestamp
  BY <1>1, <1>2 DEF Good
<1>4. so_far \in LoadState
  BY DEF LoadedTo
<1>5. CASE so_far.error \/ row.timestamp < so_far.prev \/ ~ row.valid
  <2>1. LoadRow(so_far, row) = [so_far EXCEPT !.error = TRUE]
    BY <1>5 DEF LoadRow
  <2>2. ~ Good(rows, k)
    <3>1. CASE so_far.error
      BY <1>3, <3>1 DEF LoadedTo
    <3>2. CASE ~ so_far.error /\ row.timestamp < so_far.prev
      <4>1. k - 1 # 0
        BY <1>1, <3>2 DEF LoadedTo
      <4>2. so_far.prev = rows[k - 1].timestamp /\ k - 1 \in 1 .. k - 1
        BY <1>2, <3>2, <4>1 DEF LoadedTo
      <4>. QED
        BY <1>1, <1>2, <1>3, <3>2, <4>2
    <3>. QED
      BY <1>3, <1>5, <3>1, <3>2
  <2>. QED
    BY <1>4, <2>1, <2>2 DEF LoadedTo, LoadState
<1>6. CASE ~ (so_far.error \/ row.timestamp < so_far.prev \/ ~ row.valid)
  <2>. DEFINE new == [so_far EXCEPT !.ticks = Append(@, row), !.prev = row.timestamp]
  <2>1. LoadRow(so_far, row) = new
    BY <1>6 DEF LoadRow
  <2>2. /\ new \in LoadState
        /\ new.ticks = Append(so_far.ticks, row)
        /\ new.prev = row.timestamp /\ new.error = FALSE
    <3>1. so_far.ticks \in Seq(Rows) /\ so_far.prev \in Nat /\ so_far.error = FALSE
      BY <1>4, <1>6 DEF LoadState
    <3>2. Append(so_far.ticks, row) \in Seq(Rows)
      BY <1>1, <3>1
    <3>. HIDE DEF row
    <3>. QED
      BY <1>1, <1>4, <3>1, <3>2 DEF LoadState
  <2>3. \A i \in 1 .. k - 1 : rows[i].timestamp <= row.timestamp
    BY <1>1, <1>2, <1>4, <1>6 DEF LoadedTo, LoadState
  <2>4. Good(rows, k)
    BY <1>3, <1>6, <2>3 DEF LoadedTo
  <2>5. Len(new.ticks) = k /\ \A i \in 1 .. k : new.ticks[i] = rows[i]
    BY <1>2, <1>4, <1>6, <2>2 DEF LoadedTo
  <2>6. \A i \in 1 .. k : rows[i].timestamp <= new.prev
    BY <1>1, <1>2, <2>2, <2>3
  <2>. HIDE DEF new
  <2>. QED
    BY <1>2, <2>1, <2>2, <2>4, <2>5, <2>6 DEF LoadedTo
<1>. QED
  BY <1>5, <1>6

LEMMA FoldTakes ==
    ASSUME NEW rows \in Seq(Rows)
    PROVE  LoadedTo(rows, Len(rows), FoldLeft(LoadRow, NothingRead, rows))
<1>. DEFINE n == Len(rows)
<1>1. n \in Nat /\ DOMAIN rows = 1 .. n
  OBVIOUS
<1>2. PICK h : Loads(rows, h) /\ FoldLeft(LoadRow, NothingRead, rows) = h[DOMAIN rows]
  BY <1>1, LoadsExist, FoldIsLast
<1>3. \A s \in SUBSET (1 .. n) : h[s] = LoadedBy(rows, h, s)
  BY <1>1, <1>2 DEF Loads
<1>. DEFINE Bad == {k \in 0 .. n : ~ LoadedTo(rows, k, h[1 .. k])}
<1>4. Bad = {}
  <2>. SUFFICES ASSUME Bad # {} PROVE FALSE
    OBVIOUS
  <2>1. PICK k \in Bad : \A m \in Bad : ~ (<<m, k>> \in OpToRel(<, Nat))
    <3>1. Bad \subseteq Nat
      BY <1>1
    <3>. HIDE DEF Bad
    <3>. QED
      BY <3>1, NatLessThanWellFounded, WFMin, Zenon
  <2>2. k \in 0 .. n /\ k \in Nat /\ 1 .. k \in SUBSET (1 .. n)
    BY <1>1
  <2>3. CASE k = 0
    <3>1. h[1 .. 0] = NothingRead
      <4>1. 1 .. 0 = {}
        OBVIOUS
      <4>. QED
        BY <1>3, <4>1 DEF LoadedBy
    <3>2. LoadedTo(rows, 0, NothingRead)
      BY DEF LoadedTo, LoadState, Good, NothingRead, NoTimestamp
    <3>. QED
      BY <2>3, <3>1, <3>2
  <2>4. CASE k # 0
    <3>1. k - 1 \in 0 .. n /\ <<k - 1, k>> \in OpToRel(<, Nat)
      BY <2>2, <2>4 DEF OpToRel
    <3>2. LoadedTo(rows, k - 1, h[1 .. k - 1])
      BY <2>1, <3>1
    <3>3. 1 .. k # {} /\ Max(1 .. k) = k /\ (1 .. k) \ {k} = 1 .. k - 1
      BY <1>1, <2>2, <2>4, PrefixLast
    <3>4. h[1 .. k] = LoadRow(h[1 .. k - 1], rows[k])
      BY <1>3, <2>2, <3>3 DEF LoadedBy
    <3>5. LoadedTo(rows, k, h[1 .. k])
      BY <2>2, <2>4, <3>2, <3>4, LoadRowTakes
    <3>. QED
      BY <3>5
  <2>. QED
    BY <2>3, <2>4
<1>5. n \in 0 .. n
  BY <1>1
<1>6. LoadedTo(rows, n, h[1 .. n])
  BY <1>4, <1>5
<1>. QED
  BY <1>1, <1>2, <1>6

(* The list of one symbol.                                                 *)
StreamedBy(symbol, rows, h, s) ==
    IF s = {} THEN <<>> ELSE IndexTick(symbol, h[s \ {Max(s)}], rows[Max(s)])

Streams(symbol, rows, h) == h = [s \in SUBSET DOMAIN rows |-> StreamedBy(symbol, rows, h, s)]

StreamOf(symbol, rows) ==
    FoldLeft(LAMBDA list, tick : IndexTick(symbol, list, tick), <<>>, rows)

LEMMA StreamIsLast ==
    ASSUME NEW symbol, NEW rows, \E h : Streams(symbol, rows, h)
    PROVE  \E h : Streams(symbol, rows, h) /\ StreamOf(symbol, rows) = h[DOMAIN rows]
<1>. DEFINE it == CHOOSE h : Streams(symbol, rows, h)
<1>1. Streams(symbol, rows, it)
  OBVIOUS
<1>2. StreamOf(symbol, rows) = it[DOMAIN rows]
  BY DEF StreamOf, FoldLeft, MapThenFoldSet, Streams, StreamedBy
<1>. QED
  BY <1>1, <1>2

LEMMA StreamsExist ==
    ASSUME NEW symbol, NEW rows \in Seq(Rows)
    PROVE  \E h : Streams(symbol, rows, h)
<1>. DEFINE n == Len(rows)
            step == [a \in Seq(Rows) |-> [i \in 1 .. n |-> IndexTick(symbol, a, rows[i])]]
<1>1. n \in Nat /\ DOMAIN rows = 1 .. n /\ \A i \in 1 .. n : rows[i] \in Rows
  OBVIOUS
<1>2. <<>> \in Seq(Rows)
  OBVIOUS
<1>3. step \in [Seq(Rows) -> [1 .. n -> Seq(Rows)]]
  BY <1>1 DEF IndexTick
<1>4. PICK h : IsFold(n, Seq(Rows), <<>>, step, h)
  <2>. HIDE DEF n, step
  <2>. QED
    BY <1>1, <1>2, <1>3, FoldExists
<1>5. ASSUME NEW s \in SUBSET (1 .. n), s # {}
      PROVE  h[s] = IndexTick(symbol, h[s \ {Max(s)}], rows[Max(s)])
  <2>1. Max(s) \in 1 .. n /\ s \ {Max(s)} \in SUBSET (1 .. n)
    BY <1>1, <1>5, MaxIsLast
  <2>2. h[s \ {Max(s)}] \in Seq(Rows)
    BY <1>4, <2>1 DEF IsFold
  <2>. QED
    BY <1>4, <1>5, <2>1, <2>2 DEF IsFold, FoldValue
<1>6. h[{}] = <<>>
  BY <1>4 DEF IsFold, FoldValue
<1>7. \A s \in SUBSET (1 .. n) : h[s] = StreamedBy(symbol, rows, h, s)
  BY <1>5, <1>6 DEF StreamedBy
<1>8. h = [s \in SUBSET DOMAIN rows |-> StreamedBy(symbol, rows, h, s)]
  <2>. HIDE DEF n
  <2>. QED
    BY <1>1, <1>4, <1>7 DEF IsFold
<1>. QED
  BY <1>8 DEF Streams

OfSymbol(symbol, rows, k) == {i \in 1 .. k : rows[i].symbol = symbol}

StreamedTo(symbol, rows, k, list) ==
    /\ list \in Seq(Rows)
    /\ Len(list) = Cardinality(OfSymbol(symbol, rows, k))
    /\ \A i \in DOMAIN list : \E j \in 1 .. k : list[i] = rows[j]
    /\ \A i, j \in DOMAIN list : i < j => list[i].timestamp <= list[j].timestamp

LEMMA IndexTickAdds ==
    ASSUME NEW symbol, NEW rows \in Seq(Rows), Good(rows, Len(rows)),
           NEW k \in 1 .. Len(rows), NEW list, StreamedTo(symbol, rows, k - 1, list)
    PROVE  StreamedTo(symbol, rows, k, IndexTick(symbol, list, rows[k]))
<1>. DEFINE row == rows[k]
            old == OfSymbol(symbol, rows, k - 1)
<1>1. /\ row \in Rows
      /\ \A j \in 1 .. k : rows[j].timestamp <= row.timestamp
      /\ \A r \in Rows : r.timestamp \in Nat
  <2>1. \A r \in Rows : r.timestamp \in Nat
    BY ReplayAssumption DEF Rows
  <2>2. \A j \in 1 .. k : rows[j] \in Rows /\ j \in 1 .. Len(rows)
    OBVIOUS
  <2>3. k \in 1 .. k
    OBVIOUS
  <2>4. \A j \in 1 .. k : j # k => rows[j].timestamp <= row.timestamp
    BY <2>2, <2>3 DEF Good
  <2>. QED
    BY <2>1, <2>2, <2>3, <2>4
<1>2. k - 1 \in Nat /\ 1 .. k = (1 .. k - 1) \cup {k} /\ k \notin 1 .. k - 1
  OBVIOUS
<1>3. IsFiniteSet(old) /\ k \notin old
  <2>1. IsFiniteSet(1 .. k - 1)
    BY <1>2, FS_Interval
  <2>. QED
    BY <1>2, <2>1, FS_Subset DEF OfSymbol
<1>4. CASE row.symbol # symbol
  <2>1. OfSymbol(symbol, rows, k) = old
    BY <1>2, <1>4 DEF OfSymbol
  <2>2. IndexTick(symbol, list, row) = list
    BY <1>4 DEF IndexTick
  <2>. QED
    BY <1>2, <2>1, <2>2 DEF StreamedTo
<1>5. CASE row.symbol = symbol
  <2>. DEFINE new == Append(list, row)
              n == Len(list)
  <2>1. OfSymbol(symbol, rows, k) = old \cup {k}
    BY <1>2, <1>5 DEF OfSymbol
  <2>2. Cardinality(OfSymbol(symbol, rows, k)) = Cardinality(old) + 1
    BY <1>3, <2>1, FS_AddElement
  <2>3. IndexTick(symbol, list, row) = new
    BY <1>5 DEF IndexTick
  <2>4. list \in Seq(Rows) /\ n \in Nat /\ n = Cardinality(old)
    BY DEF StreamedTo
  <2>5. /\ new \in Seq(Rows) /\ Len(new) = n + 1
        /\ DOMAIN new = DOMAIN list \cup {n + 1} /\ DOMAIN list = 1 .. n
        /\ new[n + 1] = row
        /\ \A i \in DOMAIN list : new[i] = list[i] /\ list[i] \in Rows
    BY <1>1, <2>4
  <2>6. \A i \in DOMAIN new : \E j \in 1 .. k : new[i] = rows[j]
    BY <1>2, <2>5 DEF StreamedTo
  <2>7. ASSUME NEW i \in DOMAIN new, NEW j \in DOMAIN new, i < j
        PROVE  new[i].timestamp <= new[j].timestamp
    <3>1. i \in DOMAIN list
      BY <2>4, <2>5, <2>7
    <3>2. CASE j \in DOMAIN list
      BY <2>5, <2>7, <3>1, <3>2 DEF StreamedTo
    <3>3. CASE j = n + 1
      BY <1>1, <2>5, <2>6, <3>3
    <3>. QED
      BY <2>5, <3>2, <3>3
  <2>. HIDE DEF new, n, old
  <2>. QED
    BY <2>2, <2>3, <2>4, <2>5, <2>6, <2>7 DEF StreamedTo
<1>. QED
  BY <1>4, <1>5

LEMMA StreamTakes ==
    ASSUME NEW symbol, NEW rows \in Seq(Rows), Good(rows, Len(rows))
    PROVE  StreamedTo(symbol, rows, Len(rows), StreamOf(symbol, rows))
<1>. DEFINE n == Len(rows)
<1>1. n \in Nat /\ DOMAIN rows = 1 .. n
  OBVIOUS
<1>2. PICK h : Streams(symbol, rows, h) /\ StreamOf(symbol, rows) = h[DOMAIN rows]
  BY <1>1, StreamsExist, StreamIsLast
<1>3. \A s \in SUBSET (1 .. n) : h[s] = StreamedBy(symbol, rows, h, s)
  BY <1>1, <1>2 DEF Streams
<1>. DEFINE Bad == {k \in 0 .. n : ~ StreamedTo(symbol, rows, k, h[1 .. k])}
<1>4. Bad = {}
  <2>. SUFFICES ASSUME Bad # {} PROVE FALSE
    OBVIOUS
  <2>1. PICK k \in Bad : \A m \in Bad : ~ (<<m, k>> \in OpToRel(<, Nat))
    <3>1. Bad \subseteq Nat
      BY <1>1
    <3>. HIDE DEF Bad
    <3>. QED
      BY <3>1, NatLessThanWellFounded, WFMin, Zenon
  <2>2. k \in 0 .. n /\ k \in Nat /\ 1 .. k \in SUBSET (1 .. n)
    BY <1>1
  <2>3. CASE k = 0
    <3>1. h[1 .. 0] = <<>>
      <4>1. 1 .. 0 = {}
        OBVIOUS
      <4>. QED
        BY <1>3, <4>1 DEF StreamedBy
    <3>2. StreamedTo(symbol, rows, 0, <<>>)
      <4>1. OfSymbol(symbol, rows, 0) = {}
        BY DEF OfSymbol
      <4>2. <<>> \in Seq(Rows) /\ Len(<<>>) = 0 /\ DOMAIN <<>> = {}
        OBVIOUS
      <4>3. Cardinality(OfSymbol(symbol, rows, 0)) = 0
        BY <4>1, FS_EmptySet
      <4>. QED
        BY <4>2, <4>3, Zenon DEF StreamedTo
    <3>. QED
      BY <2>3, <3>1, <3>2
  <2>4. CASE k # 0
    <3>1. k - 1 \in 0 .. n /\ <<k - 1, k>> \in OpToRel(<, Nat)
      BY <2>2, <2>4 DEF OpToRel
    <3>2. StreamedTo(symbol, rows, k - 1, h[1 .. k - 1])
      BY <2>1, <3>1
    <3>3. 1 .. k # {} /\ Max(1 .. k) = k /\ (1 .. k) \ {k} = 1 .. k - 1
      BY <1>1, <2>2, <2>4, PrefixLast
    <3>4. h[1 .. k] = IndexTick(symbol, h[1 .. k - 1], rows[k])
      BY <1>3, <2>2, <3>3 DEF StreamedBy
    <3>5. StreamedTo(symbol, rows, k, h[1 .. k])
      BY <2>2, <2>4, <3>2, <3>4, IndexTickAdds
    <3>. QED
      BY <3>5
  <2>. QED
    BY <2>3, <2>4
<1>5. n \in 0 .. n
  BY <1>1
<1>6. StreamedTo(symbol, rows, n, h[1 .. n])
  BY <1>4, <1>5
<1>. QED
  BY <1>1, <1>2, <1>6

(* What a file of rows makes of the constructor.                           *)
LEMMA LoadedIfValid ==
    ASSUME NEW rows \in Seq(Rows)
    PROVE  /\ LoadTicks(rows) # Raised <=> rows # <<>> /\ Good(rows, Len(rows))
           /\ LoadTicks(rows) # Raised => LoadTicks(rows) = rows
<1>. DEFINE loaded == FoldLeft(LoadRow, NothingRead, rows)
<1>1. LoadedTo(rows, Len(rows), loaded)
  BY FoldTakes
<1>2. LoadTicks(rows) = IF loaded.error THEN Raised ELSE loaded.ticks
  BY DEF LoadTicks
<1>. HIDE DEF loaded
<1>3. ~ loaded.error => loaded.ticks = rows
  <2>1. loaded.ticks \in Seq(Rows)
    BY <1>1 DEF LoadedTo, LoadState
  <2>. QED
    BY <1>1, <2>1 DEF LoadedTo
<1>. QED
  BY <1>1, <1>2, <1>3 DEF LoadedTo, Raised

(* For every file, of any length and any symbols, the constructor accepts  *)
(* it exactly if it has rows, all good and in the order of their times,    *)
(* and the stream of each symbol then has its rows, in the order of time.  *)
THEOREM FileLoadedWhole == ReplaySpec => []LoadsExactlyValid
<1>. DEFINE Loaded == file \in Seq(Rows) /\ ticks = LoadTicks(file)
<1>1. ReplayInit => Loaded
  <2>. SUFFICES ASSUME ReplayInit PROVE Loaded
    OBVIOUS
  <2>1. PICK m \in 0 .. MaxTicks : file \in [1 .. m -> Rows]
    BY DEF ReplayInit, BoundedSeq, SeqOf
  <2>2. m \in Nat
    BY FeedAssumption
  <2>3. file \in Seq(Rows)
    BY <2>1, <2>2
  <2>. QED
    BY <2>3 DEF ReplayInit
<1>2. Loaded /\ [ReplayNext]_<<vars, replay>> => Loaded'
  BY DEF ReplayNext, ReplayStep, replay
<1>3. Loaded => LoadsExactlyValid
  <2>. SUFFICES ASSUME Loaded PROVE LoadsExactlyValid
    OBVIOUS
  <2>. DEFINE n == Len(file)
  <2>1. n \in Nat /\ DOMAIN file = 1 .. n
    OBVIOUS
  <2>2. /\ ticks # Raised <=> file # <<>> /\ Good(file, n)
        /\ ticks # Raised => ticks = file
    BY LoadedIfValid
  <2>3. Good(file, n) <=>
            /\ \A i \in DOMAIN file : file[i].valid
            /\ \A i, j \in DOMAIN file : i < j => file[i].timestamp <= file[j].timestamp
    BY <2>1 DEF Good
  <2>4. ASSUME ticks # Raised, NEW symbol \in Instruments
        PROVE  /\ Len(StreamTicks(symbol)) = Cardinality({i \in DOMAIN file : file[i].symbol = symbol})
               /\ \A i, j \in DOMAIN StreamTicks(symbol) :
                      i < j => StreamTicks(symbol)[i].timestamp <= StreamTicks(symbol)[j].timestamp
    <3>1. StreamTicks(symbol) = StreamOf(symbol, file)
      BY <2>2, <2>4 DEF StreamTicks, StreamOf
    <3>2. StreamedTo(symbol, file, n, StreamTicks(symbol))
      BY <2>2, <2>4, <3>1, StreamTakes
    <3>. QED
      BY <2>1, <3>2 DEF StreamedTo, OfSymbol
  <2>. QED
    BY <2>2, <2>3, <2>4 DEF LoadsExactlyValid
<1>. QED
  BY <1>1, <1>2, <1>3, PTL DEF ReplaySpec
=============================================================================
