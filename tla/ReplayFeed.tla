----------------------------- MODULE ReplayFeed -----------------------------
(***************************************************************************)
(* src/market_data/replay_market_data.py in front of the async feed: a CSV *)
(* file is loaded, and the ticks of one instrument are the list the feed   *)
(* is given, as examples/async_feed_example.py does it.  A row is its      *)
(* symbol, its time and whether its fields can be parsed and are in range; *)
(* the columns of the header are taken to be the required ones.            *)
(***************************************************************************)
EXTENDS AsyncFeed, FiniteSets, SequencesExt

CONSTANTS Instruments,  \* symbols of rows
          Instrument,   \* the one that is streamed
          Times         \* timestamps of rows

ASSUME ReplayAssumption == Instrument \in Instruments /\ Times \subseteq Nat

Rows == [symbol : Instruments, timestamp : Times, valid : BOOLEAN]

Raised == <<>>          \* the constructor's ValueError: there are no ticks

NoTimestamp == 0        \* prev_timestamp is None: no row is earlier

NothingRead == [ticks |-> <<>>, prev |-> NoTimestamp, error |-> FALSE]

(* Mutant: a row is compared with the first one, not with the one before.  *)
LoadRow_WithFirst(so_far, row) ==
    IF so_far.error \/ row.timestamp < so_far.prev \/ ~row.valid
    THEN [so_far EXCEPT !.error = TRUE]
    ELSE [so_far EXCEPT !.ticks = Append(@, row),
                        !.prev = IF @ = NoTimestamp THEN row.timestamp ELSE @]

(* One row: any error ends the loading with a ValueError.                  *)
LoadRow(so_far, row) ==
    IF so_far.error \/ row.timestamp < so_far.prev \/ ~row.valid
    THEN [so_far EXCEPT !.error = TRUE]
    ELSE [so_far EXCEPT !.ticks = Append(@, row), !.prev = row.timestamp]

(* _load_ticks: the rows in turn, and at least one of them.                *)
LoadTicks(rows) ==
    LET loaded == FoldLeft(LoadRow, NothingRead, rows)
    IN  IF loaded.error THEN Raised ELSE loaded.ticks

-----------------------------------------------------------------------------
VARIABLES file,     \* the rows of the CSV file
          ticks     \* _ticks

replay == <<file, ticks>>

ReplayInit ==
    /\ Init
    /\ file \in BoundedSeq(Rows, MaxTicks)
    /\ ticks = LoadTicks(file)

(* _ticks_by_instrument: each tick is appended to the list of its symbol.  *)
IndexTick(symbol, list, tick) == IF tick.symbol = symbol THEN Append(list, tick) ELSE list

StreamTicks(symbol) ==
    FoldLeft(LAMBDA list, tick : IndexTick(symbol, list, tick), <<>>, ticks)

(* The list yields its ticks and then ends.                                *)
ReplaySource ==
    \/ /\ fetched < Len(StreamTicks(Instrument))
       /\ Fetch \/ FetchStopped
    \/ /\ fetched = Len(StreamTicks(Instrument))
       /\ SourceEnds

(* Without ticks there is no feed to call.                                 *)
ReplayStep(A) == ticks # Raised /\ A /\ UNCHANGED replay

ReplayNext ==
    \/ ReplayStep(ReplaySource)
    \/ ReplayStep(ProducerPuts)
    \/ ReplayStep(Consumer)
    \/ ReplayStep(StopGoesOn)
    \/ ReplayStep(Callers)

(* The fairness of the feed, with a source that never keeps it waiting.    *)
ReplaySpec ==
    /\ ReplayInit
    /\ [][ReplayNext]_<<vars, replay>>
    /\ WF_vars(ReplayStep(ReplaySource))
    /\ WF_vars(ReplayStep(ProducerPuts))
    /\ WF_vars(ReplayStep(Consumer))
    /\ WF_vars(ReplayStep(StopGoesOn))

-----------------------------------------------------------------------------
(* A file is taken exactly if it has rows, all of them good, in the order  *)
(* of their times, and then whole: every row is in the stream of its       *)
(* symbol, and each stream is in the order of time ("sorted in ascending   *)
(* order", "in timestamp order").                                          *)
LoadsExactlyValid ==
    /\ ticks # Raised <=>
          /\ file # <<>>
          /\ \A i \in DOMAIN file : file[i].valid
          /\ \A i, j \in DOMAIN file : i < j => file[i].timestamp <= file[j].timestamp
    /\ ticks # Raised =>
          \A symbol \in Instruments :
              LET stream == StreamTicks(symbol)
              IN  /\ Len(stream) = Cardinality({i \in DOMAIN file : file[i].symbol = symbol})
                  /\ \A i, j \in DOMAIN stream : i < j => stream[i].timestamp <= stream[j].timestamp

(* A feed that was started and is left alone, or stopped with time enough, *)
(* hands every tick of its instrument in the file to the handler, and the  *)
(* consumer sees the end of the stream, however small the queue.           *)
FileDelivered ==
    (ppc = "source") ~>
        \/ cpc = "done" /\ Len(handled) = Len(StreamTicks(Instrument))
        \/ pstopped \/ cstopped \/ spc = "cancelled"
=============================================================================
