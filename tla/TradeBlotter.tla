---------------------------- MODULE TradeBlotter ----------------------------
(***************************************************************************)
(* src/observability/blotter.py: fills recorded in memory, by fill_id, and *)
(* appended to a CSV file by flush().  The disk may refuse to go on and    *)
(* the process may die at any byte of what a flush writes: between two     *)
(* lines, or inside one, and then the next flush goes on in that line.     *)
(* The rest of a record follows from its fill_id.                          *)
(***************************************************************************)
EXTENDS SequencesExt, Naturals

CONSTANTS Fills,        \* fill_ids
          Header,       \* "fill_id", the name of the column
          NoId,         \* anything else a reader may find in that column
          NoFile,       \* the file does not exist
          WritesFail,   \* whether a flush may raise half-way
          FlushDies,    \* whether the process may die during a flush
          MaxLines,     \* bound: lines of the file explored
          MaxCuts       \* bound: flushes cut short

ASSUME IdsAssumption == Header \notin Fills /\ NoId \notin Fills /\ NoId # Header
ASSUME FaultsAssumption == {WritesFail, FlushDies} \subseteq BOOLEAN
ASSUME BoundsAssumption == MaxLines \in Nat /\ MaxCuts \in Nat

VARIABLES file,         \* the lines on disk, or NoFile
          recorded,     \* _recorded_fill_ids
          pending,      \* _pending_records
          kept,         \* history: fills a flush has returned for
          cuts,         \* history: how many flushes were cut short
          raised        \* history: whether one of them raised

vars == <<file, recorded, pending, kept, cuts, raised>>

(* A line as a reader finds it: its second field, whether all the columns  *)
(* are there, and in which field it was cut, if it was ("rest": after the  *)
(* second one; a line without its end may have all the columns).           *)
Line == [id : Fills \union {Header, NoId}, good : BOOLEAN,
         cut : {"no", "timestamp", "fill_id", "rest"}]

ASSUME NoFileAssumption == NoFile \notin Seq(Line)

Whole(id) == [id |-> id, good |-> TRUE, cut |-> "no"]

Cut(line) ==
    {[id |-> NoId, good |-> FALSE, cut |-> "timestamp"]}
        \union {[id |-> id, good |-> FALSE, cut |-> "fill_id"] : id \in {NoId, line.id}}
        \union {[id |-> line.id, good |-> good, cut |-> "rest"] : good \in BOOLEAN}

(* What is read where a line was written right behind a cut one: its own   *)
(* fields if that was cut in the first, else the fields of the cut one.    *)
Glued(old, line) ==
    IF old.cut = "timestamp" THEN line
    ELSE [id |-> IF old.cut = "fill_id" THEN NoId ELSE old.id,
          good |-> FALSE,
          cut |-> IF line.cut = "no" THEN "no"
                  ELSE IF line.cut = "timestamp" THEN old.cut
                  ELSE "rest"]

Lines == IF file = NoFile THEN <<>> ELSE file

(* Appending to the file.                                                  *)
Written(lines, output) ==
    IF lines = <<>> \/ output = <<>> THEN lines \o output
    ELSE IF Last(lines).cut = "no" THEN lines \o output
    ELSE Front(lines) \o <<Glued(Last(lines), Head(output))>> \o Tail(output)

(* What may be left of an output that is cut short.                        *)
CutShort(output) ==
    {output} \union
        UNION {{SubSeq(output, 1, n - 1)}
                  \union {SubSeq(output, 1, n - 1) \o <<part>> : part \in Cut(output[n])}
              : n \in DOMAIN output}

Ids(lines) == [i \in DOMAIN lines |-> lines[i].id]

(* What a csv.DictReader makes of the file: the first line names the       *)
(* columns, whatever it holds.                                             *)
Named(lines) == lines # <<>> /\ Head(lines).id = Header

Rows(lines) == IF lines = <<>> THEN <<>> ELSE Tail(Ids(lines))

(* read_trades does not raise.                                             *)
Readable == Lines = <<>> \/ (Named(Lines) /\ \A i \in DOMAIN Lines : Lines[i].good)

(* Mutant: a start does not look at the file.                              *)
Loaded_Nothing(lines) == {}

(* _load_existing_fill_ids: KeyError, a file without header, is passed     *)
(* over.                                                                   *)
Loaded(lines) == IF Named(lines) THEN ToSet(Rows(lines)) ELSE {}

Init ==
    /\ file = NoFile
    /\ recorded = {}
    /\ pending = <<>>
    /\ kept = {}
    /\ cuts = 0
    /\ raised = FALSE

(* Mutant: only what is on disk counts as recorded.                        *)
IsDuplicate_OnDisk(f) == f \in ToSet(Rows(Lines))

IsDuplicate(f) == f \in recorded

RecordFill(f) ==
    /\ ~IsDuplicate(f)
    /\ pending' = Append(pending, f)
    /\ recorded' = recorded \union {f}
    /\ UNCHANGED <<file, kept, cuts, raised>>

Records == [i \in DOMAIN pending |-> Whole(pending[i])]

(* Mutant: whether the file exists is asked once it is open.               *)
Output_AfterOpen == Records

(* The lines a flush is to append.                                         *)
Output == IF file = NoFile THEN <<Whole(Header)>> \o Records ELSE Records

Fits == Len(Lines) + Len(Output) <= MaxLines

(* Mutant: the file is opened for writing, not for appending.              *)
Opened_Truncated == <<>>

Opened == Lines

Flush ==
    /\ pending # <<>>
    /\ Fits
    /\ file' = Written(Opened, Output)
    /\ pending' = <<>>
    /\ kept' = kept \union ToSet(pending)
    /\ UNCHANGED <<recorded, cuts, raised>>

(* Mutant: the records are cleared on the way out, written or not.         *)
Unwritten_Cleared == <<>>

Unwritten == pending

CutFlush ==
    /\ pending # <<>>
    /\ Fits
    /\ cuts < MaxCuts
    /\ cuts' = cuts + 1
    /\ \E output \in CutShort(Output) : file' = Written(Opened, output)

(* An OSError: it leaves flush before the pending records are cleared.     *)
FlushFails ==
    /\ WritesFail
    /\ CutFlush
    /\ raised' = TRUE
    /\ pending' = Unwritten
    /\ UNCHANGED <<recorded, kept>>

(* A new TradeBlotter on the file, after the process died between two      *)
(* calls or during a flush.                                                *)
RestartWith(lines) ==
    /\ recorded' = Loaded(lines)
    /\ pending' = <<>>
    /\ UNCHANGED <<kept, raised>>

Restart == RestartWith(Lines) /\ UNCHANGED <<file, cuts>>

DieInFlush ==
    /\ FlushDies
    /\ CutFlush
    /\ RestartWith(file')

Clear ==
    /\ file' = NoFile
    /\ recorded' = {}
    /\ pending' = <<>>
    /\ kept' = {}
    /\ cuts' = 0
    /\ raised' = FALSE

Next ==
    \/ \E f \in Fills : RecordFill(f)
    \/ Flush
    \/ FlushFails
    \/ Restart
    \/ DieInFlush
    \/ Clear

Spec == Init /\ [][Next]_vars

-----------------------------------------------------------------------------
TypeOK ==
    /\ file = NoFile \/ file \in Seq(Line)
    /\ recorded \subseteq Fills \union {Header, NoId}
    /\ pending \in Seq(Fills)
    /\ kept \subseteq Fills
    /\ cuts \in 0..MaxCuts
    /\ raised \in BOOLEAN

(* No fill stands in two places.                                           *)
FillsOnce(ids) ==
    \A i, j \in DOMAIN ids : ids[i] \in Fills /\ ids[i] = ids[j] => i = j

(* The file holds no fill twice, across flushes, retries and restarts      *)
(* ("Uses fill_id as idempotency key to prevent duplicates").              *)
NoDuplicateRows == FillsOnce(Ids(Lines))

(* Unless a flush was cut short, the file can be read back: its first line *)
(* names the columns, so read_trades and the next start find the fill_ids  *)
(* ("Appends to existing file or creates new one with headers").           *)
FileReadable == cuts = 0 => Readable

(* The fills whose rows are on disk with all their columns.                *)
OnDisk == {line.id : line \in {l \in ToSet(Lines) : l.good}}

(* What a flush has returned for is on disk, whatever failed before or     *)
(* afterwards, but for one fill each time a flush was cut inside a line:   *)
(* the one written right behind the cut.                                   *)
FlushedIsKept == Cardinality(kept \ OnDisk) <= cuts

(* A fill that record_fill would refuse as a duplicate is on disk or will  *)
(* be with the next flush: nothing is both refused and lost, but for two   *)
(* fills each time a flush was cut: the one whose row was cut, if its      *)
(* fill_id can still be read, and the one behind it.                       *)
RefusedIsSafe ==
    Cardinality((recorded \intersect Fills) \ (OnDisk \union ToSet(pending))) <= 2 * cuts

(* Unless a write raised, which blotter_retry is about, or the header was  *)
(* lost, every fill on disk or still to be written is counted by           *)
(* get_trade_count and refused by record_fill, and none is there twice:    *)
(* not across flushes and restarts, not even when the process dies in the  *)
(* middle of a row.                                                        *)
CountIsExact == ~raised /\ (Lines = <<>> \/ Named(Lines)) =>
    /\ (ToSet(Rows(Lines)) \union ToSet(pending)) \intersect Fills \subseteq recorded
    /\ FillsOnce(Rows(Lines) \o pending)
=============================================================================
