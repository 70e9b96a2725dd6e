------------------------- MODULE TradeBlotter_proofs -------------------------
(* What the blotter keeps, for any number of fills, flushes, failed writes, *)
(* restarts and deaths, wherever a write is cut.                            *)
EXTENDS TradeBlotter, FiniteSetTheorems, SequenceTheorems, TLAPS

(* A line that was written whole, where nothing torn is in its way.        *)
Firm(line) == line.good /\ line.cut = "no"

Firmly(lines) == {lines[i].id : i \in {j \in DOMAIN lines : Firm(lines[j])}}

Torn(lines) == lines # <<>> /\ lines[Len(lines)].cut # "no"

LEMMA LineType ==
    ASSUME NEW line \in Line
    PROVE  /\ line.id \in Fills \union {Header, NoId}
           /\ line.cut \in {"no", "timestamp", "fill_id", "rest"}
  BY DEF Line

LEMMA WholeType ==
    ASSUME NEW id \in Fills \union {Header}
    PROVE  Whole(id) \in Line /\ Whole(id).id = id /\ Firm(Whole(id)) /\ Whole(id).cut = "no"
  BY DEF Whole, Line, Firm

LEMMA CutFacts ==
    ASSUME NEW line \in Line, NEW part \in Cut(line)
    PROVE  part \in Line /\ part.id \in {NoId, line.id} /\ part.cut # "no"
<1>1. line.id \in Fills \union {Header, NoId}
  BY LineType
<1>2. CASE part = [id |-> NoId, good |-> FALSE, cut |-> "timestamp"]
  BY <1>2 DEF Line
<1>3. CASE \E id \in {NoId, line.id} : part = [id |-> id, good |-> FALSE, cut |-> "fill_id"]
  BY <1>1, <1>3 DEF Line
<1>4. CASE \E good \in BOOLEAN : part = [id |-> line.id, good |-> good, cut |-> "rest"]
  BY <1>1, <1>4 DEF Line
<1>. QED
  BY <1>2, <1>3, <1>4 DEF Cut

(* A line behind a torn one is read alone, or it is lost in that line.     *)
LEMMA GluedFacts ==
    ASSUME NEW old \in Line, NEW line \in Line, old.cut # "no"
    PROVE  /\ Glued(old, line) \in Line
           /\ Glued(old, line).cut = "no" <=> line.cut = "no"
           /\ Glued(old, line) = line \/ Glued(old, line).id \in {NoId, old.id}
<1>. DEFINE g == Glued(old, line)
<1>1. /\ old.id \in Fills \union {Header, NoId}
      /\ old.cut \in {"no", "timestamp", "fill_id", "rest"}
      /\ line.cut \in {"no", "timestamp", "fill_id", "rest"}
  BY LineType
<1>2. CASE old.cut = "timestamp"
  BY <1>2 DEF Glued
<1>3. CASE old.cut # "timestamp"
  <2>1. PICK id, cut :
           /\ id = (IF old.cut = "fill_id" THEN NoId ELSE old.id)
           /\ cut = (IF line.cut = "no" THEN "no"
                     ELSE IF line.cut = "timestamp" THEN old.cut ELSE "rest")
    OBVIOUS
  <2>2. g = [id |-> id, good |-> FALSE, cut |-> cut]
    BY <1>3, <2>1 DEF Glued
  <2>3. id \in Fills \union {Header, NoId} /\ cut \in {"no", "timestamp", "fill_id", "rest"}
        /\ (cut = "no" <=> line.cut = "no") /\ id \in {NoId, old.id}
    BY <1>1, <2>1
  <2>4. g \in Line /\ g.cut = cut /\ g.id = id
    BY <2>2, <2>3 DEF Line
  <2>. QED
    BY <2>3, <2>4
<1>. QED
  BY <1>2, <1>3

-----------------------------------------------------------------------------
(* What appending makes of the file.                                       *)
LEMMA WrittenPlain ==
    ASSUME NEW lines \in Seq(Line), NEW output \in Seq(Line),
           output = <<>> \/ ~Torn(lines)
    PROVE  /\ Written(lines, output) \in Seq(Line)
           /\ Len(Written(lines, output)) = Len(lines) + Len(output)
           /\ \A i \in 1..Len(lines) : Written(lines, output)[i] = lines[i]
           /\ \A i \in 1..Len(output) : Written(lines, output)[Len(lines) + i] = output[i]
<1>1. Written(lines, output) = lines \o output
  BY DEF Written, Torn, Last
<1>2. Len(lines) \in Nat /\ Len(output) \in Nat
  BY LenProperties
<1>3. /\ lines \o output \in Seq(Line)
      /\ Len(lines \o output) = Len(lines) + Len(output)
      /\ \A i \in 1 .. Len(lines) + Len(output) :
            (lines \o output)[i] = IF i <= Len(lines) THEN lines[i] ELSE output[i - Len(lines)]
  BY ConcatProperties
<1>4. \A i \in 1..Len(lines) : i \in 1..Len(lines) + Len(output) /\ i <= Len(lines)
  BY <1>2
<1>5. \A i \in 1..Len(output) : /\ Len(lines) + i \in 1..Len(lines) + Len(output)
                                /\ ~(Len(lines) + i <= Len(lines))
                                /\ (Len(lines) + i) - Len(lines) = i
  BY <1>2
<1>. QED
  BY <1>1, <1>3, <1>4, <1>5

LEMMA WrittenTorn ==
    ASSUME NEW lines \in Seq(Line), NEW output \in Seq(Line),
           output # <<>>, Torn(lines)
    PROVE  /\ Written(lines, output) \in Seq(Line)
           /\ Len(lines) \in Nat \ {0} /\ Len(output) \in Nat \ {0}
           /\ Len(Written(lines, output)) = Len(lines) + Len(output) - 1
           /\ \A i \in 1..Len(lines) - 1 : Written(lines, output)[i] = lines[i]
           /\ Written(lines, output)[Len(lines)] = Glued(lines[Len(lines)], output[1])
           /\ \A i \in 2..Len(output) : Written(lines, output)[Len(lines) + i - 1] = output[i]
<1>. DEFINE a == Len(lines)
            b == Len(output)
            glued == Glued(lines[a], output[1])
            front == SubSeq(lines, 1, a - 1)
            tail == Tail(output)
<1>1. /\ a \in Nat \ {0} /\ b \in Nat \ {0}
      /\ lines \in [1..a -> Line] /\ output \in [1..b -> Line]
      /\ lines # <<>> /\ lines[a].cut # "no"
  BY EmptySeq, LenProperties DEF Torn
<1>2. Written(lines, output) = front \o <<glued>> \o tail
  <2>1. Head(output) = output[1]
    OBVIOUS
  <2>. QED
    BY <1>1, <2>1 DEF Written, Last, Front
<1>3. glued \in Line
  <2>1. lines[a] \in Line /\ output[1] \in Line
    BY <1>1
  <2>. QED
    BY <1>1, <2>1, GluedFacts
<1>4. front \in Seq(Line) /\ Len(front) = a - 1 /\ \A i \in 1..a - 1 : front[i] = lines[i]
  <2>1. \A i \in 1..a - 1 : lines[i] \in Line
    BY <1>1
  <2>2. 1 \in Int /\ a - 1 \in Int
    BY <1>1
  <2>3. /\ SubSeq(lines, 1, a - 1) \in Seq(Line)
        /\ Len(SubSeq(lines, 1, a - 1)) = IF 1 <= a - 1 THEN (a - 1) - 1 + 1 ELSE 0
        /\ \A i \in 1 .. (a - 1) - 1 + 1 : SubSeq(lines, 1, a - 1)[i] = lines[1 + i - 1]
    <3>. HIDE DEF a
    <3>. QED
      BY <2>1, <2>2, SubSeqProperties
  <2>. HIDE DEF front
  <2>4. \A i \in 1..a - 1 : i \in 1 .. (a - 1) - 1 + 1 /\ 1 + i - 1 = i
    BY <1>1
  <2>. QED
    BY <1>1, <2>3, <2>4 DEF front
<1>5. tail \in Seq(Line) /\ Len(tail) = b - 1 /\ \A i \in 1..b - 1 : tail[i] = output[i + 1]
  BY HeadTailProperties
<1>. HIDE DEF glued, front, tail, a, b
<1>6. <<glued>> \in Seq(Line) /\ Len(<<glued>>) = 1 /\ <<glued>>[1] = glued
  BY <1>3
<1>. DEFINE start == front \o <<glued>>
<1>7. /\ start \in Seq(Line) /\ Len(start) = a
      /\ \A i \in 1..a - 1 : start[i] = lines[i]
      /\ start[a] = glued
  <2>1. /\ start \in Seq(Line) /\ Len(start) = Len(front) + Len(<<glued>>)
        /\ \A i \in 1..Len(front) + Len(<<glued>>) :
              start[i] = IF i <= Len(front) THEN front[i] ELSE <<glued>>[i - Len(front)]
    BY <1>4, <1>6, ConcatProperties
  <2>. HIDE DEF start
  <2>2. Len(start) = a
    BY <1>1, <1>4, <1>6, <2>1
  <2>3. \A i \in 1..a : start[i] = IF i <= a - 1 THEN front[i] ELSE <<glued>>[i - (a - 1)]
    BY <1>1, <1>4, <1>6, <2>1
  <2>4. /\ a - (a - 1) = 1 /\ ~(a <= a - 1) /\ a \in 1..a
        /\ \A i \in 1..a - 1 : i \in 1..a /\ i <= a - 1
    BY <1>1
  <2>. QED
    BY <1>4, <1>6, <2>1, <2>2, <2>3, <2>4
<1>8. /\ start \o tail \in Seq(Line) /\ Len(start \o tail) = Len(start) + Len(tail)
      /\ \A i \in 1..Len(start) + Len(tail) :
            (start \o tail)[i] = IF i <= Len(start) THEN start[i] ELSE tail[i - Len(start)]
  BY <1>5, <1>7, ConcatProperties
<1>9. PICK new : new = start \o tail
  OBVIOUS
<1>. HIDE DEF start
<1>10. /\ new \in Seq(Line) /\ Len(new) = a + b - 1
       /\ \A i \in 1..a - 1 : new[i] = lines[i]
       /\ new[a] = glued
       /\ \A i \in 2..b : new[a + i - 1] = output[i]
  <2>1. Len(new) = a + b - 1
    BY <1>1, <1>5, <1>7, <1>8, <1>9
  <2>2. \A i \in 1..a + b - 1 : new[i] = IF i <= a THEN start[i] ELSE tail[i - a]
    BY <1>1, <1>5, <1>7, <1>8, <1>9
  <2>3. /\ \A i \in 1..a - 1 : i \in 1..a + b - 1 /\ i <= a
        /\ a \in 1..a + b - 1 /\ a <= a
        /\ \A i \in 2..b : /\ a + i - 1 \in 1..a + b - 1 /\ ~(a + i - 1 <= a)
                           /\ i - 1 \in 1..b - 1 /\ (a + i - 1) - a = i - 1 /\ (i - 1) + 1 = i
    BY <1>1
  <2>. QED
    BY <1>5, <1>7, <1>8, <1>9, <2>1, <2>2, <2>3
<1>. QED
  BY <1>1, <1>2, <1>9, <1>10 DEF start, glued, a, b

-----------------------------------------------------------------------------
(* What a flush writes: a header, if it creates the file, and the pending  *)
(* records; or a beginning of that, which may end inside a line.           *)
Offset == IF file = NoFile THEN 1 ELSE 0

Begun(output) ==
    /\ output \in Seq(Line) /\ Len(output) <= Len(Output)
    /\ \A i \in 1..Len(output) - 1 : output[i] = Output[i]
    /\ output # <<>> => \/ output[Len(output)] = Output[Len(output)]
                        \/ /\ output[Len(output)].id \in {NoId, Output[Len(output)].id}
                           /\ output[Len(output)].cut # "no"

LEMMA OutputFacts ==
    ASSUME TypeOK
    PROVE  /\ Output \in Seq(Line) /\ Len(pending) \in Nat
           /\ Len(Output) = Len(pending) + Offset
           /\ \A i \in 1..Len(Output) : Firm(Output[i]) /\ Output[i].cut = "no"
           /\ \A i \in 1..Len(pending) : Output[i + Offset].id = pending[i]
           /\ file = NoFile => Output[1].id = Header
           /\ Begun(Output)
<1>. DEFINE n == Len(pending)
<1>1. n \in Nat /\ DOMAIN pending = 1..n /\ \A i \in 1..n : pending[i] \in Fills
  <2>1. pending \in Seq(Fills)
    BY DEF TypeOK
  <2>. QED
    BY <2>1, LenProperties
<1>2. \A i \in 1..n : Whole(pending[i]) \in Line /\ Whole(pending[i]).id = pending[i]
                      /\ Firm(Whole(pending[i])) /\ Whole(pending[i]).cut = "no"
  BY <1>1, WholeType
<1>3. Records = [i \in 1..n |-> Whole(pending[i])]
  BY <1>1 DEF Records
<1>4. Records \in Seq(Line) /\ Len(Records) = n /\ \A i \in 1..n : Records[i] = Whole(pending[i])
  <2>1. Records \in [1..n -> Line]
    BY <1>2, <1>3
  <2>2. Records \in Seq(Line)
    BY <1>1, <2>1
  <2>. HIDE DEF n
  <2>3. DOMAIN Records = 1..Len(Records) /\ Len(Records) \in Nat
    BY <2>2, LenProperties
  <2>4. DOMAIN Records = 1..n
    BY <2>1
  <2>5. Len(Records) = n
    <3>1. ~(Len(Records) < n)
      <4>1. Len(Records) + 1 \notin 1..Len(Records)
        BY <2>3
      <4>2. Len(Records) < n => Len(Records) + 1 \in 1..n
        BY <1>1, <2>3
      <4>. QED
        BY <2>3, <2>4, <4>1, <4>2
    <3>2. ~(n < Len(Records))
      <4>1. n + 1 \notin 1..n
        BY <1>1
      <4>2. n < Len(Records) => n + 1 \in 1..Len(Records)
        BY <1>1, <2>3
      <4>. QED
        BY <2>3, <2>4, <4>1, <4>2
    <3>. QED
      <4>1. n \in Nat /\ Len(Records) \in Nat
        BY <1>1, <2>3
      <4>2. \A l, m \in Nat : ~(l < m) /\ ~(m < l) => l = m
        OBVIOUS
      <4>. QED
        BY <3>1, <3>2, <4>1, <4>2
  <2>. QED
    BY <1>3, <2>2, <2>5
<1>. HIDE DEF n
<1>5. CASE file # NoFile
  <2>1. Output = Records /\ Offset = 0
    BY <1>5 DEF Output, Offset
  <2>2. \A i \in 1..n : i + 0 = i
    BY <1>1
  <2>. QED
    BY <1>1, <1>2, <1>4, <1>5, <2>1, <2>2 DEF n, Begun
<1>6. CASE file = NoFile
  <2>. DEFINE h == Whole(Header)
  <2>1. h \in Line /\ h.id = Header /\ Firm(h) /\ h.cut = "no"
    BY WholeType
  <2>2. Output = <<h>> \o Records /\ Offset = 1
    BY <1>6 DEF Output, Offset
  <2>. HIDE DEF h
  <2>3. <<h>> \in Seq(Line) /\ Len(<<h>>) = 1 /\ <<h>>[1] = h
    BY <2>1
  <2>4. /\ Output \in Seq(Line) /\ Len(Output) = 1 + n
        /\ \A i \in 1..1 + n : Output[i] = IF i <= 1 THEN <<h>>[i] ELSE Records[i - 1]
    BY <1>4, <2>2, <2>3, ConcatProperties
  <2>5. Output[1] = h /\ \A i \in 1..n : Output[i + 1] = Whole(pending[i])
    <3>1. \A i \in 1..n : i + 1 \in 1..1 + n /\ ~(i + 1 <= 1) /\ (i + 1) - 1 = i
      BY <1>1
    <3>2. 1 \in 1..1 + n
      BY <1>1
    <3>. QED
      BY <1>4, <2>3, <2>4, <3>1, <3>2
  <2>6. \A i \in 1..Len(Output) : i = 1 \/ (i - 1 \in 1..n /\ (i - 1) + 1 = i)
    BY <1>1, <2>4
  <2>7. \A i \in 1..Len(Output) : Firm(Output[i]) /\ Output[i].cut = "no"
    BY <1>2, <2>1, <2>5, <2>6
  <2>8. Len(Output) = n + 1
    BY <1>1, <2>4
  <2>. QED
    BY <1>1, <1>2, <2>1, <2>2, <2>4, <2>5, <2>7, <2>8 DEF n, Begun
<1>. QED
  BY <1>5, <1>6

LEMMA CutShortFacts ==
    ASSUME TypeOK, NEW output \in CutShort(Output)
    PROVE  Begun(output)
<1>1. Output \in Seq(Line) /\ Begun(Output)
  BY OutputFacts
<1>2. CASE output = Output
  BY <1>1, <1>2
<1>3. ASSUME NEW n \in DOMAIN Output,
             output \in {SubSeq(Output, 1, n - 1)}
                \union {SubSeq(Output, 1, n - 1) \o <<part>> : part \in Cut(Output[n])}
      PROVE  Begun(output)
  <2>. DEFINE start == SubSeq(Output, 1, n - 1)
  <2>1. n \in Nat /\ n >= 1 /\ Len(Output) \in Nat /\ n <= Len(Output) /\ Output[n] \in Line
        /\ \A i \in 1..n - 1 : Output[i] \in Line
    BY <1>1, LenProperties
  <2>2. start \in Seq(Line) /\ Len(start) = n - 1 /\ \A i \in 1..n - 1 : start[i] = Output[i]
    <3>1. 1 \in Int /\ n - 1 \in Int
      BY <2>1
    <3>2. /\ SubSeq(Output, 1, n - 1) \in Seq(Line)
          /\ Len(SubSeq(Output, 1, n - 1)) = IF 1 <= n - 1 THEN (n - 1) - 1 + 1 ELSE 0
          /\ \A i \in 1 .. (n - 1) - 1 + 1 : SubSeq(Output, 1, n - 1)[i] = Output[1 + i - 1]
      BY <2>1, <3>1, SubSeqProperties
    <3>3. \A i \in 1..n - 1 : i \in 1 .. (n - 1) - 1 + 1 /\ 1 + i - 1 = i
      BY <2>1
    <3>. HIDE DEF start
    <3>. QED
      BY <2>1, <3>2, <3>3 DEF start
  <2>. HIDE DEF start
  <2>3. CASE output = start
    <3>1. \A i \in 1..Len(output) - 1 : i \in 1..n - 1
      BY <2>1, <2>2, <2>3
    <3>2. output # <<>> => Len(output) \in 1..n - 1
      BY <2>1, <2>2, <2>3, EmptySeq
    <3>. QED
      BY <2>1, <2>2, <2>3, <3>1, <3>2 DEF Begun
  <2>4. ASSUME NEW part \in Cut(Output[n]), output = start \o <<part>>
        PROVE  Begun(output)
    <3>1. part \in Line /\ part.id \in {NoId, Output[n].id} /\ part.cut # "no"
      BY <2>1, CutFacts
    <3>2. <<part>> \in Seq(Line) /\ Len(<<part>>) = 1 /\ <<part>>[1] = part
      BY <3>1
    <3>3. /\ output \in Seq(Line) /\ Len(output) = n - 1 + 1
          /\ \A i \in 1..n - 1 + 1 :
                output[i] = IF i <= n - 1 THEN start[i] ELSE <<part>>[i - (n - 1)]
      BY <2>2, <2>4, <3>2, ConcatProperties
    <3>4. Len(output) = n /\ n \in 1..n - 1 + 1 /\ ~(n <= n - 1) /\ n - (n - 1) = 1
          /\ \A i \in 1..Len(output) - 1 : i \in 1..n - 1 + 1 /\ i <= n - 1 /\ i \in 1..n - 1
      <4>1. n - 1 + 1 = n /\ n - (n - 1) = 1 /\ ~(n <= n - 1) /\ n \in 1..n
        BY <2>1
      <4>2. Len(output) = n
        BY <3>3, <4>1
      <4>. QED
        BY <2>1, <4>1, <4>2
    <3>5. output[n] = part /\ \A i \in 1..Len(output) - 1 : output[i] = Output[i]
      BY <2>2, <3>2, <3>3, <3>4
    <3>. QED
      BY <2>1, <3>1, <3>3, <3>4, <3>5 DEF Begun
  <2>. QED
    BY <1>3, <2>3, <2>4 DEF start
<1>. QED
  BY <1>2, <1>3 DEF CutShort

-----------------------------------------------------------------------------
(* What is in the file after a flush, cut short or not.  Every line is an  *)
(* old one, a new one, or the torn one with a new one behind it.           *)
IdsOf(lines) == {lines[i].id : i \in DOMAIN lines}

GrownBy(new, lines, output) ==
    /\ new \in Seq(Line) /\ new # <<>>
    /\ Torn(new) <=> output[Len(output)].cut # "no"
    /\ \A i \in DOMAIN lines :
          i \in DOMAIN new /\ (i # Len(lines) \/ ~Torn(lines) => new[i] = lines[i])
    /\ \A i \in DOMAIN new :
          \/ i \in DOMAIN lines /\ new[i].id \in {NoId, lines[i].id}
          \/ \E k \in DOMAIN output : new[i] = output[k]
    /\ \A k \in DOMAIN output :
          (k # 1 \/ ~Torn(lines)) => \E i \in DOMAIN new : new[i] = output[k]

LEMMA Appended ==
    ASSUME NEW lines \in Seq(Line), NEW output \in Seq(Line), output # <<>>,
           NEW new, new = Written(lines, output)
    PROVE  GrownBy(new, lines, output)
<1>. DEFINE a == Len(lines)
            b == Len(output)
<1>1. /\ a \in Nat /\ b \in Nat /\ b # 0 /\ DOMAIN lines = 1..a /\ DOMAIN output = 1..b
      /\ lines \in [1..a -> Line] /\ output \in [1..b -> Line]
  BY LenProperties, EmptySeq
<1>2. CASE ~Torn(lines)
  <2>1. /\ new \in Seq(Line) /\ Len(new) = a + b
        /\ \A i \in 1..a : new[i] = lines[i]
        /\ \A i \in 1..b : new[a + i] = output[i]
    BY <1>2, WrittenPlain
  <2>2. DOMAIN new = 1..a + b /\ new # <<>>
    BY <1>1, <2>1, LenProperties, EmptySeq
  <2>. HIDE DEF a, b
  <2>3. new[a + b] = output[b]
    BY <1>1, <2>1
  <2>4. \A i \in 1..a : i \in 1..a + b
    BY <1>1
  <2>5. \A i \in 1..a + b : i \in 1..a \/ \E k \in 1..b : i = a + k
    <3>1. \A i \in 1..a + b : i \in 1..a \/ (i - a \in 1..b /\ i = a + (i - a))
      BY <1>1
    <3>. QED
      BY <3>1
  <2>6. \A k \in 1..b : a + k \in 1..a + b
    BY <1>1
  <2>7. Torn(new) <=> output[b].cut # "no"
    BY <2>1, <2>2, <2>3 DEF Torn
  <2>8. \A i \in DOMAIN new :
           \/ i \in DOMAIN lines /\ new[i].id \in {NoId, lines[i].id}
           \/ \E k \in DOMAIN output : new[i] = output[k]
    <3>. SUFFICES ASSUME NEW i \in 1..a + b
                  PROVE  \/ i \in DOMAIN lines /\ new[i].id \in {NoId, lines[i].id}
                         \/ \E k \in DOMAIN output : new[i] = output[k]
      BY <2>2
    <3>1. CASE i \in 1..a
      BY <1>1, <2>1, <3>1
    <3>2. CASE \E k \in 1..b : i = a + k
      BY <1>1, <2>1, <3>2
    <3>. QED
      BY <2>5, <3>1, <3>2
  <2>9. \A k \in DOMAIN output : \E i \in DOMAIN new : new[i] = output[k]
    BY <1>1, <2>1, <2>2, <2>6
  <2>10. \A i \in DOMAIN lines : i \in DOMAIN new /\ new[i] = lines[i]
    BY <1>1, <2>1, <2>2, <2>4
  <2>11. Torn(new) <=> output[Len(output)].cut # "no"
    BY <2>7 DEF b
  <2>. QED
    BY <2>1, <2>2, <2>8, <2>9, <2>10, <2>11 DEF GrownBy
<1>3. CASE Torn(lines)
  <2>. DEFINE glued == Glued(lines[a], output[1])
  <2>1. /\ new \in Seq(Line) /\ a \in Nat \ {0} /\ b \in Nat \ {0} /\ Len(new) = a + b - 1
        /\ \A i \in 1..a - 1 : new[i] = lines[i]
        /\ new[a] = glued
        /\ \A i \in 2..b : new[a + i - 1] = output[i]
    BY <1>3, WrittenTorn
  <2>2. /\ DOMAIN new = 1..a + b - 1
        /\ \A i \in 1..a : i \in 1..a + b - 1
        /\ \A k \in 2..b : a + k - 1 \in 1..a + b - 1
    BY <2>1, LenProperties
  <2>3. lines[a] \in Line /\ output[1] \in Line /\ lines[a].cut # "no"
    BY <1>1, <1>3, <2>1 DEF Torn
  <2>4. /\ glued.cut = "no" <=> output[1].cut = "no"
        /\ glued = output[1] \/ glued.id \in {NoId, lines[a].id}
    BY <2>3, GluedFacts
  <2>. HIDE DEF a, b, glued
  <2>5. new # <<>>
    BY <2>1, <2>2
  <2>6. Torn(new) <=> output[b].cut # "no"
    <3>1. CASE b = 1
      BY <2>1, <2>4, <2>5, <3>1 DEF Torn
    <3>2. CASE b # 1
      <4>1. b \in 2..b
        BY <2>1, <3>2
      <4>2. new[a + b - 1] = output[b]
        BY <2>1, <4>1
      <4>. QED
        BY <2>1, <2>5, <4>2 DEF Torn
    <3>. QED
      BY <3>1, <3>2
  <2>7. \A i \in 1..a + b - 1 :
           \/ i \in 1..a - 1
           \/ i = a
           \/ i - a + 1 \in 2..b /\ i = a + (i - a + 1) - 1
    BY <2>1
  <2>8. \A i \in DOMAIN new :
           \/ i \in DOMAIN lines /\ new[i].id \in {NoId, lines[i].id}
           \/ \E k \in DOMAIN output : new[i] = output[k]
    <3>. SUFFICES ASSUME NEW i \in 1..a + b - 1
                  PROVE  \/ i \in DOMAIN lines /\ new[i].id \in {NoId, lines[i].id}
                         \/ \E k \in DOMAIN output : new[i] = output[k]
      BY <2>2
    <3>1. CASE i \in 1..a - 1
      BY <1>1, <2>1, <3>1
    <3>2. CASE i = a
      <4>1. a \in DOMAIN lines /\ 1 \in DOMAIN output
        BY <1>1, <2>1
      <4>. QED
        BY <2>1, <2>4, <3>2, <4>1
    <3>3. CASE i - a + 1 \in 2..b /\ i = a + (i - a + 1) - 1
      <4>1. PICK k \in 2..b : i = a + k - 1
        BY <3>3
      <4>2. k \in DOMAIN output
        BY <1>1, <2>1, <4>1
      <4>. QED
        BY <2>1, <4>1, <4>2
    <3>. QED
      BY <2>7, <3>1, <3>2, <3>3
  <2>9. \A i \in DOMAIN lines :
           i \in DOMAIN new /\ (i # a \/ ~Torn(lines) => new[i] = lines[i])
    <3>1. \A i \in 1..a : i # a => i \in 1..a - 1
      BY <2>1
    <3>. QED
      BY <1>1, <1>3, <2>1, <2>2, <3>1
  <2>10. \A k \in DOMAIN output :
            (k # 1 \/ ~Torn(lines)) => \E i \in DOMAIN new : new[i] = output[k]
    <3>1. \A k \in 1..b : k # 1 => k \in 2..b
      BY <2>1
    <3>. QED
      BY <1>1, <1>3, <2>1, <2>2, <3>1
  <2>. QED
    BY <2>1, <2>5, <2>6, <2>8, <2>9, <2>10 DEF a, b, GrownBy
<1>. QED
  BY <1>2, <1>3

(* Nothing firm is disturbed, and of what is written at most the first     *)
(* line, behind a torn one, and the last, cut short, are not firm.         *)
LEMMA FirmStays ==
    ASSUME NEW lines \in Seq(Line), NEW output \in Seq(Line), output # <<>>,
           NEW new, new = Written(lines, output)
    PROVE  /\ Firmly(lines) \subseteq Firmly(new)
           /\ \A k \in DOMAIN output :
                 Firm(output[k]) /\ (k # 1 \/ ~Torn(lines)) => output[k].id \in Firmly(new)
           /\ \A i \in DOMAIN new :
                 \/ new[i].id \in IdsOf(lines) \union {NoId}
                 \/ \E k \in DOMAIN output :
                       new[i] = output[k] /\ (Firm(output[k]) => new[i].id \in Firmly(new))
<1>0. GrownBy(new, lines, output)
  BY Appended
<1>1. \A i \in DOMAIN lines : Firm(lines[i]) => i \in DOMAIN new /\ new[i] = lines[i]
  <2>. SUFFICES ASSUME NEW i \in DOMAIN lines, Firm(lines[i])
                PROVE  i \in DOMAIN new /\ new[i] = lines[i]
    OBVIOUS
  <2>1. i # Len(lines) \/ ~Torn(lines)
    BY DEF Firm, Torn
  <2>. QED
    BY <1>0, <2>1 DEF GrownBy
<1>2. Firmly(lines) \subseteq Firmly(new)
  BY <1>1 DEF Firmly
<1>3. \A k \in DOMAIN output :
         Firm(output[k]) /\ (k # 1 \/ ~Torn(lines)) => output[k].id \in Firmly(new)
  <2>1. \A k \in DOMAIN output : (k # 1 \/ ~Torn(lines)) => \E i \in DOMAIN new : new[i] = output[k]
    BY <1>0 DEF GrownBy
  <2>. QED
    BY <2>1 DEF Firmly
<1>4. \A i \in DOMAIN new :
         \/ i \in DOMAIN lines /\ new[i].id \in {NoId, lines[i].id}
         \/ \E k \in DOMAIN output : new[i] = output[k]
  BY <1>0 DEF GrownBy
<1>5. \A i \in DOMAIN new : Firm(new[i]) => new[i].id \in Firmly(new)
  BY DEF Firmly
<1>. QED
  BY <1>2, <1>3, <1>4, <1>5 DEF IdsOf

-----------------------------------------------------------------------------
(* Types, and what the actions do to the file.                             *)
LEMMA LinesType ==
    ASSUME TypeOK
    PROVE  Lines \in Seq(Line) /\ (file # NoFile => Lines = file)
<1>1. <<>> \in Seq(Line)
  BY EmptySeq
<1>. QED
  BY <1>1 DEF Lines, TypeOK

LEMMA RowsFacts ==
    ASSUME NEW lines \in Seq(Line), lines # <<>>
    PROVE  /\ Len(lines) \in Nat \ {0}
           /\ Rows(lines) \in Seq(Fills \union {Header, NoId})
           /\ Len(Rows(lines)) = Len(lines) - 1
           /\ \A i \in 1..Len(lines) - 1 : Rows(lines)[i] = lines[i + 1].id
           /\ Head(lines) = lines[1]
<1>. DEFINE n == Len(lines)
            ids == [i \in 1..n |-> lines[i].id]
<1>1. n \in Nat \ {0} /\ lines \in [1..n -> Line] /\ DOMAIN lines = 1..n
  BY LenProperties, EmptySeq
<1>2. \A i \in 1..n : lines[i].id \in Fills \union {Header, NoId}
  BY <1>1, LineType
<1>3. Ids(lines) = ids
  BY <1>1 DEF Ids
<1>4. ids \in Seq(Fills \union {Header, NoId})
  BY <1>1, <1>2
<1>. HIDE DEF n
<1>5. Len(ids) = n
  BY <1>1, <1>4
<1>6. ids # <<>>
  BY <1>1, <1>4, <1>5, EmptySeq
<1>. HIDE DEF ids
<1>7. /\ Tail(ids) \in Seq(Fills \union {Header, NoId})
      /\ Len(Tail(ids)) = n - 1
      /\ \A i \in 1..n - 1 : Tail(ids)[i] = ids[i + 1]
  BY <1>4, <1>5, <1>6, HeadTailProperties
<1>8. \A i \in 1..n - 1 : i + 1 \in 1..n
  BY <1>1
<1>9. Rows(lines) = Tail(ids)
  BY <1>3 DEF Rows
<1>10. \A i \in 1..n - 1 : ids[i + 1] = lines[i + 1].id
  BY <1>8 DEF ids
<1>. QED
  BY <1>1, <1>7, <1>9, <1>10 DEF n

LEMMA LoadedFacts ==
    ASSUME NEW lines \in Seq(Line)
    PROVE  /\ Loaded(lines) \subseteq Fills \union {Header, NoId}
           /\ Loaded(lines) \subseteq IdsOf(lines)
<1>1. CASE ~Named(lines)
  BY <1>1 DEF Loaded
<1>2. CASE Named(lines)
  <2>. DEFINE n == Len(lines)
  <2>1. lines # <<>> /\ Loaded(lines) = ToSet(Rows(lines))
    BY <1>2 DEF Named, Loaded
  <2>2. /\ n \in Nat \ {0} /\ Rows(lines) \in Seq(Fills \union {Header, NoId})
        /\ Len(Rows(lines)) = n - 1
        /\ \A i \in 1..n - 1 : Rows(lines)[i] = lines[i + 1].id
    BY <2>1, RowsFacts
  <2>3. DOMAIN Rows(lines) = 1..n - 1 /\ Rows(lines) \in [1..n - 1 -> Fills \union {Header, NoId}]
    BY <2>2, LenProperties
  <2>4. \A i \in 1..n - 1 : i + 1 \in DOMAIN lines
    BY <2>2, LenProperties
  <2>. HIDE DEF n
  <2>. QED
    BY <2>1, <2>2, <2>3, <2>4 DEF ToSet, IdsOf
<1>. QED
  BY <1>1, <1>2

LEMMA PendingFacts ==
    ASSUME TypeOK
    PROVE  /\ ToSet(pending) \subseteq Fills
           /\ ToSet(pending) = {pending[i] : i \in 1..Len(pending)}
           /\ ToSet(<<>>) = {}
           /\ \A f \in Fills : Append(pending, f) \in Seq(Fills)
           /\ \A f \in Fills : ToSet(Append(pending, f)) = ToSet(pending) \union {f}
<1>1. pending \in Seq(Fills) /\ Len(pending) \in Nat /\ DOMAIN pending = 1..Len(pending)
  BY LenProperties DEF TypeOK
<1>2. \A i \in 1..Len(pending) : pending[i] \in Fills
  BY <1>1
<1>3. ASSUME NEW f \in Fills
      PROVE  /\ Append(pending, f) \in Seq(Fills)
             /\ ToSet(Append(pending, f)) = ToSet(pending) \union {f}
  <2>. DEFINE n == Len(pending)
              new == Append(pending, f)
  <2>1. /\ new \in Seq(Fills) /\ DOMAIN new = 1..n + 1
        /\ \A i \in 1..n : new[i] = pending[i]
        /\ new[n + 1] = f
    BY <1>1
  <2>. HIDE DEF new, n
  <2>2. n \in Nat /\ DOMAIN pending = 1..n
    BY <1>1 DEF n
  <2>3. \A i : i \in 1..n + 1 <=> i \in 1..n \/ i = n + 1
    BY <2>2
  <2>4. ToSet(new) = ToSet(pending) \union {f}
    BY <2>1, <2>2, <2>3 DEF ToSet
  <2>. QED
    BY <2>1, <2>4 DEF new
<1>4. ToSet(<<>>) = {}
  BY DEF ToSet
<1>. QED
  BY <1>1, <1>2, <1>3, <1>4 DEF ToSet

LEMMA FlushWrites ==
    ASSUME TypeOK, Flush
    PROVE  /\ file' \in Seq(Line) /\ Lines' = file' /\ Lines' = Written(Lines, Output)
           /\ Output # <<>>
<1>1. Len(pending) # 0
  <2>1. pending \in Seq(Fills) /\ pending # <<>>
    BY DEF TypeOK, Flush
  <2>. QED
    BY <2>1, EmptySeq
<1>2. Output \in Seq(Line) /\ Len(Output) # 0
  BY <1>1, OutputFacts DEF Offset
<1>3. Output # <<>>
  BY <1>2, EmptySeq
<1>4. file' = Written(Lines, Output)
  BY DEF Flush, Opened
<1>5. file' \in Seq(Line)
  <2>1. GrownBy(file', Lines, Output)
    BY <1>2, <1>3, <1>4, LinesType, Appended
  <2>. QED
    BY <2>1 DEF GrownBy
<1>6. file' # NoFile
  BY <1>5, NoFileAssumption
<1>. QED
  BY <1>3, <1>4, <1>5, <1>6 DEF Lines

LEMMA CutWrites ==
    ASSUME TypeOK, CutFlush
    PROVE  /\ file' \in Seq(Line) /\ Lines' = file'
           /\ \E output :
                 /\ Begun(output)
                 /\ \/ output = <<>> /\ Lines' = Lines
                    \/ output # <<>> /\ Lines' = Written(Lines, output)
<1>1. PICK output \in CutShort(Output) : file' = Written(Lines, output)
  BY DEF CutFlush, Opened
<1>2. Begun(output) /\ output \in Seq(Line) /\ Lines \in Seq(Line)
  BY CutShortFacts, LinesType DEF Begun
<1>3. CASE output = <<>>
  <2>1. file' = Lines
    BY <1>1, <1>2, <1>3, ConcatEmptySeq DEF Written
  <2>2. file' # NoFile
    BY <1>2, <2>1, NoFileAssumption
  <2>. QED
    BY <1>2, <1>3, <2>1, <2>2 DEF Lines
<1>4. CASE output # <<>>
  <2>1. GrownBy(file', Lines, output)
    BY <1>1, <1>2, <1>4, Appended
  <2>2. file' \in Seq(Line)
    BY <2>1 DEF GrownBy
  <2>3. file' # NoFile
    BY <2>2, NoFileAssumption
  <2>. QED
    BY <1>1, <1>2, <1>4, <2>2, <2>3 DEF Lines
<1>. QED
  BY <1>3, <1>4

(* The blotter's file, memory and histories keep their types, wherever     *)
(* writes are cut.                                                         *)
THEOREM TypeCorrect == Spec => []TypeOK
<1>0. 0 \in 0..MaxCuts /\ <<>> \in Seq(Fills)
  BY BoundsAssumption, EmptySeq
<1>1. Init => TypeOK
  BY <1>0, Zenon DEF Init, TypeOK
<1>2. TypeOK /\ [Next]_vars => TypeOK'
  <2>. SUFFICES ASSUME TypeOK, [Next]_vars
                PROVE  TypeOK'
    OBVIOUS
  <2>0. MaxCuts \in Nat /\ cuts \in 0..MaxCuts /\ <<>> \in Seq(Fills)
    BY BoundsAssumption, EmptySeq DEF TypeOK
  <2>1. ASSUME NEW f \in Fills, RecordFill(f)
        PROVE  TypeOK'
    BY <2>1, PendingFacts DEF RecordFill, TypeOK
  <2>2. CASE Flush
    BY <2>0, <2>2, FlushWrites, PendingFacts DEF Flush, TypeOK
  <2>3. CASE FlushFails
    BY <2>0, <2>3, CutWrites DEF FlushFails, CutFlush, Unwritten, TypeOK
  <2>4. CASE Restart
    BY <2>0, <2>4, LinesType, LoadedFacts DEF Restart, RestartWith, TypeOK
  <2>5. CASE DieInFlush
    <3>1. file' \in Seq(Line)
      BY <2>5, CutWrites DEF DieInFlush
    <3>2. cuts' \in 0..MaxCuts
      BY <2>0, <2>5 DEF DieInFlush, CutFlush
    <3>3. recorded' \subseteq Fills \union {Header, NoId}
      BY <2>5, <3>1, LoadedFacts DEF DieInFlush, RestartWith
    <3>. QED
      BY <2>0, <2>5, <3>1, <3>2, <3>3 DEF DieInFlush, RestartWith, TypeOK
  <2>6. CASE Clear
    BY <1>0, <2>6, Zenon DEF Clear, TypeOK
  <2>7. CASE UNCHANGED vars
    BY <2>7 DEF vars, TypeOK
  <2>. QED
    BY <2>1, <2>2, <2>3, <2>4, <2>5, <2>6, <2>7 DEF Next
<1>. QED
  BY <1>1, <1>2, PTL DEF Spec

-----------------------------------------------------------------------------
(* What cuts may cost.  Lost are the flushed fills without a firm row,     *)
(* Doubtful those with a row or a memory that refuses them, but no firm    *)
(* row and no pending record.  A torn end of the file is a loss to come.   *)
Lost == kept \ Firmly(Lines)

Doubtful == ((IdsOf(Lines) \union (recorded \ ToSet(pending))) \intersect Fills) \ Firmly(Lines)

TornEnd == IF Torn(Lines) THEN 1 ELSE 0

Accounted ==
    /\ IsFiniteSet(Lost) /\ IsFiniteSet(Doubtful)
    /\ Cardinality(Lost) + TornEnd <= cuts
    /\ Cardinality(Doubtful) + TornEnd <= 2 * cuts

LEMMA SmallerSet ==
    ASSUME NEW S, IsFiniteSet(S), NEW T, T \subseteq S
    PROVE  /\ IsFiniteSet(T) /\ Cardinality(T) \in Nat /\ Cardinality(S) \in Nat
           /\ Cardinality(T) <= Cardinality(S)
  BY FS_Subset, FS_CardinalityType

LEMMA OneMore ==
    ASSUME NEW S, IsFiniteSet(S), NEW x, NEW T, T \subseteq S \union {x}
    PROVE  /\ IsFiniteSet(T) /\ Cardinality(T) \in Nat /\ Cardinality(S) \in Nat
           /\ Cardinality(T) <= Cardinality(S) + 1
<1>1. IsFiniteSet(S \union {x}) /\ Cardinality(S \union {x}) <= Cardinality(S) + 1
      /\ Cardinality(S) \in Nat
  BY FS_AddElement, FS_CardinalityType
<1>2. /\ IsFiniteSet(T) /\ Cardinality(T) \in Nat /\ Cardinality(S \union {x}) \in Nat
      /\ Cardinality(T) <= Cardinality(S \union {x})
  BY <1>1, SmallerSet
<1>. QED
  BY <1>1, <1>2

(* A whole flush can only lose the fill that it writes behind a torn line. *)
LEMMA FlushCosts ==
    ASSUME TypeOK, Flush
    PROVE  /\ ~Torn(Lines')
           /\ \A f : f \in Lost' => f \in Lost \/ (Torn(Lines) /\ f = Output[1].id)
           /\ \A f : f \in Doubtful' => f \in Doubtful \/ (Torn(Lines) /\ f = Output[1].id)
<1>. DEFINE new == Lines'
<1>1. /\ Output \in Seq(Line) /\ Len(pending) \in Nat
      /\ Len(Output) = Len(pending) + Offset /\ DOMAIN Output = 1..Len(Output)
      /\ \A i \in 1..Len(Output) : Firm(Output[i]) /\ Output[i].cut = "no"
      /\ \A i \in 1..Len(pending) : Output[i + Offset].id = pending[i]
      /\ Offset \in {0, 1}
  BY OutputFacts, LenProperties DEF Offset
<1>2. Lines \in Seq(Line) /\ Output # <<>> /\ new = Written(Lines, Output)
  BY LinesType, FlushWrites
<1>. HIDE DEF new
<1>3. /\ Firmly(Lines) \subseteq Firmly(new)
      /\ \A k \in DOMAIN Output : (k # 1 \/ ~Torn(Lines)) => Output[k].id \in Firmly(new)
      /\ \A i \in DOMAIN new :
            new[i].id \in IdsOf(Lines) \union {NoId} \/ new[i].id \in Firmly(new)
  <2>1. /\ Firmly(Lines) \subseteq Firmly(new)
        /\ \A k \in DOMAIN Output :
              Firm(Output[k]) /\ (k # 1 \/ ~Torn(Lines)) => Output[k].id \in Firmly(new)
        /\ \A i \in DOMAIN new :
              \/ new[i].id \in IdsOf(Lines) \union {NoId}
              \/ \E k \in DOMAIN Output :
                    new[i] = Output[k] /\ (Firm(Output[k]) => new[i].id \in Firmly(new))
    BY <1>1, <1>2, FirmStays
  <2>. QED
    BY <1>1, <2>1
<1>4. ~Torn(new)
  <2>1. GrownBy(new, Lines, Output)
    BY <1>1, <1>2, Appended
  <2>2. Len(Output) \in 1..Len(Output)
    BY <1>1, <1>2, EmptySeq
  <2>3. Output[Len(Output)].cut = "no"
    BY <1>1, <2>2
  <2>. QED
    BY <2>1, <2>3 DEF GrownBy
<1>5. \A f \in ToSet(pending) : f \in Firmly(new) \/ (Torn(Lines) /\ f = Output[1].id)
  <2>. SUFFICES ASSUME NEW i \in 1..Len(pending)
                PROVE  pending[i] \in Firmly(new) \/ (Torn(Lines) /\ pending[i] = Output[1].id)
    BY PendingFacts
  <2>1. i + Offset \in DOMAIN Output /\ Output[i + Offset].id = pending[i]
    BY <1>1
  <2>2. CASE i + Offset # 1 \/ ~Torn(Lines)
    BY <1>3, <2>1, <2>2
  <2>3. CASE i + Offset = 1 /\ Torn(Lines)
    BY <2>1, <2>3
  <2>. QED
    BY <2>2, <2>3
<1>6. kept' = kept \union ToSet(pending) /\ pending' = <<>> /\ recorded' = recorded
  BY DEF Flush
<1>7. Firmly(Lines)' = Firmly(new) /\ IdsOf(Lines)' = IdsOf(new) /\ ToSet(pending') = {}
  BY <1>6, PendingFacts DEF Firmly, IdsOf, new, Firm
<1>8. \A f : f \in Lost' => f \in Lost \/ (Torn(Lines) /\ f = Output[1].id)
  BY <1>3, <1>5, <1>6, <1>7 DEF Lost
<1>9. \A f \in IdsOf(new) \intersect Fills : f \in IdsOf(Lines) \/ f \in Firmly(new)
  BY <1>3, IdsAssumption DEF IdsOf
<1>10. Doubtful' = ((IdsOf(new) \union recorded) \intersect Fills) \ Firmly(new)
  BY <1>6, <1>7 DEF Doubtful
<1>11. \A f : f \in Doubtful' => f \in Doubtful \/ (Torn(Lines) /\ f = Output[1].id)
  BY <1>3, <1>5, <1>9, <1>10 DEF Doubtful
<1>. QED
  BY <1>4, <1>8, <1>11 DEF new

(* A flush that is cut short leaves at most one row that is not firm.      *)
LEMMA CutCosts ==
    ASSUME TypeOK, CutFlush
    PROVE  /\ Firmly(Lines) \subseteq Firmly(Lines')
           /\ \E x : \A f \in IdsOf(Lines') \intersect Fills :
                 f \in Firmly(Lines') \/ f = x
                 \/ (f \in IdsOf(Lines) /\ f \notin Firmly(Lines))
<1>. DEFINE new == Lines'
<1>1. PICK output :
         /\ Begun(output)
         /\ \/ output = <<>> /\ new = Lines
            \/ output # <<>> /\ new = Written(Lines, output)
  BY CutWrites
<1>2. Lines \in Seq(Line) /\ output \in Seq(Line)
  BY <1>1, LinesType DEF Begun
<1>. HIDE DEF new
<1>3. CASE output = <<>> /\ new = Lines
  <2>1. \A f \in IdsOf(new) \intersect Fills :
           f \in Firmly(new) \/ f = NoId \/ (f \in IdsOf(Lines) /\ f \notin Firmly(Lines))
    BY <1>3
  <2>. QED
    BY <1>3, <2>1 DEF new
<1>4. CASE output # <<>> /\ new = Written(Lines, output)
  <2>. DEFINE x == output[Len(output)].id
  <2>1. /\ Firmly(Lines) \subseteq Firmly(new)
        /\ \A i \in DOMAIN new :
              \/ new[i].id \in IdsOf(Lines) \union {NoId}
              \/ \E k \in DOMAIN output :
                    new[i] = output[k] /\ (Firm(output[k]) => new[i].id \in Firmly(new))
    BY <1>2, <1>4, FirmStays
  <2>2. \A k \in DOMAIN output : k = Len(output) \/ Firm(output[k])
    <3>1. DOMAIN output = 1..Len(output) /\ Len(output) \in Nat
          /\ Len(Output) \in Nat /\ Len(output) <= Len(Output)
      BY <1>1, <1>2, OutputFacts, LenProperties DEF Begun
    <3>2. \A k \in DOMAIN output :
             k = Len(output) \/ (k \in 1..Len(output) - 1 /\ k \in 1..Len(Output))
      BY <3>1
    <3>3. \A k \in 1..Len(Output) : Firm(Output[k])
      BY OutputFacts
    <3>. QED
      BY <1>1, <3>2, <3>3 DEF Begun
  <2>3. \A i \in DOMAIN new :
           new[i].id \in IdsOf(Lines) \union {NoId} \/ new[i].id \in Firmly(new) \/ new[i].id = x
    BY <2>1, <2>2
  <2>4. \A f \in IdsOf(new) \intersect Fills :
           f \in Firmly(new) \/ f = x \/ (f \in IdsOf(Lines) /\ f \notin Firmly(Lines))
    BY <2>1, <2>3, IdsAssumption DEF IdsOf
  <2>. QED
    BY <2>1, <2>4 DEF new
<1>. QED
  BY <1>1, <1>3, <1>4

LEMMA CutAccounted ==
    ASSUME TypeOK, Accounted, CutFlush, kept' = kept,
           \/ recorded' = recorded /\ pending' = pending
           \/ recorded' \subseteq IdsOf(Lines')
    PROVE  Accounted'
<1>1. cuts' = cuts + 1 /\ cuts \in Nat
  BY DEF CutFlush, TypeOK
<1>2. Firmly(Lines)' = Firmly(Lines') /\ IdsOf(Lines)' = IdsOf(Lines')
  BY DEF Firmly, IdsOf, Firm
<1>3. PICK x : \A f \in IdsOf(Lines') \intersect Fills :
                  f \in Firmly(Lines') \/ f = x
                  \/ (f \in IdsOf(Lines) /\ f \notin Firmly(Lines))
  BY CutCosts
<1>4. Firmly(Lines) \subseteq Firmly(Lines')
  BY CutCosts
<1>5. Lost' \subseteq Lost
  BY <1>2, <1>4 DEF Lost
<1>6. Doubtful' \subseteq Doubtful \union {x}
  <2>1. ASSUME NEW f \in Doubtful', f # x
        PROVE  f \in Doubtful
    <3>1. f \in Fills /\ f \notin Firmly(Lines') /\ f \notin Firmly(Lines)
          /\ (f \in IdsOf(Lines') \/ (f \in recorded' /\ f \notin ToSet(pending')))
      BY <1>2, <1>4 DEF Doubtful
    <3>2. CASE f \in IdsOf(Lines')
      BY <1>3, <2>1, <3>1, <3>2 DEF Doubtful
    <3>3. CASE f \notin IdsOf(Lines')
      BY <3>1, <3>3 DEF Doubtful
    <3>. QED
      BY <3>2, <3>3
  <2>. QED
    BY <2>1
<1>7. TornEnd \in {0, 1} /\ TornEnd' \in {0, 1}
  BY DEF TornEnd
<1>8. /\ IsFiniteSet(Lost') /\ Cardinality(Lost') \in Nat /\ Cardinality(Lost) \in Nat
      /\ Cardinality(Lost') <= Cardinality(Lost)
  BY <1>5, SmallerSet DEF Accounted
<1>9. /\ IsFiniteSet(Doubtful') /\ Cardinality(Doubtful') \in Nat /\ Cardinality(Doubtful) \in Nat
      /\ Cardinality(Doubtful') <= Cardinality(Doubtful) + 1
  BY <1>6, OneMore DEF Accounted
<1>10. Cardinality(Lost) + TornEnd <= cuts /\ Cardinality(Doubtful) + TornEnd <= 2 * cuts
  BY DEF Accounted
<1>11. Cardinality(Lost') + TornEnd' <= cuts'
  BY <1>1, <1>7, <1>8, <1>10
<1>12. Cardinality(Doubtful') + TornEnd' <= 2 * cuts'
  BY <1>1, <1>7, <1>9, <1>10
<1>. QED
  BY <1>8, <1>9, <1>11, <1>12 DEF Accounted

LEMMA FlushAccounted ==
    ASSUME TypeOK, Accounted, Flush
    PROVE  Accounted'
<1>. DEFINE x == Output[1].id
<1>1. cuts' = cuts /\ cuts \in Nat
  BY DEF Flush, TypeOK
<1>2. ~Torn(Lines)' /\ TornEnd' = 0
  BY FlushCosts DEF TornEnd, Torn
<1>3. CASE ~Torn(Lines)
  <2>1. Lost' \subseteq Lost /\ Doubtful' \subseteq Doubtful
    BY <1>3, FlushCosts
  <2>2. TornEnd = 0
    BY <1>3 DEF TornEnd
  <2>3. /\ IsFiniteSet(Lost') /\ Cardinality(Lost') \in Nat /\ Cardinality(Lost) \in Nat
        /\ Cardinality(Lost') <= Cardinality(Lost)
        /\ IsFiniteSet(Doubtful') /\ Cardinality(Doubtful') \in Nat /\ Cardinality(Doubtful) \in Nat
        /\ Cardinality(Doubtful') <= Cardinality(Doubtful)
    BY <2>1, SmallerSet DEF Accounted
  <2>. QED
    BY <1>1, <1>2, <2>2, <2>3 DEF Accounted
<1>4. CASE Torn(Lines)
  <2>1. Lost' \subseteq Lost \union {x} /\ Doubtful' \subseteq Doubtful \union {x}
    BY <1>4, FlushCosts
  <2>2. TornEnd = 1
    BY <1>4 DEF TornEnd
  <2>. HIDE DEF x
  <2>3. /\ IsFiniteSet(Lost') /\ Cardinality(Lost') \in Nat /\ Cardinality(Lost) \in Nat
        /\ Cardinality(Lost') <= Cardinality(Lost) + 1
        /\ IsFiniteSet(Doubtful') /\ Cardinality(Doubtful') \in Nat /\ Cardinality(Doubtful) \in Nat
        /\ Cardinality(Doubtful') <= Cardinality(Doubtful) + 1
    BY <2>1, OneMore DEF Accounted
  <2>. QED
    BY <1>1, <1>2, <2>2, <2>3 DEF Accounted
<1>. QED
  BY <1>3, <1>4

LEMMA SmallerAccounted ==
    ASSUME TypeOK, Accounted, cuts' = cuts, Torn(Lines)' = Torn(Lines),
           Lost' \subseteq Lost, Doubtful' \subseteq Doubtful
    PROVE  Accounted'
<1>1. cuts \in Nat
  BY DEF TypeOK
<1>2. TornEnd' = TornEnd /\ TornEnd \in {0, 1}
  BY DEF TornEnd
<1>3. /\ IsFiniteSet(Lost') /\ Cardinality(Lost') \in Nat /\ Cardinality(Lost) \in Nat
      /\ Cardinality(Lost') <= Cardinality(Lost)
      /\ IsFiniteSet(Doubtful') /\ Cardinality(Doubtful') \in Nat /\ Cardinality(Doubtful) \in Nat
      /\ Cardinality(Doubtful') <= Cardinality(Doubtful)
  BY SmallerSet DEF Accounted
<1>. QED
  BY <1>1, <1>2, <1>3 DEF Accounted

LEMMA Accounting == Spec => []Accounted
<1>1. Init => Accounted
  <2>. SUFFICES ASSUME Init
                PROVE  Accounted
    OBVIOUS
  <2>1. Lines = <<>> /\ IdsOf(Lines) = {} /\ TornEnd = 0
    BY DEF Init, Lines, IdsOf, TornEnd, Torn
  <2>2. Lost = {} /\ Doubtful = {}
    BY <2>1 DEF Init, Lost, Doubtful
  <2>. QED
    BY <2>1, <2>2, FS_EmptySet DEF Init, Accounted
<1>2. TypeOK /\ Accounted /\ [Next]_vars => Accounted'
  <2>. SUFFICES ASSUME TypeOK, Accounted, [Next]_vars
                PROVE  Accounted'
    OBVIOUS
  <2>1. ASSUME NEW f \in Fills, RecordFill(f)
        PROVE  Accounted'
    <3>1. Lines' = Lines /\ kept' = kept /\ cuts' = cuts /\ recorded' = recorded \union {f}
          /\ ToSet(pending') = ToSet(pending) \union {f}
      BY <2>1, PendingFacts DEF RecordFill, Lines
    <3>2. /\ Firmly(Lines)' = Firmly(Lines) /\ IdsOf(Lines)' = IdsOf(Lines)
          /\ Torn(Lines)' = Torn(Lines)
      BY <3>1 DEF Firmly, IdsOf, Torn, Firm
    <3>3. Lost' \subseteq Lost
      BY <3>1, <3>2 DEF Lost
    <3>4. Doubtful' \subseteq Doubtful
      BY <3>1, <3>2 DEF Doubtful
    <3>. QED
      BY <3>1, <3>2, <3>3, <3>4, SmallerAccounted
  <2>2. CASE Flush
    BY <2>2, FlushAccounted
  <2>3. CASE FlushFails
    BY <2>3, CutAccounted DEF FlushFails, Unwritten
  <2>4. CASE Restart
    <3>1. Lines' = Lines /\ kept' = kept /\ cuts' = cuts /\ recorded' \subseteq IdsOf(Lines)
      BY <2>4, LinesType, LoadedFacts DEF Restart, RestartWith, Lines
    <3>2. /\ Firmly(Lines)' = Firmly(Lines) /\ IdsOf(Lines)' = IdsOf(Lines)
          /\ Torn(Lines)' = Torn(Lines)
      BY <3>1 DEF Firmly, IdsOf, Torn, Firm
    <3>3. Lost' \subseteq Lost /\ Doubtful' \subseteq Doubtful
      BY <3>1, <3>2 DEF Lost, Doubtful
    <3>. QED
      BY <3>1, <3>2, <3>3, SmallerAccounted
  <2>5. CASE DieInFlush
    <3>1. CutFlush /\ kept' = kept /\ recorded' = Loaded(file')
      BY <2>5 DEF DieInFlush, RestartWith
    <3>2. recorded' \subseteq IdsOf(Lines')
      BY <3>1, CutWrites, LoadedFacts
    <3>. QED
      BY <3>1, <3>2, CutAccounted
  <2>6. CASE Clear
    <3>1. Lines' = <<>> /\ kept' = {} /\ recorded' = {} /\ cuts' = 0
      BY <2>6 DEF Clear, Lines
    <3>2. IdsOf(Lines)' = {} /\ TornEnd' = 0
      BY <3>1 DEF IdsOf, TornEnd, Torn
    <3>3. Lost' = {} /\ Doubtful' = {}
      BY <3>1, <3>2 DEF Lost, Doubtful
    <3>. QED
      BY <3>1, <3>2, <3>3, FS_EmptySet DEF Accounted
  <2>7. CASE UNCHANGED vars
    BY <2>7 DEF vars, Accounted, Lost, Doubtful, TornEnd, Torn, Firmly, Firm, IdsOf, Lines, ToSet
  <2>. QED
    BY <2>1, <2>2, <2>3, <2>4, <2>5, <2>6, <2>7 DEF Next
<1>. QED
  BY <1>1, <1>2, TypeCorrect, PTL DEF Spec

(* For any number of fills, flushes, failures and deaths: what a flush has *)
(* returned for is on disk, but for one fill each time a flush was cut.    *)
THEOREM FlushedStays == Spec => []FlushedIsKept
<1>1. Accounted /\ TypeOK => FlushedIsKept
  <2>. SUFFICES ASSUME Accounted, TypeOK
                PROVE  Cardinality(kept \ OnDisk) <= cuts
    BY DEF FlushedIsKept
  <2>1. kept \ OnDisk \subseteq Lost
    BY DEF Lost, Firmly, Firm, OnDisk, ToSet
  <2>2. Cardinality(kept \ OnDisk) \in Nat /\ Cardinality(Lost) \in Nat
        /\ Cardinality(kept \ OnDisk) <= Cardinality(Lost)
    BY <2>1, SmallerSet DEF Accounted
  <2>3. TornEnd \in {0, 1} /\ cuts \in Nat
    BY DEF TornEnd, TypeOK
  <2>. QED
    BY <2>2, <2>3 DEF Accounted
<1>. QED
  BY <1>1, Accounting, TypeCorrect, PTL

(* For any number of fills, flushes, failures and deaths: what record_fill *)
(* refuses is on disk or pending, but for two fills each time a flush was  *)
(* cut.                                                                    *)
THEOREM RefusedStays == Spec => []RefusedIsSafe
<1>1. Accounted /\ TypeOK => RefusedIsSafe
  <2>. DEFINE refused == (recorded \intersect Fills) \ (OnDisk \union ToSet(pending))
  <2>. SUFFICES ASSUME Accounted, TypeOK
                PROVE  Cardinality(refused) <= 2 * cuts
    BY DEF RefusedIsSafe
  <2>1. refused \subseteq Doubtful
    <3>1. Firmly(Lines) \subseteq OnDisk
      BY DEF Firmly, Firm, OnDisk, ToSet
    <3>. QED
      BY <3>1 DEF Doubtful
  <2>2. Cardinality(refused) \in Nat /\ Cardinality(Doubtful) \in Nat
        /\ Cardinality(refused) <= Cardinality(Doubtful)
    BY <2>1, SmallerSet DEF Accounted
  <2>3. TornEnd \in {0, 1} /\ cuts \in Nat
    BY DEF TornEnd, TypeOK
  <2>. HIDE DEF refused
  <2>. QED
    BY <2>2, <2>3 DEF Accounted
<1>. QED
  BY <1>1, Accounting, TypeCorrect, PTL

-----------------------------------------------------------------------------
(* Where nothing was cut, the file is a header and whole rows.             *)
WellFormed ==
    cuts = 0 => \/ file = NoFile
                \/ file # <<>> /\ file[1].id = Header /\ \A i \in DOMAIN file : Firm(file[i])

LEMMA FlushWellFormed ==
    ASSUME TypeOK, WellFormed, Flush
    PROVE  WellFormed'
<1>. SUFFICES ASSUME cuts = 0
              PROVE  file' # <<>> /\ file'[1].id = Header /\ \A i \in DOMAIN file' : Firm(file'[i])
  <2>1. cuts' = cuts
    BY DEF Flush
  <2>. QED
    BY <2>1 DEF WellFormed
<1>. DEFINE a == Len(Lines)
            b == Len(Output)
<1>1. /\ Lines \in Seq(Line) /\ a \in Nat /\ DOMAIN Lines = 1..a
      /\ Output \in Seq(Line) /\ b \in Nat \ {0} /\ DOMAIN Output = 1..b
      /\ Output # <<>> /\ file' = Written(Lines, Output)
  <2>1. /\ Lines \in Seq(Line) /\ Output \in Seq(Line) /\ Output # <<>>
        /\ file' = Written(Lines, Output)
    BY LinesType, OutputFacts, FlushWrites
  <2>. QED
    BY <2>1, LenProperties, EmptySeq
<1>2. \A i \in 1..a : Firm(Lines[i])
  <2>1. file = NoFile \/ \A i \in DOMAIN file : Firm(file[i])
    BY DEF WellFormed
  <2>. QED
    BY <1>1, <2>1 DEF Lines
<1>3. \A i \in 1..b : Firm(Output[i])
  BY OutputFacts
<1>4. ~Torn(Lines)
  <2>1. Lines # <<>> => a \in 1..a
    BY <1>1, EmptySeq
  <2>. QED
    BY <1>2, <2>1 DEF Torn, Firm
<1>5. /\ file' \in Seq(Line) /\ Len(file') = a + b
      /\ \A i \in 1..a : file'[i] = Lines[i]
      /\ \A i \in 1..b : file'[a + i] = Output[i]
  BY <1>1, <1>4, WrittenPlain
<1>6. DOMAIN file' = 1..a + b /\ file' # <<>>
  BY <1>1, <1>5, LenProperties, EmptySeq
<1>7. \A i \in 1..a + b : Firm(file'[i])
  <2>. SUFFICES ASSUME NEW i \in 1..a + b
                PROVE  Firm(file'[i])
    OBVIOUS
  <2>. HIDE DEF a, b
  <2>1. CASE i \in 1..a
    BY <1>2, <1>5, <2>1
  <2>2. CASE i \notin 1..a
    <3>1. i - a \in 1..b /\ a + (i - a) = i
      BY <1>1, <2>2
    <3>2. file'[a + (i - a)] = Output[i - a]
      BY <1>5, <3>1
    <3>. QED
      BY <1>3, <3>1, <3>2
  <2>. QED
    BY <2>1, <2>2
<1>8. file'[1].id = Header
  <2>1. CASE file = NoFile
    <3>1. a = 0 /\ Output[1].id = Header
      BY <2>1, OutputFacts, EmptySeq DEF Lines
    <3>2. 1 \in 1..b /\ 0 + 1 = 1
      BY <1>1
    <3>3. file'[0 + 1] = Output[1]
      BY <1>5, <3>1, <3>2
    <3>. QED
      BY <3>1, <3>2, <3>3
  <2>2. CASE file # NoFile
    <3>1. Lines = file /\ file # <<>> /\ file[1].id = Header
      BY <2>2 DEF Lines, WellFormed
    <3>2. 1 \in 1..a
      BY <1>1, <3>1, EmptySeq
    <3>. QED
      BY <1>5, <3>1, <3>2
  <2>. QED
    BY <2>1, <2>2
<1>. QED
  BY <1>6, <1>7, <1>8

LEMMA StaysWellFormed == Spec => []WellFormed
<1>1. Init => WellFormed
  BY DEF Init, WellFormed
<1>2. TypeOK /\ WellFormed /\ [Next]_vars => WellFormed'
  <2>. SUFFICES ASSUME TypeOK, WellFormed, [Next]_vars
                PROVE  WellFormed'
    OBVIOUS
  <2>1. ASSUME NEW f \in Fills, RecordFill(f)
        PROVE  WellFormed'
    BY <2>1 DEF RecordFill, WellFormed, Firm
  <2>2. CASE Flush
    BY <2>2, FlushWellFormed
  <2>3. CASE CutFlush
    <3>1. cuts \in Nat /\ cuts' = cuts + 1
      BY <2>3 DEF CutFlush, TypeOK
    <3>2. cuts' # 0
      BY <3>1
    <3>. QED
      BY <3>2 DEF WellFormed
  <2>4. CASE Restart
    BY <2>4 DEF Restart, WellFormed, Firm
  <2>5. CASE Clear
    BY <2>5 DEF Clear, WellFormed
  <2>6. CASE UNCHANGED vars
    BY <2>6 DEF vars, WellFormed, Firm
  <2>. QED
    BY <2>1, <2>2, <2>3, <2>4, <2>5, <2>6 DEF Next, FlushFails, DieInFlush
<1>. QED
  BY <1>1, <1>2, TypeCorrect, PTL DEF Spec

(* While no flush was cut short, a reader finds the columns' names and     *)
(* complete rows, after any number of flushes and restarts.                *)
THEOREM ReadableUncut == Spec => []FileReadable
<1>1. WellFormed /\ TypeOK => FileReadable
  <2>. SUFFICES ASSUME WellFormed, TypeOK, cuts = 0
                PROVE  Readable
    BY DEF FileReadable
  <2>1. CASE file = NoFile
    BY <2>1 DEF Readable, Lines
  <2>2. CASE file # NoFile
    <3>1. Lines = file /\ file \in Seq(Line)
      BY <2>2 DEF Lines, TypeOK
    <3>2. file # <<>> /\ file[1].id = Header /\ \A i \in DOMAIN file : file[i].good
      BY <2>2 DEF WellFormed, Firm
    <3>3. Head(file) = file[1]
      BY <3>1, <3>2
    <3>. QED
      BY <3>1, <3>2, <3>3 DEF Readable, Named
  <2>. QED
    BY <2>1, <2>2
<1>. QED
  BY <1>1, StaysWellFormed, TypeCorrect, PTL

-----------------------------------------------------------------------------
(* Where the rows of the file come from.  A row behind the first line that *)
(* names a fill is an old row or that of the pending record which stands   *)
(* as far behind the start of pending as the row behind some fixed line.   *)
From(new, i, c) ==
    \/ i \in DOMAIN Lines /\ new[i].id = Lines[i].id
    \/ i - c \in 1..Len(pending) /\ new[i].id = pending[i - c]

LEMMA WrittenIds ==
    ASSUME TypeOK, NEW output, Begun(output), NEW k \in DOMAIN output,
           output[k].id \in Fills \union {Header}
    PROVE  /\ k \in 1..Len(Output)
           /\ output[k].id = Output[k].id
           /\ \/ k = 1 /\ file = NoFile
              \/ k - Offset \in 1..Len(pending) /\ output[k].id = pending[k - Offset]
<1>1. /\ output \in Seq(Line) /\ Len(output) <= Len(Output)
      /\ \A i \in 1..Len(output) - 1 : output[i] = Output[i]
      /\ output # <<>> => \/ output[Len(output)] = Output[Len(output)]
                          \/ output[Len(output)].id \in {NoId, Output[Len(output)].id}
  BY DEF Begun
<1>2. /\ Len(output) \in Nat /\ DOMAIN output = 1..Len(output) /\ output # <<>>
      /\ Len(Output) \in Nat /\ Len(pending) \in Nat /\ Len(Output) = Len(pending) + Offset
      /\ \A i \in 1..Len(pending) : Output[i + Offset].id = pending[i]
      /\ Offset \in {0, 1} /\ (Offset = 1 => file = NoFile)
  BY <1>1, OutputFacts, LenProperties, EmptySeq DEF Offset
<1>3. k \in 1..Len(Output) /\ (k \in 1..Len(output) - 1 \/ k = Len(output))
  BY <1>1, <1>2
<1>4. output[k].id = Output[k].id
  BY <1>1, <1>2, <1>3, IdsAssumption
<1>5. (k = 1 /\ Offset = 1) \/ (k - Offset \in 1..Len(pending) /\ (k - Offset) + Offset = k)
  <2>. DEFINE l == Len(pending)
              m == Len(Output)
  <2>1. l \in Nat /\ m \in Nat /\ m = l + Offset /\ Offset \in {0, 1} /\ k \in 1..m
    BY <1>2, <1>3
  <2>. HIDE DEF l, m
  <2>2. (k = 1 /\ Offset = 1) \/ (k - Offset \in 1..l /\ (k - Offset) + Offset = k)
    BY <2>1
  <2>. QED
    BY <2>2 DEF l
<1>. QED
  BY <1>2, <1>3, <1>4, <1>5

LEMMA RowOrigin ==
    ASSUME TypeOK, NEW output, Begun(output), output # <<>>,
           NEW new, new = Written(Lines, output)
    PROVE  /\ new \in Seq(Line) /\ new # <<>>
           /\ new[1].id = Header => Lines = <<>> \/ Lines[1].id = Header
           /\ \E c \in Int : \A i \in DOMAIN new :
                 i >= 2 /\ new[i].id \in Fills => From(new, i, c)
<1>. DEFINE a == Len(Lines)
            b == Len(output)
            n == Len(pending)
<1>1. /\ Lines \in Seq(Line) /\ a \in Nat /\ DOMAIN Lines = 1..a /\ Lines \in [1..a -> Line]
      /\ output \in Seq(Line) /\ b \in Nat \ {0} /\ DOMAIN output = 1..b
      /\ output \in [1..b -> Line]
      /\ n \in Nat /\ Offset \in {0, 1} /\ (Offset = 1 <=> file = NoFile)
      /\ \A i \in 1..n : pending[i] \in Fills
  <2>1. Lines \in Seq(Line) /\ output \in Seq(Line) /\ pending \in Seq(Fills)
    BY LinesType DEF Begun, TypeOK
  <2>2. b # 0
    BY <2>1, EmptySeq
  <2>. QED
    BY <2>1, <2>2, LenProperties DEF Offset
<1>2. new \in Seq(Line) /\ new # <<>>
  <2>1. GrownBy(new, Lines, output)
    BY <1>1, Appended
  <2>. QED
    BY <2>1 DEF GrownBy
<1>3. \A k \in 1..b : output[k].id \in Fills =>
          (k = 1 /\ file = NoFile) \/ (k - Offset \in 1..n /\ output[k].id = pending[k - Offset])
  BY <1>1, WrittenIds
<1>4. file # NoFile => output[1].id # Header
  <2>1. SUFFICES ASSUME file # NoFile, output[1].id = Header
                 PROVE  FALSE
    OBVIOUS
  <2>2. 1 \in 1..b
    BY <1>1
  <2>3. 1 - Offset \in 1..n /\ output[1].id = pending[1 - Offset]
    BY <1>1, <2>1, <2>2, WrittenIds
  <2>. QED
    BY <1>1, <2>1, <2>3, IdsAssumption
<1>5. CASE ~Torn(Lines)
  <2>1. /\ Len(new) = a + b
        /\ \A i \in 1..a : new[i] = Lines[i]
        /\ \A i \in 1..b : new[a + i] = output[i]
    BY <1>1, <1>5, WrittenPlain
  <2>2. DOMAIN new = 1..a + b
    BY <1>2, <2>1, LenProperties
  <2>3. new[1].id = Header => Lines = <<>> \/ Lines[1].id = Header
    <3>1. Lines # <<>> => 1 \in 1..a
      BY <1>1, EmptySeq
    <3>. QED
      BY <2>1, <3>1
  <2>4. file = NoFile => a = 0
    BY EmptySeq DEF Lines
  <2>5. \A i \in DOMAIN new : i >= 2 /\ new[i].id \in Fills => From(new, i, a + Offset)
    <3>. SUFFICES ASSUME NEW i \in 1..a + b, i >= 2, new[i].id \in Fills
                  PROVE  From(new, i, a + Offset)
      BY <2>2
    <3>. HIDE DEF a, b, n
    <3>1. CASE i \in 1..a
      BY <1>1, <2>1, <3>1 DEF From
    <3>2. CASE i \notin 1..a
      <4>1. i - a \in 1..b /\ a + (i - a) = i /\ (i - a) - Offset = i - (a + Offset)
            /\ (i - a = 1 => a # 0)
        BY <1>1, <3>2
      <4>2. new[i] = output[i - a]
        BY <2>1, <4>1
      <4>3. i - (a + Offset) \in 1..n /\ new[i].id = pending[i - (a + Offset)]
        BY <1>3, <2>4, <4>1, <4>2
      <4>. QED
        BY <4>3 DEF From, n
    <3>. QED
      BY <3>1, <3>2
  <2>6. a + Offset \in Int
    BY <1>1
  <2>. QED
    BY <1>2, <2>3, <2>5, <2>6
<1>6. CASE Torn(Lines)
  <2>. DEFINE glued == Glued(Lines[a], output[1])
  <2>1. /\ a \in Nat \ {0} /\ Len(new) = a + b - 1
        /\ \A i \in 1..a - 1 : new[i] = Lines[i]
        /\ new[a] = glued
        /\ \A i \in 2..b : new[a + i - 1] = output[i]
    BY <1>1, <1>6, WrittenTorn
  <2>2. DOMAIN new = 1..a + b - 1
    BY <1>2, <2>1, LenProperties
  <2>3. glued = output[1] \/ glued.id \in {NoId, Lines[a].id}
    <3>1. Lines[a] \in Line /\ output[1] \in Line /\ Lines[a].cut # "no"
      BY <1>1, <1>6, <2>1 DEF Torn
    <3>. QED
      BY <3>1, GluedFacts
  <2>. HIDE DEF glued
  <2>4. file # NoFile /\ Offset = 0
    BY <1>1, <1>6 DEF Torn, Lines
  <2>5. new[1].id = Header => Lines[1].id = Header
    <3>1. CASE a = 1
      BY <1>4, <2>1, <2>3, <2>4, <3>1, IdsAssumption
    <3>2. CASE a # 1
      <4>1. \A m \in Nat \ {0} : m # 1 => 1 \in 1..m - 1
        OBVIOUS
      <4>2. 1 \in 1..a - 1
        BY <2>1, <3>2, <4>1
      <4>. QED
        BY <2>1, <4>2
    <3>. QED
      BY <3>1, <3>2
  <2>6. \A k \in 1..b : output[k].id \in Fills => k \in 1..n /\ output[k].id = pending[k]
    <3>1. \A k \in 1..b : k - Offset = k
      BY <2>4
    <3>. QED
      BY <1>3, <2>4, <3>1
  <2>7. \A i \in DOMAIN new : i >= 2 /\ new[i].id \in Fills => From(new, i, a - 1)
    <3>. SUFFICES ASSUME NEW i \in 1..a + b - 1, i >= 2, new[i].id \in Fills
                  PROVE  From(new, i, a - 1)
      BY <2>2
    <3>. HIDE DEF a, b, n
    <3>1. CASE i \in 1..a - 1
      <4>1. i \in 1..a
        BY <2>1, <3>1
      <4>. QED
        BY <1>1, <2>1, <3>1, <4>1 DEF From
    <3>2. CASE i = a
      <4>1. i \in 1..a /\ 1 \in 1..b /\ i - (a - 1) = 1
        BY <1>1, <2>1, <3>2
      <4>2. CASE new[i].id = Lines[a].id
        BY <1>1, <3>2, <4>1, <4>2 DEF From
      <4>3. CASE new[i] = output[1]
        <5>1. 1 \in 1..n /\ new[i].id = pending[1]
          BY <2>6, <4>1, <4>3
        <5>. QED
          BY <4>1, <5>1 DEF From, n
      <4>. QED
        BY <2>1, <2>3, <3>2, <4>2, <4>3, IdsAssumption
    <3>3. CASE i \notin 1..a - 1 /\ i # a
      <4>1. i - (a - 1) \in 2..b /\ a + (i - (a - 1)) - 1 = i /\ i - (a - 1) \in 1..b
        BY <1>1, <2>1, <3>3
      <4>2. new[i] = output[i - (a - 1)]
        BY <2>1, <4>1
      <4>3. i - (a - 1) \in 1..n /\ new[i].id = pending[i - (a - 1)]
        BY <2>6, <4>1, <4>2
      <4>. QED
        BY <4>3 DEF From, n
    <3>. QED
      BY <3>1, <3>2, <3>3
  <2>8. a - 1 \in Int
    BY <2>1
  <2>. QED
    BY <1>2, <2>5, <2>7, <2>8
<1>. QED
  BY <1>5, <1>6

-----------------------------------------------------------------------------
(* Every fill behind the first line and every pending one is remembered,   *)
(* and none of them stands in two places.                                  *)
RowsRecorded == \A i \in DOMAIN Lines : i >= 2 /\ Lines[i].id \in Fills => Lines[i].id \in recorded

RowsOnce ==
    \A i, j \in DOMAIN Lines :
        i >= 2 /\ j >= 2 /\ Lines[i].id \in Fills /\ Lines[i].id = Lines[j].id => i = j

PendingOnce == \A i, j \in 1..Len(pending) : pending[i] = pending[j] => i = j

RowsNotPending ==
    \A i \in DOMAIN Lines : \A j \in 1..Len(pending) : i >= 2 => Lines[i].id # pending[j]

Exact ==
    ~raised /\ (Lines = <<>> \/ Named(Lines)) =>
        /\ RowsRecorded /\ ToSet(pending) \subseteq recorded
        /\ RowsOnce /\ PendingOnce /\ RowsNotPending

LEMMA NamedIsHead ==
    ASSUME NEW lines \in Seq(Line), lines # <<>>
    PROVE  Named(lines) <=> lines[1].id = Header
BY RowsFacts DEF Named

(* Behind a flush that was not cut, or cut but fatal, the rows are in      *)
(* order, and those that are new were pending.                             *)
LEMMA GrowsExact ==
    ASSUME TypeOK, Exact, ~raised,
           NEW output, Begun(output), output # <<>>, Lines' = Written(Lines, output),
           Named(Lines')
    PROVE  /\ RowsOnce'
           /\ ToSet(pending) \subseteq recorded
           /\ \A i \in DOMAIN Lines' :
                 i >= 2 /\ Lines'[i].id \in Fills => Lines'[i].id \in recorded
<1>. DEFINE new == Lines'
<1>1. PICK c \in Int : \A i \in DOMAIN new : i >= 2 /\ new[i].id \in Fills => From(new, i, c)
  BY RowOrigin
<1>2. /\ new \in Seq(Line) /\ new # <<>>
      /\ new[1].id = Header => Lines = <<>> \/ Lines[1].id = Header
  BY RowOrigin
<1>3. Lines = <<>> \/ Named(Lines)
  BY <1>2, NamedIsHead, LinesType
<1>4. /\ RowsRecorded /\ ToSet(pending) \subseteq recorded
      /\ RowsOnce /\ PendingOnce /\ RowsNotPending
  BY <1>3 DEF Exact
<1>5. \A i \in 1..Len(pending) : pending[i] \in recorded
  BY <1>4, PendingFacts
<1>6. DOMAIN new \subseteq Int
  <2>1. DOMAIN new = 1..Len(new)
    BY <1>2, LenProperties
  <2>. QED
    BY <2>1
<1>. HIDE DEF new
<1>7. \A i \in DOMAIN new : i >= 2 /\ new[i].id \in Fills => new[i].id \in recorded
  BY <1>1, <1>4, <1>5 DEF From, RowsRecorded
<1>8. ASSUME NEW i \in DOMAIN new, NEW j \in DOMAIN new,
             i >= 2, j >= 2, new[i].id \in Fills, new[i].id = new[j].id
      PROVE  i = j
  <2>1. From(new, i, c) /\ From(new, j, c)
    BY <1>1, <1>8
  <2>2. CASE i \in DOMAIN Lines /\ new[i].id = Lines[i].id
    <3>1. CASE j \in DOMAIN Lines /\ new[j].id = Lines[j].id
      BY <1>4, <1>8, <2>2, <3>1 DEF RowsOnce
    <3>2. CASE j - c \in 1..Len(pending) /\ new[j].id = pending[j - c]
      BY <1>4, <1>8, <2>2, <3>2 DEF RowsNotPending
    <3>. QED
      BY <2>1, <3>1, <3>2 DEF From
  <2>3. CASE i - c \in 1..Len(pending) /\ new[i].id = pending[i - c]
    <3>1. CASE j \in DOMAIN Lines /\ new[j].id = Lines[j].id
      BY <1>4, <1>8, <2>3, <3>1 DEF RowsNotPending
    <3>2. CASE j - c \in 1..Len(pending) /\ new[j].id = pending[j - c]
      <4>1. i - c = j - c
        BY <1>4, <1>8, <2>3, <3>2 DEF PendingOnce
      <4>. QED
        BY <1>6, <4>1
    <3>. QED
      BY <2>1, <3>1, <3>2 DEF From
  <2>. QED
    BY <2>1, <2>2, <2>3 DEF From
<1>9. RowsOnce'
  BY <1>8 DEF RowsOnce, new
<1>. QED
  BY <1>4, <1>7, <1>9 DEF new

(* With nothing pending, Exact is about the file and the memory of it.     *)
LEMMA NothingPending ==
    ASSUME pending' = <<>>,
           ~raised' /\ (Lines' = <<>> \/ Named(Lines')) =>
               /\ RowsOnce'
               /\ \A i \in DOMAIN Lines' :
                     i >= 2 /\ Lines'[i].id \in Fills => Lines'[i].id \in recorded'
    PROVE  Exact'
<1>1. ToSet(pending') = {} /\ 1..Len(pending') = {}
  BY DEF ToSet
<1>2. PendingOnce' /\ RowsNotPending' /\ ToSet(pending') \subseteq recorded'
  BY <1>1 DEF PendingOnce, RowsNotPending
<1>3. Named(Lines)' <=> Named(Lines')
  BY DEF Named
<1>. QED
  BY <1>2, <1>3 DEF Exact, RowsRecorded

LEMMA LoadedRemembers ==
    ASSUME NEW lines \in Seq(Line), lines = <<>> \/ Named(lines)
    PROVE  \A i \in DOMAIN lines : i >= 2 => lines[i].id \in Loaded(lines)
<1>1. CASE lines = <<>>
  BY <1>1
<1>2. CASE Named(lines)
  <2>. DEFINE n == Len(lines)
  <2>1. lines # <<>> /\ Loaded(lines) = ToSet(Rows(lines))
    BY <1>2 DEF Named, Loaded
  <2>2. /\ n \in Nat \ {0} /\ Rows(lines) \in Seq(Fills \union {Header, NoId})
        /\ Len(Rows(lines)) = n - 1
        /\ \A i \in 1..n - 1 : Rows(lines)[i] = lines[i + 1].id
    BY <2>1, RowsFacts
  <2>3. DOMAIN Rows(lines) = 1..n - 1 /\ DOMAIN lines = 1..n
    BY <2>2, LenProperties
  <2>. HIDE DEF n
  <2>4. \A i \in 1..n : i >= 2 => i - 1 \in 1..n - 1 /\ (i - 1) + 1 = i
    BY <2>2
  <2>. QED
    BY <2>1, <2>2, <2>3, <2>4 DEF ToSet
<1>. QED
  BY <1>1, <1>2

LEMMA RecordExact ==
    ASSUME TypeOK, Exact, NEW f \in Fills, RecordFill(f)
    PROVE  Exact'
<1>1. /\ Lines' = Lines /\ raised' = raised /\ f \notin recorded
      /\ recorded' = recorded \union {f} /\ pending' = Append(pending, f)
  BY DEF RecordFill, IsDuplicate, Lines
<1>. SUFFICES ASSUME ~raised, Lines = <<>> \/ Named(Lines)
              PROVE  /\ RowsRecorded' /\ ToSet(pending') \subseteq recorded'
                     /\ RowsOnce' /\ PendingOnce' /\ RowsNotPending'
  BY <1>1 DEF Exact, Named
<1>2. /\ RowsRecorded /\ ToSet(pending) \subseteq recorded
      /\ RowsOnce /\ PendingOnce /\ RowsNotPending
  BY DEF Exact
<1>. DEFINE n == Len(pending)
<1>3. /\ n \in Nat /\ Len(pending') = n + 1
      /\ \A i \in 1..n : pending'[i] = pending[i] /\ pending[i] \in recorded /\ pending[i] # f
      /\ pending'[n + 1] = f
  <2>1. pending \in Seq(Fills)
    BY DEF TypeOK
  <2>2. \A i \in 1..n : pending[i] \in recorded
    BY <1>2, PendingFacts
  <2>. QED
    BY <1>1, <2>1, <2>2
<1>. HIDE DEF n
<1>4. \A i \in 1..n + 1 : i \in 1..n \/ i = n + 1
  BY <1>3
<1>5. RowsRecorded' /\ RowsOnce'
  BY <1>1, <1>2 DEF RowsRecorded, RowsOnce
<1>6. ToSet(pending') \subseteq recorded'
  BY <1>1, <1>2, PendingFacts
<1>7. PendingOnce'
  <2>. SUFFICES ASSUME NEW i \in 1..n + 1, NEW j \in 1..n + 1, pending'[i] = pending'[j]
                PROVE  i = j
    BY <1>3 DEF PendingOnce
  <2>1. CASE i \in 1..n /\ j \in 1..n
    BY <1>2, <1>3, <2>1 DEF PendingOnce, n
  <2>2. CASE i \in 1..n /\ j = n + 1
    BY <1>3, <2>2
  <2>3. CASE i = n + 1 /\ j \in 1..n
    BY <1>3, <2>3
  <2>. QED
    BY <1>4, <2>1, <2>2, <2>3
<1>8. RowsNotPending'
  <2>. SUFFICES ASSUME NEW i \in DOMAIN Lines, NEW j \in 1..n + 1, i >= 2
                PROVE  Lines[i].id # pending'[j]
    BY <1>1, <1>3 DEF RowsNotPending
  <2>1. CASE j \in 1..n
    BY <1>2, <1>3, <2>1 DEF RowsNotPending, n
  <2>2. CASE j = n + 1
    BY <1>1, <1>2, <1>3, <2>2 DEF RowsRecorded
  <2>. QED
    BY <1>4, <2>1, <2>2
<1>. QED
  BY <1>5, <1>6, <1>7, <1>8

LEMMA StaysExact == Spec => []Exact
<1>1. Init => Exact
  BY DEF Init, Exact, Lines, ToSet, RowsRecorded, RowsOnce, PendingOnce, RowsNotPending
<1>2. TypeOK /\ Exact /\ [Next]_vars => Exact'
  <2>. SUFFICES ASSUME TypeOK, Exact, [Next]_vars
                PROVE  Exact'
    OBVIOUS
  <2>1. ASSUME NEW f \in Fills, RecordFill(f)
        PROVE  Exact'
    BY <2>1, RecordExact
  <2>2. CASE Flush
    <3>1. pending' = <<>> /\ raised' = raised /\ recorded' = recorded
      BY <2>2 DEF Flush
    <3>2. ASSUME ~raised, Named(Lines')
          PROVE  /\ RowsOnce'
                 /\ \A i \in DOMAIN Lines' :
                       i >= 2 /\ Lines'[i].id \in Fills => Lines'[i].id \in recorded
      BY <2>2, <3>2, FlushWrites, OutputFacts, GrowsExact
    <3>3. Lines' # <<>>
      <4>1. GrownBy(Lines', Lines, Output)
        BY <2>2, LinesType, FlushWrites, OutputFacts, Appended
      <4>. QED
        BY <4>1 DEF GrownBy
    <3>. QED
      BY <3>1, <3>2, <3>3, NothingPending
  <2>3. CASE FlushFails
    BY <2>3 DEF FlushFails, Exact
  <2>4. CASE Restart
    <3>1. Lines' = Lines /\ pending' = <<>> /\ raised' = raised /\ recorded' = Loaded(Lines)
      BY <2>4 DEF Restart, RestartWith, Lines
    <3>2. ASSUME ~raised, Lines = <<>> \/ Named(Lines)
          PROVE  RowsOnce' /\ \A i \in DOMAIN Lines : i >= 2 => Lines[i].id \in recorded'
      BY <3>1, <3>2, LinesType, LoadedRemembers DEF Exact, RowsOnce
    <3>. QED
      BY <3>1, <3>2, NothingPending
  <2>5. CASE DieInFlush
    <3>1. CutFlush /\ pending' = <<>> /\ raised' = raised /\ recorded' = Loaded(file')
      BY <2>5 DEF DieInFlush, RestartWith
    <3>2. /\ file' \in Seq(Line) /\ Lines' = file'
          /\ \E output : Begun(output) /\ \/ output = <<>> /\ Lines' = Lines
                                          \/ output # <<>> /\ Lines' = Written(Lines, output)
      BY <3>1, CutWrites
    <3>3. ASSUME ~raised, Lines' = <<>> \/ Named(Lines')
          PROVE  RowsOnce' /\ \A i \in DOMAIN Lines' : i >= 2 => Lines'[i].id \in recorded'
      <4>1. \A i \in DOMAIN Lines' : i >= 2 => Lines'[i].id \in recorded'
        BY <3>1, <3>2, <3>3, LoadedRemembers
      <4>2. CASE Lines' = <<>>
        BY <4>2 DEF RowsOnce
      <4>3. CASE Lines' = Lines
        BY <3>3, <4>1, <4>3 DEF Exact, RowsOnce
      <4>4. ASSUME Named(Lines'), NEW output, Begun(output), output # <<>>,
                   Lines' = Written(Lines, output)
            PROVE  RowsOnce'
        BY <3>3, <4>4, GrowsExact
      <4>. QED
        BY <3>2, <3>3, <4>1, <4>2, <4>3, <4>4
    <3>. QED
      BY <3>1, <3>3, NothingPending
  <2>6. CASE Clear
    <3>1. Lines' = <<>> /\ pending' = <<>>
      BY <2>6 DEF Clear, Lines
    <3>. QED
      BY <3>1, NothingPending DEF RowsOnce
  <2>7. CASE UNCHANGED vars
    BY <2>7 DEF vars, Exact, Lines, Named, RowsRecorded, RowsOnce, PendingOnce, RowsNotPending
  <2>. QED
    BY <2>1, <2>2, <2>3, <2>4, <2>5, <2>6, <2>7 DEF Next
<1>. QED
  BY <1>1, <1>2, TypeCorrect, PTL DEF Spec

LEMMA RowIds ==
    ASSUME TypeOK, Lines = <<>> \/ Named(Lines)
    PROVE  /\ Rows(Lines) \in Seq(Fills \union {Header, NoId})
           /\ \A i \in 1..Len(Rows(Lines)) :
                 i + 1 \in DOMAIN Lines /\ i + 1 >= 2 /\ Rows(Lines)[i] = Lines[i + 1].id
<1>1. CASE Lines = <<>>
  <2>1. Rows(Lines) = <<>> /\ Len(<<>>) = 0
    BY <1>1 DEF Rows
  <2>. QED
    BY <2>1, EmptySeq
<1>2. CASE Lines # <<>>
  <2>. DEFINE n == Len(Lines)
  <2>1. Lines \in Seq(Line)
    BY LinesType
  <2>2. /\ n \in Nat \ {0} /\ DOMAIN Lines = 1..n
        /\ Rows(Lines) \in Seq(Fills \union {Header, NoId})
        /\ Len(Rows(Lines)) = n - 1
        /\ \A i \in 1..n - 1 : Rows(Lines)[i] = Lines[i + 1].id
    BY <1>2, <2>1, RowsFacts, LenProperties
  <2>. HIDE DEF n
  <2>3. \A i \in 1..n - 1 : i + 1 \in 1..n /\ i + 1 >= 2
    BY <2>2
  <2>. QED
    BY <2>2, <2>3
<1>. QED
  BY <1>1, <1>2

(* However many fills, flushes, restarts and deaths: as long as no write   *)
(* raised and the header can be read, the blotter remembers every fill on  *)
(* disk or pending, and has none of them in two places.                    *)
THEOREM CountStaysExact == Spec => []CountIsExact
<1>1. Exact /\ TypeOK => CountIsExact
  <2>. SUFFICES ASSUME Exact, TypeOK, ~raised, Lines = <<>> \/ Named(Lines)
                PROVE  /\ (ToSet(Rows(Lines)) \union ToSet(pending)) \intersect Fills
                              \subseteq recorded
                       /\ FillsOnce(Rows(Lines) \o pending)
    BY DEF CountIsExact
  <2>. DEFINE rows == Rows(Lines)
              r == Len(rows)
              p == Len(pending)
  <2>1. /\ RowsRecorded /\ ToSet(pending) \subseteq recorded
        /\ RowsOnce /\ PendingOnce /\ RowsNotPending
    BY DEF Exact
  <2>2. /\ rows \in Seq(Fills \union {Header, NoId})
        /\ \A i \in 1..r : i + 1 \in DOMAIN Lines /\ i + 1 >= 2 /\ rows[i] = Lines[i + 1].id
    BY RowIds
  <2>3. /\ r \in Nat /\ p \in Nat /\ DOMAIN rows = 1..r
        /\ pending \in Seq(Fills \union {Header, NoId})
        /\ \A i \in 1..p : pending[i] \in Fills
    <3>1. pending \in Seq(Fills)
      BY DEF TypeOK
    <3>. QED
      BY <2>2, <3>1, LenProperties
  <2>4. /\ rows \o pending \in Seq(Fills \union {Header, NoId})
        /\ Len(rows \o pending) = r + p
        /\ \A i \in 1 .. r + p : (rows \o pending)[i] = IF i <= r THEN rows[i] ELSE pending[i - r]
    BY <2>2, <2>3, ConcatProperties
  <2>. DEFINE all == rows \o pending
  <2>5. DOMAIN all = 1..r + p
    BY <2>4, LenProperties
  <2>. HIDE DEF rows, all
  <2>6. ToSet(rows) \intersect Fills \subseteq recorded
    BY <2>1, <2>2, <2>3 DEF ToSet, RowsRecorded
  <2>. HIDE DEF r, p
  <2>7. \A i \in 1..r + p : i \in 1..r \/ (i \notin 1..r /\ i - r \in 1..p)
    BY <2>3
  <2>8. \A i \in 1..r : all[i] = rows[i]
    <3>1. \A i \in 1..r : i \in 1..r + p /\ i <= r
      BY <2>3
    <3>. QED
      BY <2>4, <3>1 DEF all
  <2>9. \A i \in 1..r + p : i \notin 1..r => all[i] = pending[i - r]
    <3>1. \A i \in 1..r + p : i \notin 1..r => ~(i <= r)
      BY <2>3
    <3>. QED
      BY <2>4, <3>1 DEF all
  <2>10. ASSUME NEW i \in 1..r + p, NEW j \in 1..r + p, all[i] \in Fills, all[i] = all[j]
         PROVE  i = j
    <3>1. CASE i \in 1..r /\ j \in 1..r
      <4>1. i + 1 = j + 1
        BY <2>1, <2>2, <2>8, <2>10, <3>1 DEF RowsOnce, r
      <4>. QED
        BY <2>3, <4>1
    <3>2. CASE i \in 1..r /\ j \notin 1..r
      <4>1. /\ Lines[i + 1].id = pending[j - r] /\ j - r \in 1..p
            /\ i + 1 \in DOMAIN Lines /\ i + 1 >= 2
        BY <2>2, <2>7, <2>8, <2>9, <2>10, <3>2 DEF r
      <4>. QED
        BY <2>1, <4>1 DEF RowsNotPending, p
    <3>3. CASE i \notin 1..r /\ j \in 1..r
      <4>1. /\ Lines[j + 1].id = pending[i - r] /\ i - r \in 1..p
            /\ j + 1 \in DOMAIN Lines /\ j + 1 >= 2
        BY <2>2, <2>7, <2>8, <2>9, <2>10, <3>3 DEF r
      <4>. QED
        BY <2>1, <4>1 DEF RowsNotPending, p
    <3>4. CASE i \notin 1..r /\ j \notin 1..r
      <4>1. i - r \in 1..p /\ j - r \in 1..p /\ pending[i - r] = pending[j - r]
        BY <2>7, <2>9, <2>10, <3>4
      <4>2. i - r = j - r
        BY <2>1, <4>1 DEF PendingOnce, p
      <4>. QED
        BY <2>3, <4>2
    <3>. QED
      BY <3>1, <3>2, <3>3, <3>4
  <2>11. FillsOnce(all)
    BY <2>5, <2>10 DEF FillsOnce
  <2>. QED
    BY <2>1, <2>6, <2>11 DEF rows, all
<1>. QED
  BY <1>1, StaysExact, TypeCorrect, PTL
=============================================================================
