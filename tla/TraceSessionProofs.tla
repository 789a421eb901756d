------------------------- MODULE TraceSessionProofs -------------------------
(***************************************************************************)
(* Proofs about TraceSession.                                              *)
(***************************************************************************)
EXTENDS TraceSession, ListLemmas, FiniteSetTheorems, SequenceTheorems,
        WellFoundedInduction, TLAPS

LEMMA MaxOfTwo == \A a, b \in Int : Max({a, b}) = IF a >= b THEN a ELSE b
  BY DEF Max
LEMMA MinOfTwo == \A a, b \in Int : Min({a, b}) = IF a =< b THEN a ELSE b
  BY DEF Min

(***************************************************************************)
(* What the loops over a chunk do, one step at a time.                     *)
(***************************************************************************)
LEMMA AddAccessEventsByOne ==
  ASSUME NEW s, NEW events, NEW n \in Nat, DOMAIN events = 1 .. n
  PROVE  \E f : /\ f[0] = s
                /\ \A i \in 1 .. n : f[i] = AddAccessEvent(f[i - 1], events[i])
                /\ AddAccessEvents(s, events) = f[n]
<1> DEFINE Iter(g, k) == g = [x \in SUBSET (1 .. k) |->
                 IF x = {} THEN s
                 ELSE AddAccessEvent(g[x \ {Max(x)}], events[Max(x)])]
           Ex == {k \in Nat : \E g : Iter(g, k)}
<1>1. 0 \in Ex
  <2> DEFINE g == [x \in SUBSET (1 .. 0) |-> s]
  <2>1. \A x \in SUBSET (1 .. 0) : x = {} OBVIOUS
  <2>2. Iter(g, 0) BY <2>1
  <2> QED BY <2>2
<1>2. \A k \in Nat : k \in Ex => k + 1 \in Ex
  <2> SUFFICES ASSUME NEW k \in Nat, NEW g, Iter(g, k) PROVE k + 1 \in Ex
    OBVIOUS
  <2> DEFINE h == [x \in SUBSET (1 .. (k + 1)) |->
                     IF k + 1 \in x THEN AddAccessEvent(g[x \ {k + 1}], events[k + 1])
                     ELSE g[x]]
  <2>1. ASSUME NEW x \in SUBSET (1 .. (k + 1))
        PROVE  h[x] = IF x = {} THEN s
                      ELSE AddAccessEvent(h[x \ {Max(x)}], events[Max(x)])
    <3>1. CASE k + 1 \in x
      <4>1. Max(x) = k + 1
        <5>1. x \subseteq Nat /\ \A y \in x : y <= k + 1 OBVIOUS
        <5>2. Max(x) \in x /\ \A y \in x : y <= Max(x)
          BY <3>1, <5>1, MaxIsGreatest
        <5>3. Max(x) \in Nat /\ Max(x) <= k + 1 /\ k + 1 <= Max(x)
          BY <3>1, <5>1, <5>2
        <5> QED BY <5>3
      <4>2. x \ {k + 1} \in SUBSET (1 .. k)  OBVIOUS
      <4>3. h[x \ {k + 1}] = g[x \ {k + 1}] BY <4>2
      <4> QED BY <3>1, <4>1, <4>3
    <3>2. CASE k + 1 \notin x
      <4>1. x \in SUBSET (1 .. k)
        <5> SUFFICES ASSUME NEW y \in x PROVE y \in 1 .. k OBVIOUS
        <5> QED BY <3>2
      <4>2. h[x] = g[x] BY <3>2
      <4>3. CASE x = {} BY <4>1, <4>2, <4>3
      <4>4. CASE x # {}
        <5>1. Max(x) \in x
          <6>1. x \subseteq Nat /\ \A y \in x : y <= k BY <4>1
          <6> QED BY <6>1, <4>4, MaxIsGreatest
        <5>2. x \ {Max(x)} \in SUBSET (1 .. k) BY <4>1
        <5>3. h[x \ {Max(x)}] = g[x \ {Max(x)}] BY <3>2, <5>2
        <5> QED BY <4>1, <4>2, <4>4, <5>3
      <4> QED BY <4>3, <4>4
    <3> QED BY <3>1, <3>2
  <2>2. Iter(h, k + 1) BY <2>1
  <2> HIDE DEF h, Iter
  <2> QED BY <2>2
<1>3. n \in Ex
  <2> HIDE DEF Ex
  <2> QED BY <1>1, <1>2, NaturalsAreReached
<1> DEFINE it == CHOOSE g : Iter(g, n)
<1>4. Iter(it, n)
  BY <1>3
<1>5. AddAccessEvents(s, events) = it[1 .. n]
  BY DEF AddAccessEvents, FoldLeft, MapThenFoldSet
<1> DEFINE f == [i \in 0 .. n |-> it[1 .. i]]
<1> HIDE DEF it
<1>6. f[0] = s
  <2>1. 1 .. 0 = {} OBVIOUS
  <2> QED BY <1>4, <2>1
<1>7. ASSUME NEW i \in 1 .. n
      PROVE  f[i] = AddAccessEvent(f[i - 1], events[i])
  <2>1. Max(1 .. i) = i /\ (1 .. i) \ {i} = 1 .. (i - 1) BY TopOfInterval
  <2>2. 1 .. i \in SUBSET (1 .. n) /\ 1 .. i # {} OBVIOUS
  <2>3. it[1 .. i] = AddAccessEvent(it[(1 .. i) \ {Max(1 .. i)}], events[Max(1 .. i)])
    BY <1>4, <2>2
  <2>4. f[i] = it[1 .. i] /\ f[i - 1] = it[1 .. (i - 1)] OBVIOUS
  <2> HIDE DEF f
  <2> QED BY <2>1, <2>3, <2>4
<1>8. AddAccessEvents(s, events) = f[n] BY <1>5
<1> QED BY <1>6, <1>7, <1>8

Unparsed == [line |-> <<>>, events |-> <<>>, malformed |-> 0]

LEMMA ParseByOne ==
  ASSUME NEW raw, NEW misread, NEW n \in Nat, DOMAIN raw = 1 .. n
  PROVE  \E f : /\ f[0] = Unparsed
                /\ \A i \in 1 .. n : f[i] = ParseCell(f[i - 1], raw[i], misread)
                /\ ParseAccessSegment(raw, misread) = f[n]
<1> DEFINE Iter(g, k) == g = [x \in SUBSET (1 .. k) |->
                 IF x = {} THEN Unparsed
                 ELSE ParseCell(g[x \ {Max(x)}], raw[Max(x)], misread)]
           Ex == {k \in Nat : \E g : Iter(g, k)}
<1>1. 0 \in Ex
  <2> DEFINE g == [x \in SUBSET (1 .. 0) |-> Unparsed]
  <2>1. \A x \in SUBSET (1 .. 0) : x = {} OBVIOUS
  <2>2. Iter(g, 0) BY <2>1
  <2> QED BY <2>2
<1>2. \A k \in Nat : k \in Ex => k + 1 \in Ex
  <2> SUFFICES ASSUME NEW k \in Nat, NEW g, Iter(g, k) PROVE k + 1 \in Ex
    OBVIOUS
  <2> DEFINE h == [x \in SUBSET (1 .. (k + 1)) |->
                     IF k + 1 \in x THEN ParseCell(g[x \ {k + 1}], raw[k + 1], misread)
                     ELSE g[x]]
  <2>1. ASSUME NEW x \in SUBSET (1 .. (k + 1))
        PROVE  h[x] = IF x = {} THEN Unparsed
                      ELSE ParseCell(h[x \ {Max(x)}], raw[Max(x)], misread)
    <3>1. CASE k + 1 \in x
      <4>1. Max(x) = k + 1
        <5>1. x \subseteq Nat /\ \A y \in x : y <= k + 1 OBVIOUS
        <5>2. Max(x) \in x /\ \A y \in x : y <= Max(x)
          BY <3>1, <5>1, MaxIsGreatest
        <5>3. Max(x) \in Nat /\ Max(x) <= k + 1 /\ k + 1 <= Max(x)
          BY <3>1, <5>1, <5>2
        <5> QED BY <5>3
      <4>2. x \ {k + 1} \in SUBSET (1 .. k)  OBVIOUS
      <4>3. h[x \ {k + 1}] = g[x \ {k + 1}] BY <4>2
      <4> QED BY <3>1, <4>1, <4>3
    <3>2. CASE k + 1 \notin x
      <4>1. x \in SUBSET (1 .. k)
        <5> SUFFICES ASSUME NEW y \in x PROVE y \in 1 .. k OBVIOUS
        <5> QED BY <3>2
      <4>2. h[x] = g[x] BY <3>2
      <4>3. CASE x = {} BY <4>1, <4>2, <4>3
      <4>4. CASE x # {}
        <5>1. Max(x) \in x
          <6>1. x \subseteq Nat /\ \A y \in x : y <= k BY <4>1
          <6> QED BY <6>1, <4>4, MaxIsGreatest
        <5>2. x \ {Max(x)} \in SUBSET (1 .. k) BY <4>1
        <5>3. h[x \ {Max(x)}] = g[x \ {Max(x)}] BY <3>2, <5>2
        <5> QED BY <4>1, <4>2, <4>4, <5>3
      <4> QED BY <4>3, <4>4
    <3> QED BY <3>1, <3>2
  <2>2. Iter(h, k + 1) BY <2>1
  <2> HIDE DEF h, Iter
  <2> QED BY <2>2
<1>3. n \in Ex
  <2> HIDE DEF Ex
  <2> QED BY <1>1, <1>2, NaturalsAreReached
<1> DEFINE it == CHOOSE g : Iter(g, n)
<1>4. Iter(it, n)
  BY <1>3
<1>5. ParseAccessSegment(raw, misread) = it[1 .. n]
  BY DEF ParseAccessSegment, Unparsed, FoldLeft, MapThenFoldSet
<1> DEFINE f == [i \in 0 .. n |-> it[1 .. i]]
<1> HIDE DEF it
<1>6. f[0] = Unparsed
  <2>1. 1 .. 0 = {} OBVIOUS
  <2> QED BY <1>4, <2>1
<1>7. ASSUME NEW i \in 1 .. n
      PROVE  f[i] = ParseCell(f[i - 1], raw[i], misread)
  <2>1. Max(1 .. i) = i /\ (1 .. i) \ {i} = 1 .. (i - 1) BY TopOfInterval
  <2>2. 1 .. i \in SUBSET (1 .. n) /\ 1 .. i # {} OBVIOUS
  <2>3. it[1 .. i] = ParseCell(it[(1 .. i) \ {Max(1 .. i)}], raw[Max(1 .. i)], misread)
    BY <1>4, <2>2
  <2>4. f[i] = it[1 .. i] /\ f[i - 1] = it[1 .. (i - 1)] OBVIOUS
  <2> HIDE DEF f
  <2> QED BY <2>1, <2>3, <2>4
<1>8. ParseAccessSegment(raw, misread) = f[n] BY <1>5
<1> QED BY <1>6, <1>7, <1>8

(***************************************************************************)
(* The ring of a session object.                                           *)
(***************************************************************************)
RecordNo == 0 .. MaxRecords
Cell == 1 .. 2 * MaxRecords

SessionType ==
  [id : Nat, mode : {"sampled", "continuous"}, stopped : BOOLEAN,
   fed : Seq(RecordNo), count : Nat, dropped : Nat, last : RecordNo,
   gaps : Nat, malformed : Nat, unread : Nat, cseg : Nat, carry : Seq(Cell),
   clean : BOOLEAN]

Ring(s) ==
  /\ s.count <= MaxEvents /\ s.count <= Len(s.fed)
  /\ s.count = 0 => Len(s.fed) = 0
  /\ ~s.stopped => s.count + s.dropped = Len(s.fed)

SameBut(s, z) ==
  /\ z.id = s.id /\ z.mode = s.mode /\ z.stopped = s.stopped /\ z.clean = s.clean
  /\ z.malformed = s.malformed /\ z.unread = s.unread
  /\ z.cseg = s.cseg /\ z.carry = s.carry

Later(s, z) ==
  /\ Len(s.fed) <= Len(z.fed)
  /\ OldestSequence(s) <= OldestSequence(z)

LEMMA SessionFields ==
  ASSUME NEW s \in SessionType
  PROVE  /\ s.id \in Nat /\ s.mode \in {"sampled", "continuous"}
         /\ s.stopped \in BOOLEAN /\ s.clean \in BOOLEAN
         /\ s.fed \in Seq(RecordNo) /\ Len(s.fed) \in Nat /\ s.count \in Nat
         /\ s.dropped \in Nat /\ s.last \in RecordNo /\ s.gaps \in Nat
         /\ s.malformed \in Nat /\ s.unread \in Nat /\ s.cseg \in Nat
         /\ s.carry \in Seq(Cell)
         /\ OldestSequence(s) \in Int
<1>1. /\ s.id \in Nat /\ s.mode \in {"sampled", "continuous"} /\ s.stopped \in BOOLEAN
      /\ s.fed \in Seq(RecordNo) /\ s.count \in Nat /\ s.dropped \in Nat
      /\ s.last \in RecordNo /\ s.gaps \in Nat /\ s.malformed \in Nat
      /\ s.unread \in Nat /\ s.cseg \in Nat /\ s.carry \in Seq(Cell) /\ s.clean \in BOOLEAN
  BY DEF SessionType
<1>2. Len(s.fed) \in Nat BY <1>1
<1>3. OldestSequence(s) \in Int BY <1>1, <1>2 DEF OldestSequence
<1> QED BY <1>1, <1>2, <1>3

LEMMA AddingOneKeepsTheRing ==
  ASSUME NEW s \in SessionType, Ring(s), NEW r \in RecordNo
  PROVE  LET z == AddAccessEvent(s, r)
         IN  z \in SessionType /\ Ring(z) /\ Later(s, z) /\ SameBut(s, z)
<1> DEFINE z == AddAccessEvent(s, r)
<1>0. MaxRecords \in Nat /\ MaxEvents \in Nat \ {0}
  BY SessionAssumption, StoreAssumption
<1>1. /\ s.id \in Nat /\ s.mode \in {"sampled", "continuous"} /\ s.stopped \in BOOLEAN
      /\ s.fed \in Seq(RecordNo) /\ s.count \in Nat /\ s.dropped \in Nat
      /\ s.last \in RecordNo /\ s.gaps \in Nat /\ s.malformed \in Nat
      /\ s.unread \in Nat /\ s.cseg \in Nat /\ s.carry \in Seq(Cell) /\ s.clean \in BOOLEAN
  BY SessionFields
<1>2. Len(s.fed) \in Nat BY SessionFields
<1>3. /\ Append(s.fed, r) \in Seq(RecordNo)
      /\ Len(Append(s.fed, r)) = Len(s.fed) + 1
  BY <1>1
<1>4. Max({s.last, r}) \in RecordNo
  <2>1. s.last \in Nat /\ r \in Nat /\ s.last <= MaxRecords /\ r <= MaxRecords
    BY <1>0, SessionFields DEF RecordNo
  <2>2. Max({s.last, r}) = IF s.last >= r THEN s.last ELSE r BY <2>1, MaxOfTwo
  <2> QED BY <1>0, <2>1, <2>2 DEF RecordNo
<1>5. NewGap(s, r) \in Nat
  BY <1>0, <1>1 DEF NewGap, RecordNo
<1>6. z = [s EXCEPT !.gaps = @ + NewGap(s, r), !.last = Max({s.last, r}),
                    !.fed = Append(s.fed, r),
                    !.count = IF Full(s) THEN s.count ELSE s.count + 1,
                    !.dropped = IF Full(s) THEN s.dropped + 1 ELSE s.dropped]
  BY DEF AddAccessEvent
<1> HIDE DEF z
<1>7. z \in SessionType
  <2>1. /\ (IF Full(s) THEN s.count ELSE s.count + 1) \in Nat
        /\ (IF Full(s) THEN s.dropped + 1 ELSE s.dropped) \in Nat
        /\ s.gaps + NewGap(s, r) \in Nat
    BY <1>1, <1>5, SMTT(40)
  <2>2. \A c, d, g, m, f : c \in Nat /\ d \in Nat /\ g \in Nat /\ m \in RecordNo
                           /\ f \in Seq(RecordNo)
          => [s EXCEPT !.gaps = g, !.last = m, !.fed = f, !.count = c, !.dropped = d]
               \in SessionType
    BY ZenonT(120) DEF SessionType
  <2> QED BY <1>3, <1>4, <1>6, <2>1, <2>2
<1>8. /\ z.fed = Append(s.fed, r) /\ z.count = (IF Full(s) THEN s.count ELSE s.count + 1)
      /\ z.dropped = (IF Full(s) THEN s.dropped + 1 ELSE s.dropped)
      /\ SameBut(s, z)
  BY <1>6 DEF SessionType, SameBut
<1>9. z.stopped = s.stopped /\ Len(z.fed) = Len(s.fed) + 1
  BY <1>3, <1>8 DEF SameBut
<1>10. s.count \in Nat /\ s.dropped \in Nat /\ Len(s.fed) \in Nat
  BY SessionFields
<1>11. /\ z.count = (IF Full(s) THEN s.count ELSE s.count + 1)
       /\ z.dropped = (IF Full(s) THEN s.dropped + 1 ELSE s.dropped)
  BY <1>8
<1>12. Ring(z)
  BY <1>0, <1>9, <1>10, <1>11, SMTT(40) DEF Ring, Full
<1>13. Later(s, z)
  BY <1>0, <1>9, <1>10, <1>11 DEF Ring, Full, Later, OldestSequence
<1> QED BY <1>7, <1>8, <1>12, <1>13 DEF z

LEMMA LaterIsTransitive ==
  ASSUME NEW s \in SessionType, NEW y \in SessionType, NEW z \in SessionType,
         Later(s, y), Later(y, z), SameBut(s, y), SameBut(y, z)
  PROVE  Later(s, z) /\ SameBut(s, z)
<1>1. Len(s.fed) \in Nat /\ Len(y.fed) \in Nat /\ Len(z.fed) \in Nat
  BY SessionFields
<1>2. /\ OldestSequence(s) \in Int /\ OldestSequence(y) \in Int
      /\ OldestSequence(z) \in Int
  BY SessionFields
<1> QED BY <1>1, <1>2 DEF Later, SameBut

LEMMA AddingKeepsTheRing ==
  ASSUME NEW s \in SessionType, Ring(s), NEW events \in Seq(RecordNo)
  PROVE  LET z == AddAccessEvents(s, events)
         IN  z \in SessionType /\ Ring(z) /\ Later(s, z) /\ SameBut(s, z)
<1> DEFINE n == Len(events)
           Good(z) == z \in SessionType /\ Ring(z) /\ Later(s, z) /\ SameBut(s, z)
<1>1. n \in Nat /\ DOMAIN events = 1 .. n /\ \A i \in 1 .. n : events[i] \in RecordNo
  OBVIOUS
<1> HIDE DEF n
<1>2. PICK f : /\ f[0] = s
               /\ \A i \in 1 .. n : f[i] = AddAccessEvent(f[i - 1], events[i])
               /\ AddAccessEvents(s, events) = f[n]
  BY <1>1, AddAccessEventsByOne
<1> DEFINE S == {i \in Nat : i <= n => Good(f[i])}
<1>3. 0 \in S
  <2>1. Later(s, s) /\ SameBut(s, s)
    <3>1. Len(s.fed) \in Nat /\ OldestSequence(s) \in Int
      BY SessionFields
    <3> QED BY <3>1 DEF Later, SameBut
  <2> QED BY <1>2, <2>1
<1>4. \A i \in Nat : i \in S => i + 1 \in S
  <2> SUFFICES ASSUME NEW i \in Nat, i \in S, i + 1 <= n PROVE Good(f[i + 1])
    OBVIOUS
  <2>1. Good(f[i]) /\ i + 1 \in 1 .. n BY <1>1
  <2>2. f[i + 1] = AddAccessEvent(f[i], events[i + 1]) BY <1>2, <2>1
  <2>3. events[i + 1] \in RecordNo BY <1>1, <2>1
  <2>4. /\ f[i + 1] \in SessionType /\ Ring(f[i + 1]) /\ Later(f[i], f[i + 1])
        /\ SameBut(f[i], f[i + 1])
    BY <2>1, <2>2, <2>3, AddingOneKeepsTheRing
  <2> QED BY <2>1, <2>4, LaterIsTransitive
<1>5. n \in S
  <2> HIDE DEF S
  <2> QED BY <1>1, <1>3, <1>4, NaturalsAreReached
<1> QED BY <1>1, <1>2, <1>5

(***************************************************************************)
(* Parsing. Whatever it is given, a collection of a disturbed object makes *)
(* of it a sequence of record numbers; of a run of whole lines it makes    *)
(* exactly the records of the run.                                         *)
(***************************************************************************)
ParsedType == [line : Seq(Nat), events : Seq(RecordNo), malformed : Nat]

LEMMA RecordOfACell ==
  ASSUME NEW c \in Cell
  PROVE  Record(c) \in RecordNo /\ 0 \in RecordNo
<1>1. MaxRecords \in Nat BY SessionAssumption
<1>2. c \in Nat /\ 1 <= c /\ c <= 2 * MaxRecords BY <1>1 DEF Cell
<1>3. (c + 1) \div 2 \in Nat /\ (c + 1) \div 2 <= MaxRecords BY <1>1, <1>2
<1> QED BY <1>1, <1>3 DEF Record, RecordNo

LEMMA ParsingOneIsTyped ==
  ASSUME NEW parsed \in ParsedType, NEW c \in Cell, NEW misread
  PROVE  ParseCell(parsed, c, misread) \in ParsedType
<1>1. /\ parsed.line \in Seq(Nat) /\ parsed.events \in Seq(RecordNo)
      /\ parsed.malformed \in Nat
  BY DEF ParsedType
<1>2. c \in Nat
  <2>1. MaxRecords \in Nat BY SessionAssumption
  <2> QED BY <2>1 DEF Cell
<1> DEFINE line == Append(parsed.line, c)
<1>3. line \in Seq(Nat) BY <1>1, <1>2
<1>4. Record(c) \in RecordNo /\ 0 \in RecordNo BY RecordOfACell
<1>5. /\ Append(parsed.events, Record(c)) \in Seq(RecordNo)
      /\ Append(parsed.events, 0) \in Seq(RecordNo)
      /\ <<>> \in Seq(Nat)
  BY <1>1, <1>4
<1>7. parsed.malformed + 1 \in Nat BY <1>1
<1>8. \/ ParseCell(parsed, c, misread) = [parsed EXCEPT !.line = line]
      \/ ParseCell(parsed, c, misread)
           = [parsed EXCEPT !.line = <<>>, !.events = Append(parsed.events, Record(c))]
      \/ ParseCell(parsed, c, misread)
           = [parsed EXCEPT !.line = <<>>, !.events = Append(parsed.events, 0)]
      \/ ParseCell(parsed, c, misread)
           = [parsed EXCEPT !.line = <<>>, !.malformed = parsed.malformed + 1]
  BY DEF ParseCell
<1> HIDE DEF line
<1>9. /\ [parsed EXCEPT !.line = line] \in ParsedType
      /\ [parsed EXCEPT !.line = <<>>, !.events = Append(parsed.events, Record(c))]
           \in ParsedType
      /\ [parsed EXCEPT !.line = <<>>, !.events = Append(parsed.events, 0)]
           \in ParsedType
      /\ [parsed EXCEPT !.line = <<>>, !.malformed = parsed.malformed + 1]
           \in ParsedType
  <2> DEFINE e1 == Append(parsed.events, Record(c))
             e2 == Append(parsed.events, 0)
             m1 == parsed.malformed + 1
             none == <<>>
  <2>1. /\ line \in Seq(Nat) /\ none \in Seq(Nat) /\ e1 \in Seq(RecordNo)
        /\ e2 \in Seq(RecordNo) /\ m1 \in Nat
    BY <1>3, <1>5, <1>7
  <2> HIDE DEF e1, e2, m1, none
  <2>2. /\ [parsed EXCEPT !.line = line] \in ParsedType
        /\ [parsed EXCEPT !.line = none, !.events = e1] \in ParsedType
        /\ [parsed EXCEPT !.line = none, !.events = e2] \in ParsedType
        /\ [parsed EXCEPT !.line = none, !.malformed = m1] \in ParsedType
    BY <2>1 DEF ParsedType
  <2> QED BY <2>2 DEF e1, e2, m1, none
<1> QED BY ONLY <1>8, <1>9

LEMMA ParsingIsTyped ==
  ASSUME NEW raw \in Seq(Cell), NEW misread
  PROVE  ParseAccessSegment(raw, misread) \in ParsedType
<1> DEFINE n == Len(raw)
<1>1. n \in Nat /\ DOMAIN raw = 1 .. n /\ \A i \in 1 .. n : raw[i] \in Cell
  OBVIOUS
<1> HIDE DEF n
<1>2. PICK f : /\ f[0] = Unparsed
               /\ \A i \in 1 .. n : f[i] = ParseCell(f[i - 1], raw[i], misread)
               /\ ParseAccessSegment(raw, misread) = f[n]
  BY <1>1, ParseByOne
<1> DEFINE S == {i \in Nat : i <= n => f[i] \in ParsedType}
<1>3. 0 \in S
  <2>1. <<>> \in Seq(Nat) /\ <<>> \in Seq(RecordNo) OBVIOUS
  <2>2. Unparsed \in ParsedType BY <2>1 DEF Unparsed, ParsedType
  <2> QED BY <1>2, <2>2
<1>4. \A i \in Nat : i \in S => i + 1 \in S
  <2> SUFFICES ASSUME NEW i \in Nat, i \in S, i + 1 <= n
               PROVE  f[i + 1] \in ParsedType
    OBVIOUS
  <2>1. f[i] \in ParsedType /\ i + 1 \in 1 .. n BY <1>1
  <2>2. f[i + 1] = ParseCell(f[i], raw[i + 1], misread) BY <1>2, <2>1
  <2>3. raw[i + 1] \in Cell BY <1>1, <2>1
  <2> QED BY <2>1, <2>2, <2>3, ParsingOneIsTyped
<1>5. n \in S
  <2> HIDE DEF S
  <2> QED BY <1>1, <1>3, <1>4, NaturalsAreReached
<1> QED BY <1>1, <1>2, <1>5

Run(a, m) == [j \in 1 .. m |-> a + j]

LEMMA RunIsSeq ==
  ASSUME NEW a \in Nat, NEW m \in Nat
  PROVE  /\ Run(a, m) \in Seq(Nat) /\ Len(Run(a, m)) = m
         /\ \A j \in 1 .. m : Run(a, m)[j] = a + j
         /\ Append(Run(a, m), a + m + 1) = Run(a, m + 1)
  BY DEF Run

\* One whole line, read from the beginning.
LEMMA ParsingALine ==
  ASSUME NEW parsed, NEW r \in Nat \ {0}, NEW misread, NEW e,
         parsed = [line |-> <<>>, events |-> e, malformed |-> 0]
  PROVE  ParseCell(ParseCell(parsed, 2 * r - 1, misread), 2 * r, misread)
           = [line |-> <<>>, events |-> Append(e, r), malformed |-> 0]
<1>1. ~EndsLine(2 * r - 1) /\ EndsLine(2 * r) BY DEF EndsLine
<1>2. Record(2 * r) = r BY DEF Record
<1>3. ParseCell(parsed, 2 * r - 1, misread)
        = [line |-> <<2 * r - 1>>, events |-> e, malformed |-> 0]
  BY <1>1 DEF ParseCell
<1>4. Append(<<2 * r - 1>>, 2 * r) = Cells(r, r)
  <2>1. 2 * (r - r + 1) = 2 OBVIOUS
  <2>2. Cells(r, r) = [i \in 1 .. 2 |-> 2 * (r - 1) + i] BY <2>1 DEF Cells
  <2>3. [i \in 1 .. 2 |-> 2 * (r - 1) + i] = <<2 * r - 1, 2 * r>> OBVIOUS
  <2> QED BY <2>2, <2>3
<1> QED BY <1>1, <1>2, <1>3, <1>4 DEF ParseCell

LEMMA ParsingWholeLines ==
  ASSUME NEW a \in Nat, NEW m \in Nat, NEW misread
  PROVE  ParseAccessSegment(Cells(a + 1, a + m), misread)
           = [line |-> <<>>, events |-> Run(a, m), malformed |-> 0]
<1> SUFFICES ASSUME NEW raw, raw = Cells(a + 1, a + m)
             PROVE  ParseAccessSegment(raw, misread)
                      = [line |-> <<>>, events |-> Run(a, m), malformed |-> 0]
  OBVIOUS
<1> DEFINE At(k) == [line |-> <<>>, events |-> Run(a, k), malformed |-> 0]
<1>1. DOMAIN raw = 1 .. (2 * m) /\ \A i \in 1 .. (2 * m) : raw[i] = 2 * a + i
  <2>1. 2 * ((a + m) - (a + 1) + 1) = 2 * m /\ 2 * ((a + 1) - 1) = 2 * a OBVIOUS
  <2>2. raw = [i \in 1 .. (2 * m) |-> 2 * a + i] BY <2>1 DEF Cells
  <2> QED BY <2>2
<1>2. PICK f : /\ f[0] = Unparsed
               /\ \A i \in 1 .. (2 * m) : f[i] = ParseCell(f[i - 1], raw[i], misread)
               /\ ParseAccessSegment(raw, misread) = f[2 * m]
  <2> DEFINE n == 2 * m
  <2>1. n \in Nat OBVIOUS
  <2>2. DOMAIN raw = 1 .. n BY <1>1
  <2> HIDE DEF n
  <2>3. \E f : /\ f[0] = Unparsed
               /\ \A i \in 1 .. n : f[i] = ParseCell(f[i - 1], raw[i], misread)
               /\ ParseAccessSegment(raw, misread) = f[n]
    BY <2>1, <2>2, ParseByOne
  <2> QED BY <2>3 DEF n
<1> DEFINE S == {k \in Nat : k <= m => f[2 * k] = At(k)}
<1>3. 0 \in S
  <2>1. Run(a, 0) = <<>> BY DEF Run
  <2>2. 2 * 0 = 0 OBVIOUS
  <2> QED BY <1>2, <2>1, <2>2 DEF Unparsed
<1>4. \A k \in Nat : k \in S => k + 1 \in S
  <2> SUFFICES ASSUME NEW k \in Nat, k \in S, k + 1 <= m
               PROVE  f[2 * (k + 1)] = At(k + 1)
    OBVIOUS
  <2>1. f[2 * k] = At(k) BY DEF S
  <2>2. /\ 2 * k + 1 \in 1 .. (2 * m) /\ 2 * k + 2 \in 1 .. (2 * m)
        /\ (2 * k + 1) - 1 = 2 * k /\ (2 * k + 2) - 1 = 2 * k + 1
        /\ 2 * (k + 1) = 2 * k + 2 /\ k <= m
    OBVIOUS
  <2>3. /\ raw[2 * k + 1] = 2 * a + (2 * k + 1)
        /\ raw[2 * k + 2] = 2 * a + (2 * k + 2)
    BY <1>1, <2>2
  <2>4. /\ f[2 * k + 1] = ParseCell(f[2 * k], raw[2 * k + 1], misread)
        /\ f[2 * k + 2] = ParseCell(f[2 * k + 1], raw[2 * k + 2], misread)
    BY <1>2, <2>2
  <2> DEFINE r == a + k + 1
  <2>5. /\ r \in Nat \ {0} /\ 2 * a + (2 * k + 1) = 2 * r - 1
        /\ 2 * a + (2 * k + 2) = 2 * r
    OBVIOUS
  <2> HIDE DEF r
  <2>6. f[2 * k + 2] = [line |-> <<>>, events |-> Append(Run(a, k), r), malformed |-> 0]
    <3>1. f[2 * k + 2] = ParseCell(ParseCell(At(k), 2 * r - 1, misread), 2 * r, misread)
      BY <2>1, <2>3, <2>4, <2>5
    <3> QED BY <3>1, <2>5, ParsingALine
  <2>7. Append(Run(a, k), r) = Run(a, k + 1) BY RunIsSeq DEF r
  <2> QED BY <2>2, <2>6, <2>7
<1>5. m \in S
  <2> HIDE DEF S
  <2> QED BY <1>3, <1>4, NaturalsAreReached
<1> QED BY <1>2, <1>5

\* The ring after the next run of records.
LEMMA AddingARun ==
  ASSUME NEW s \in SessionType, Ring(s), NEW a \in Nat, NEW m \in Nat,
         a + m <= MaxRecords, s.last <= a
  PROVE  LET z == AddAccessEvents(s, Run(a, m))
         IN  /\ Len(z.fed) = Len(s.fed) + m
             /\ \A j \in 1 .. Len(s.fed) : z.fed[j] = s.fed[j]
             /\ \A j \in 1 .. m : z.fed[Len(s.fed) + j] = a + j
             /\ z.last = IF m = 0 THEN s.last ELSE a + m
             /\ z.gaps = s.gaps + IF m = 0 THEN 0 ELSE NewGap(s, a + 1)
<1> SUFFICES ASSUME NEW R, R = Run(a, m)
             PROVE  LET z == AddAccessEvents(s, R)
                    IN  /\ Len(z.fed) = Len(s.fed) + m
                        /\ \A j \in 1 .. Len(s.fed) : z.fed[j] = s.fed[j]
                        /\ \A j \in 1 .. m : z.fed[Len(s.fed) + j] = a + j
                        /\ z.last = IF m = 0 THEN s.last ELSE a + m
                        /\ z.gaps = s.gaps + IF m = 0 THEN 0 ELSE NewGap(s, a + 1)
  OBVIOUS
<1> DEFINE Good(z, i) ==
             /\ z \in SessionType /\ Ring(z)
             /\ Len(z.fed) = Len(s.fed) + i
             /\ \A j \in 1 .. Len(s.fed) : z.fed[j] = s.fed[j]
             /\ \A j \in 1 .. i : z.fed[Len(s.fed) + j] = a + j
             /\ z.last = IF i = 0 THEN s.last ELSE a + i
             /\ z.gaps = s.gaps + IF i = 0 THEN 0 ELSE NewGap(s, a + 1)
<1>0. MaxRecords \in Nat BY SessionAssumption
<1>a. DOMAIN R = 1 .. m BY DEF Run
<1>1. \A i \in 1 .. m : R[i] = a + i
  BY DEF Run
<1>2. PICK f : /\ f[0] = s
               /\ \A i \in 1 .. m : f[i] = AddAccessEvent(f[i - 1], R[i])
               /\ AddAccessEvents(s, R) = f[m]
  BY <1>a, AddAccessEventsByOne
<1> DEFINE S == {i \in Nat : i <= m => Good(f[i], i)}
<1>3. 0 \in S
  <2>1. s.gaps \in Nat /\ Len(s.fed) \in Nat BY SessionFields
  <2> QED BY <1>2, <2>1
<1>4. \A i \in Nat : i \in S => i + 1 \in S
  <2> SUFFICES ASSUME NEW i \in Nat, i \in S, i + 1 <= m
               PROVE  Good(f[i + 1], i + 1)
    <3> HIDE DEF Good
    <3> QED OBVIOUS
  <2> DEFINE y == f[i]
             z == f[i + 1]
             r == a + i + 1
  <2>0. Good(y, i)
    <3> HIDE DEF Good
    <3> QED OBVIOUS
  <2>1. Good(y, i) /\ i + 1 \in 1 .. m /\ (i + 1) - 1 = i
    <3> HIDE DEF Good
    <3> QED BY <2>0
  <2> HIDE DEF S
  <2>2. R[i + 1] = r BY <1>1, <2>1
  <2>3. z = AddAccessEvent(y, r) BY <1>2, <2>1, <2>2
  <2>4. r \in RecordNo BY <1>0 DEF RecordNo
  <2> HIDE DEF y, z
  <2>5. z \in SessionType /\ Ring(z)
    <3> HIDE DEF r
    <3> QED BY <2>1, <2>3, <2>4, AddingOneKeepsTheRing
  <2>6. /\ z.fed = Append(y.fed, r) /\ z.last = Max({y.last, r})
        /\ z.gaps = y.gaps + NewGap(y, r)
    <3>1. y \in SessionType BY <2>1
    <3> HIDE DEF Good
    <3> QED BY <2>3, <3>1 DEF AddAccessEvent, SessionType
  <2>7. /\ y.fed \in Seq(RecordNo) /\ Len(y.fed) \in Nat /\ Len(s.fed) \in Nat
        /\ y.last \in Nat /\ y.gaps \in Nat /\ s.gaps \in Nat /\ s.last \in Nat
    <3>1. y \in SessionType BY <2>1
    <3>2. RecordNo \subseteq Nat BY <1>0 DEF RecordNo
    <3> QED BY <3>1, <3>2, SessionFields
  <2>8. y.last <= a + i /\ y.last < r BY <2>1, <2>7
  <2>9. z.last = r
    <3>1. Max({y.last, r}) = r
      <4>1. r \in Int /\ y.last \in Int BY <2>7
      <4> HIDE DEF r
      <4>2. Max({y.last, r}) = IF y.last >= r THEN y.last ELSE r BY <4>1, MaxOfTwo
      <4> QED BY <2>8, <4>1, <4>2
    <3> QED BY <2>6, <3>1
  <2>10. Len(z.fed) = Len(y.fed) + 1 /\ z.fed[Len(y.fed) + 1] = r
         /\ \A j \in 1 .. Len(y.fed) : z.fed[j] = y.fed[j]
    <3> HIDE DEF r
    <3> QED BY <2>4, <2>6, <2>7
  <2>11. Len(z.fed) = Len(s.fed) + (i + 1) BY <2>1, <2>7, <2>10
  <2>12. \A j \in 1 .. Len(s.fed) : z.fed[j] = s.fed[j]
    BY <2>1, <2>7, <2>10
  <2>13. ASSUME NEW j \in 1 .. (i + 1) PROVE z.fed[Len(s.fed) + j] = a + j
    <3>1. CASE j = i + 1
      <4>1. Len(y.fed) = Len(s.fed) + i BY <2>1
      <4>0. Len(s.fed) \in Nat /\ Len(y.fed) \in Nat BY <2>7
      <4>2. a + j = r BY <3>1
      <4>4. ASSUME NEW u \in Nat, NEW v \in Nat, v = u + i PROVE u + j = v + 1
        BY ONLY <3>1, <4>4, i \in Nat, j \in 1 .. (i + 1)
      <4>5. Len(s.fed) + j = Len(y.fed) + 1 BY <4>0, <4>1, <4>4
      <4>3. z.fed[Len(y.fed) + 1] = r BY <2>10
      <4> HIDE DEF r
      <4> QED BY <4>2, <4>3, <4>5
    <3>2. CASE j # i + 1
      <4>1. j \in 1 .. i /\ Len(s.fed) + j \in 1 .. Len(y.fed) BY <2>1, <2>7, <3>2
      <4> QED BY <2>1, <2>10, <4>1
    <3> QED BY <3>1, <3>2
  <2>14. z.gaps = s.gaps + NewGap(s, a + 1)
    <3>1. CASE i = 0 BY <2>1, <2>6, <2>7, <3>1 DEF NewGap
    <3>2. CASE i # 0
      <4>1. NewGap(y, r) = 0 BY <2>1, <2>7, <3>2 DEF NewGap
      <4>2. NewGap(s, a + 1) \in Nat BY <2>7 DEF NewGap
      <4> QED BY <2>1, <2>6, <2>7, <3>2, <4>1, <4>2
    <3> QED BY <3>1, <3>2
  <2>15. i + 1 # 0 /\ r = a + (i + 1) OBVIOUS
  <2>16. Good(z, i + 1)
    BY <2>5, <2>9, <2>11, <2>12, <2>13, <2>14, <2>15
  <2> QED BY <2>16 DEF z
<1>5. m \in S
  <2> HIDE DEF S
  <2> QED BY <1>3, <1>4, NaturalsAreReached
<1>6. Good(f[m], m) BY <1>5
<1> QED BY <1>2, <1>6

(***************************************************************************)
(* What a collection makes of a chunk.                                     *)
(***************************************************************************)
ChunkOK(c) ==
  /\ c.seg \in Nat /\ c.offset \in Nat /\ c.size \in Nat /\ c.data \in Seq(Cell)
  /\ \A i \in 1 .. Len(c.data) - 1 : c.data[i + 1] = c.data[i] + 1
  /\ c.data # <<>> /\ c.offset + Len(c.data) < c.size => Len(c.data) >= 2

LEMMA CutIsTyped ==
  ASSUME NEW h, h.carry \in Seq(Cell), NEW c, ChunkOK(c), c.data # <<>>
  PROVE  /\ Cut(h, c).whole \in Seq(Cell)
         /\ Cut(h, c).carry \in Seq(Cell) /\ Len(Cut(h, c).carry) < 2
<1> DEFINE raw == CarriedFor(h, c) \o c.data
           whole == c.offset + Len(c.data) >= c.size
           boundary == IF whole THEN Len(raw) ELSE Max(LineEnds(raw) \cup {0})
<1>1. c.data \in Seq(Cell) /\ c.offset \in Nat /\ c.size \in Nat /\ Len(c.data) \in Nat
  BY DEF ChunkOK
<1>2. CarriedFor(h, c) \in Seq(Cell)
  <2>1. <<>> \in Seq(Cell) OBVIOUS
  <2> QED BY <2>1 DEF CarriedFor
<1>3. /\ raw \in Seq(Cell) /\ Len(raw) \in Nat
      /\ Len(raw) = Len(CarriedFor(h, c)) + Len(c.data)
      /\ \A i \in 1 .. Len(c.data) : raw[Len(CarriedFor(h, c)) + i] = c.data[i]
      /\ Len(CarriedFor(h, c)) \in Nat
  BY <1>1, <1>2
<1>4. DOMAIN raw = 1 .. Len(raw) BY <1>3
<1>5. /\ Cut(h, c).whole = SubSeq(raw, 1, boundary)
      /\ Cut(h, c).carry = SubSeq(raw, boundary + 1, Len(raw))
  BY DEF Cut
<1>6. boundary \in 0 .. Len(raw) /\ Len(raw) - boundary < 2
  <2>1. CASE whole BY <1>3, <2>1
  <2>2. CASE ~whole
    <3> DEFINE L == LineEnds(raw) \cup {0}
               n == Len(raw)
               k == Len(c.data)
    <3>1. L \subseteq Nat /\ L # {} /\ \A x \in L : x <= n
      <4> HIDE DEF raw
      <4> QED BY <1>3, <1>4 DEF LineEnds
    <3>2. Max(L) \in L /\ \A x \in L : x <= Max(L)
      <4> HIDE DEF L, raw
      <4> QED BY <1>3, <3>1, MaxIsGreatest
    <3>3. k >= 2 /\ c.data[k] = c.data[k - 1] + 1 /\ k \in Nat
      BY <1>1, <2>2 DEF ChunkOK
    <3>4. raw[n] = c.data[k] /\ raw[n - 1] = c.data[k - 1] /\ n \in 1 .. n /\ n - 1 \in 1 .. n
      <4>1. k \in 1 .. k /\ k - 1 \in 1 .. k BY <3>3
      <4>2. n = Len(CarriedFor(h, c)) + k /\ n - 1 = Len(CarriedFor(h, c)) + (k - 1)
            /\ n \in Nat /\ n >= 2
        <5> HIDE DEF raw
        <5> QED BY <1>3, <3>3
      <4>3. /\ raw[Len(CarriedFor(h, c)) + k] = c.data[k]
            /\ raw[Len(CarriedFor(h, c)) + (k - 1)] = c.data[k - 1]
        <5> HIDE DEF raw
        <5> QED BY <1>3, <4>1
      <4>4. n \in 1 .. n /\ n - 1 \in 1 .. n BY <4>2
      <4> HIDE DEF raw, n, k
      <4> QED BY <4>2, <4>3, <4>4
    <3>5. c.data[k - 1] \in Nat
      <4>1. MaxRecords \in Nat BY SessionAssumption
      <4>2. Cell \subseteq Nat BY <4>1 DEF Cell
      <4>3. k - 1 \in 1 .. Len(c.data) BY <3>3
      <4>4. c.data[k - 1] \in Cell
        <5> HIDE DEF k
        <5> QED BY <1>1, <4>3
      <4> QED BY <4>2, <4>4
    <3>6. EndsLine(raw[n]) \/ EndsLine(raw[n - 1])
      <4> HIDE DEF raw, n, k
      <4> QED BY <3>3, <3>4, <3>5 DEF EndsLine
    <3>7. n \in L \/ n - 1 \in L
      <4> HIDE DEF raw, n, k
      <4> QED BY <1>4, <3>4, <3>6 DEF LineEnds, n
    <3>8. boundary = Max(L) BY <2>2
    <3>9. Max(L) \in Nat /\ Max(L) <= n /\ n - 1 <= Max(L)
      <4>1. n \in Nat BY <1>3
      <4> HIDE DEF L, n
      <4>2. Max(L) \in Nat /\ Max(L) <= n BY <3>1, <3>2
      <4>3. \A x \in L : x <= Max(L) BY <3>2
      <4> QED BY <3>7, <4>1, <4>2, <4>3
    <3>10. n \in Nat BY <1>3
    <3> HIDE DEF L, raw, boundary
    <3> QED BY <3>8, <3>9, <3>10
  <2> QED BY <2>1, <2>2
<1> HIDE DEF raw, boundary
<1>7. /\ SubSeq(raw, 1, boundary) \in Seq(Cell)
      /\ SubSeq(raw, boundary + 1, Len(raw)) \in Seq(Cell)
      /\ Len(SubSeq(raw, boundary + 1, Len(raw))) < 2
  BY <1>3, <1>6
<1> QED BY <1>5, <1>7

LEMMA SingletonSeq ==
  ASSUME NEW S, NEW q \in Seq(S), Len(q) = 1
  PROVE  q = <<q[1]>>
  OBVIOUS

LEMMA LastLineEnd ==
  ASSUME NEW a \in Nat, NEW m \in Nat, NEW odd \in {0, 1}
  PROVE  /\ \A i \in 1 .. (2 * m + odd) : (2 * a + i) % 2 = 0 => i <= 2 * m
         /\ (2 * a + 2 * m) % 2 = 0
  OBVIOUS

LEMMA Halves ==
  ASSUME NEW k \in Nat
  PROVE  /\ k \div 2 \in Nat /\ k % 2 \in {0, 1} /\ k = 2 * (k \div 2) + (k % 2)
OBVIOUS

\* The cells that follow record a.
RunOf(raw, a) == raw \in Seq(Cell) /\ \A i \in 1 .. Len(raw) : raw[i] = 2 * a + i

\* Cutting a run of cells that begins with a line.
LEMMA CutOfARun ==
  ASSUME NEW h, NEW c, NEW a \in Nat, RunOf(CarriedFor(h, c) \o c.data, a),
         c.offset + Len(c.data) >= c.size => Len(CarriedFor(h, c) \o c.data) % 2 = 0
  PROVE  LET n == Len(CarriedFor(h, c) \o c.data)
         IN  /\ Cut(h, c).whole = Cells(a + 1, a + n \div 2)
             /\ Cut(h, c).carry = IF n % 2 = 0 THEN <<>> ELSE <<2 * a + n>>
<1> DEFINE raw == CarriedFor(h, c) \o c.data
           m == Len(raw) \div 2
           odd == Len(raw) % 2
           whole == c.offset + Len(c.data) >= c.size
           boundary == IF whole THEN Len(raw) ELSE Max(LineEnds(raw) \cup {0})
           n == Len(raw)
<1>1. /\ Cut(h, c).whole = SubSeq(raw, 1, boundary)
      /\ Cut(h, c).carry = SubSeq(raw, boundary + 1, n)
  BY DEF Cut
<1>d. raw \in Seq(Cell) BY DEF RunOf
<1>a. \A i \in 1 .. n : raw[i] = 2 * a + i BY DEF RunOf
<1>b. whole => odd = 0 OBVIOUS
<1> HIDE DEF raw, whole
<1>c. n \in Nat /\ m \in Nat /\ odd \in {0, 1} /\ n = 2 * m + odd
  <2>1. n \in Nat BY <1>d
  <2> QED BY <2>1, Halves
<1> HIDE DEF m, odd
<1>2. n \in Nat /\ DOMAIN raw = 1 .. n /\ n = 2 * m + odd BY <1>c, <1>d
<1> USE <1>a, <1>b, <1>c, <1>d
<1>3. boundary = 2 * m
  <2>1. CASE whole BY <2>1, <1>2
  <2>2. CASE ~whole
    <3> DEFINE L == LineEnds(raw) \cup {0}
    <3>0. \A i : i \in LineEnds(raw) <=> i \in 1 .. n /\ (2 * a + i) % 2 = 0
      <4> HIDE DEF n
      <4> QED BY <1>2 DEF LineEnds, EndsLine, n
    <3>1. \A i \in L : i \in Nat /\ i <= 2 * m
      <4>1. n = 2 * m + odd /\ \A i \in 1 .. n : (2 * a + i) % 2 = 0 => i <= 2 * m
        BY <1>2, LastLineEnd
      <4>2. \A i \in 1 .. n : i \in Nat BY <1>2
      <4>3. 0 \in Nat /\ 0 <= 2 * m OBVIOUS
      <4> HIDE DEF n
      <4> QED BY <3>0, <4>1, <4>2, <4>3
    <3>2. 2 * m \in L
      <4>1. (2 * a + 2 * m) % 2 = 0 BY LastLineEnd
      <4>2. m = 0 \/ 2 * m \in 1 .. n BY <1>2
      <4>3. 2 * 0 = 0 OBVIOUS
      <4> HIDE DEF n
      <4> QED BY <3>0, <4>1, <4>2, <4>3
    <3> HIDE DEF L
    <3>3. Max(L) \in L /\ \A i \in L : i <= Max(L)
      <4>1. L \subseteq Nat /\ L # {} /\ 2 * m \in Nat BY <3>1, <3>2
      <4> QED BY <4>1, <3>1, MaxIsGreatest
    <3>4. Max(L) \in Nat /\ Max(L) <= 2 * m /\ 2 * m <= Max(L)
      <4>1. Max(L) \in Nat /\ Max(L) <= 2 * m BY <3>1, <3>3
      <4>2. 2 * m <= Max(L) BY <3>2, <3>3
      <4> QED BY <4>1, <4>2
    <3>5. Max(L) = 2 * m
      <4>1. \A x \in Nat, y \in Nat : x <= y /\ y <= x => x = y OBVIOUS
      <4>2. 2 * m \in Nat OBVIOUS
      <4> QED BY ONLY <3>4, <4>1, <4>2
    <3> QED BY <2>2, <3>5 DEF L
  <2> QED BY <2>1, <2>2
<1> HIDE DEF boundary
<1>4. SubSeq(raw, 1, boundary) = Cells(a + 1, a + m)
  <2>1. 2 * ((a + m) - (a + 1) + 1) = 2 * m /\ 2 * ((a + 1) - 1) = 2 * a OBVIOUS
  <2>2. Cells(a + 1, a + m) = [i \in 1 .. 2 * m |-> 2 * a + i]
    BY <2>1 DEF Cells
  <2>3. /\ SubSeq(raw, 1, 2 * m) = [i \in 1 .. 2 * m |-> raw[i]]
    <3>1. 2 * m \in Nat /\ 2 * m <= n BY <1>2
    <3> HIDE DEF n
    <3> QED BY <3>1, <1>2 DEF n
  <2>4. \A i \in 1 .. 2 * m : raw[i] = 2 * a + i BY <1>2
  <2> QED BY <1>3, <2>2, <2>3, <2>4
<1>5. SubSeq(raw, boundary + 1, n) = IF odd = 0 THEN <<>> ELSE <<2 * a + n>>
  <2>1. CASE odd = 0
    <3>1. boundary = n BY <1>2, <1>3, <2>1
    <3>2. SubSeq(raw, n + 1, n) = <<>>
      <4> HIDE DEF n
      <4> QED BY <1>2
    <3> QED BY <2>1, <3>1, <3>2
  <2>2. CASE odd = 1
    <3>1. boundary + 1 = n /\ n \in 1 .. n BY <1>2, <1>3, <2>2
    <3>2. raw[n] = 2 * a + n BY <3>1
    <3>3. SubSeq(raw, n, n) = <<raw[n]>>
      <4>1. SubSeq(raw, n, n) \in Seq(Cell) /\ Len(SubSeq(raw, n, n)) = 1
            /\ SubSeq(raw, n, n)[1] = raw[n]
        <5>1. n \in 1 .. Len(raw) + 1 /\ n \in (n - 1) .. Len(raw) BY <3>1
        <5>2. n - n + 1 = 1 /\ n + 1 - 1 = n /\ 1 \in 1 .. 1 BY <1>2
        <5> HIDE DEF n
        <5>3. n \in 1 .. n + 1 /\ n \in (n - 1) .. n BY <3>1
        <5>4. raw \in Seq(Cell) /\ Len(raw) = n BY <1>d DEF n
        <5> QED BY ONLY <5>2, <5>3, <5>4, SubSeqProperties
      <4> HIDE DEF n
      <4> QED BY <4>1, SingletonSeq
    <3>4. odd # 0 BY <2>2
    <3> HIDE DEF n
    <3> QED BY <3>4, <3>1, <3>2, <3>3
  <2> QED BY <2>1, <2>2
<1> QED BY <1>1, <1>4, <1>5 DEF m, odd, raw

(***************************************************************************)
(* The native session: the segments follow one another, and the cursor is  *)
(* in one of them or behind the last. Pos is its place, Frontier the first *)
(* record whose line no drain has read to its end.                         *)
(***************************************************************************)
SegmentType == [index : Nat, from : Nat, to : Nat, sealed : BOOLEAN]

NativeType ==
  [id : Nat, mode : {"sampled", "continuous"}, active : BOOLEAN,
   segments : Seq(SegmentType), next : Nat, drain : Nat, offset : Nat, unread : Nat]

Pos(n) == n.drain - n.next + Len(n.segments)
Frontier(n, records) ==
  IF Pos(n) = Len(n.segments) + 1 THEN records + 1
  ELSE n.segments[Pos(n)].from + n.offset \div 2

Consecutive(segments, next, records) ==
  /\ \A k \in 1 .. Len(segments) :
       /\ segments[k].index = next - Len(segments) + k
       /\ 1 <= segments[k].from /\ segments[k].from <= segments[k].to + 1
       /\ segments[k].to <= records
  /\ \A j, k \in 1 .. Len(segments) :
       j < k => /\ segments[j].sealed /\ segments[j].to < segments[k].from
                /\ k = j + 1 => segments[k].from = segments[j].to + 1
  /\ Len(segments) > 0 => segments[Len(segments)].to = records

CursorOK(n) ==
  /\ Pos(n) \in 1 .. Len(n.segments) + 1
  /\ n.offset > 0 => /\ Pos(n) <= Len(n.segments) /\ n.segments[Pos(n)].sealed
                     /\ n.offset < 2 * (n.segments[Pos(n)].to - n.segments[Pos(n)].from + 1)
  /\ Pos(n) = Len(n.segments) + 1 /\ Len(n.segments) > 0
       => n.segments[Len(n.segments)].sealed

Shape(n, records) ==
  /\ n \in NativeType
  /\ Consecutive(n.segments, n.next, records)
  /\ CursorOK(n)
  /\ n.active => Len(n.segments) > 0

\* The cursor stayed where it was, or moved on over what is now lost.
Advances(n, z, lost, records) ==
  /\ z.id = n.id /\ n.unread <= z.unread
  /\ Frontier(n, records) <= Frontier(z, records)
  /\ \A r \in Nat : Frontier(n, records) <= r /\ r < Frontier(z, records) => r \in lost
  /\ lost # {} => z.unread > 0
  /\ \/ /\ z.drain = n.drain /\ z.offset = n.offset
        /\ n.offset > 0 => z.segments[Pos(z)].from = n.segments[Pos(n)].from
     \/ z.drain > n.drain /\ z.offset = 0

LEMMA NativeFields ==
  ASSUME NEW n \in NativeType
  PROVE  /\ n.id \in Nat /\ n.mode \in {"sampled", "continuous"} /\ n.active \in BOOLEAN
         /\ n.segments \in Seq(SegmentType) /\ Len(n.segments) \in Nat
         /\ DOMAIN n.segments = 1 .. Len(n.segments)
         /\ n.next \in Nat /\ n.drain \in Nat /\ n.offset \in Nat /\ n.unread \in Nat
         /\ Pos(n) \in Int
         /\ \A k \in 1 .. Len(n.segments) :
              /\ n.segments[k] \in SegmentType
              /\ n.segments[k].index \in Nat /\ n.segments[k].from \in Nat
              /\ n.segments[k].to \in Nat /\ n.segments[k].sealed \in BOOLEAN
<1>1. /\ n.id \in Nat /\ n.mode \in {"sampled", "continuous"} /\ n.active \in BOOLEAN
      /\ n.segments \in Seq(SegmentType)
      /\ n.next \in Nat /\ n.drain \in Nat /\ n.offset \in Nat /\ n.unread \in Nat
  BY DEF NativeType
<1>2. Len(n.segments) \in Nat /\ DOMAIN n.segments = 1 .. Len(n.segments)
  BY <1>1
<1>3. \A k \in 1 .. Len(n.segments) : n.segments[k] \in SegmentType
  BY <1>1
<1>4. \A x \in SegmentType : /\ x.index \in Nat /\ x.from \in Nat
                             /\ x.to \in Nat /\ x.sealed \in BOOLEAN
  BY DEF SegmentType
<1>5. Pos(n) \in Int BY <1>1, <1>2 DEF Pos
<1> QED BY <1>1, <1>2, <1>3, <1>4, <1>5

\* Sealing changes one flag.
LEMMA SealingKeepsTheShape ==
  ASSUME NEW records \in Nat, NEW n, Shape(n, records)
  PROVE  LET z == SealSegment(n)
         IN  /\ Shape(z, records) /\ Advances(n, z, {}, records)
             /\ Len(z.segments) = Len(n.segments) /\ z.next = n.next
             /\ z.mode = n.mode /\ z.active = n.active
             /\ z.drain = n.drain /\ z.offset = n.offset /\ z.unread = n.unread
             /\ \A k \in 1 .. Len(n.segments) :
                  /\ z.segments[k].sealed /\ z.segments[k].index = n.segments[k].index
                  /\ z.segments[k].from = n.segments[k].from
                  /\ z.segments[k].to = n.segments[k].to
<1> DEFINE z == SealSegment(n)
           len == Len(n.segments)
           sealed == [n.segments EXCEPT ![len].sealed = TRUE]
<1>0. n \in NativeType /\ Consecutive(n.segments, n.next, records) /\ CursorOK(n)
  BY DEF Shape
<1>1. /\ len \in Nat /\ n.segments \in Seq(SegmentType)
      /\ DOMAIN n.segments = 1 .. len
      /\ \A k \in 1 .. len : n.segments[k] \in SegmentType
  BY <1>0, NativeFields
<1>2. CASE n.segments = <<>>
  <2>1. z = n /\ len = 0 BY <1>2 DEF SealSegment
  <2>2. Frontier(n, records) \in Int
    <3>1. Pos(n) = 1 BY <1>0, <1>2 DEF CursorOK
    <3> QED BY <2>1, <3>1 DEF Frontier
  <2>3. Advances(n, n, {}, records)
    <3>1. n.unread \in Nat BY <1>0, NativeFields
    <3> QED BY <2>2, <3>1 DEF Advances
  <2> QED BY <2>1, <2>3
<1>3. CASE n.segments # <<>>
  <2>1. z = [n EXCEPT !.segments = sealed]
    BY <1>3 DEF SealSegment
  <2>2. len \in 1 .. len BY <1>1, <1>3
  <2>3. /\ DOMAIN sealed = 1 .. len
        /\ \A k \in 1 .. len : sealed[k] = IF k = len THEN [n.segments[k] EXCEPT !.sealed = TRUE]
                                           ELSE n.segments[k]
    BY <1>1
  <2>4. \A x \in SegmentType : LET y == [x EXCEPT !.sealed = TRUE] IN
           y \in SegmentType /\ y.index = x.index /\ y.from = x.from /\ y.to = x.to /\ y.sealed
    BY DEF SegmentType
  <2>5. sealed \in Seq(SegmentType) /\ Len(sealed) = len
    <3>1. \A k \in 1 .. len : sealed[k] \in SegmentType
      <4> HIDE DEF sealed, len
      <4> QED BY <1>1, <2>3, <2>4
    <3>2. sealed = [k \in 1 .. len |-> sealed[k]]
      BY <1>1, <2>3
    <3> HIDE DEF sealed, len
    <3> QED BY <1>1, <2>3, <3>1, <3>2
  <2>6. \A k \in 1 .. len : /\ sealed[k].index = n.segments[k].index
                            /\ sealed[k].from = n.segments[k].from
                            /\ sealed[k].to = n.segments[k].to
                            /\ n.segments[k].sealed => sealed[k].sealed
                            /\ k = len => sealed[k].sealed
    <3>1. \A k \in 1 .. len : n.segments[k].sealed \in BOOLEAN BY <1>0, NativeFields
    <3> HIDE DEF sealed, len
    <3> QED BY <1>1, <2>3, <2>4, <3>1, ZenonT(60)
  <2>7. /\ z \in NativeType /\ z.segments = sealed
        /\ z.id = n.id /\ z.mode = n.mode /\ z.active = n.active /\ z.next = n.next
        /\ z.drain = n.drain /\ z.offset = n.offset /\ z.unread = n.unread
    <3> HIDE DEF sealed, z
    <3> QED BY <1>0, <2>1, <2>5 DEF NativeType
  <2>8. Pos(z) = Pos(n) /\ Pos(n) \in 1 .. len + 1
    <3> HIDE DEF z, sealed
    <3> QED BY <1>0, <2>5, <2>7 DEF Pos, CursorOK
  <2>9. /\ z.offset > 0 => /\ n.segments[Pos(n)].sealed /\ Pos(n) \in 1 .. len
                           /\ n.offset < 2 * (n.segments[Pos(n)].to - n.segments[Pos(n)].from + 1)
    <3>1. Pos(n) \in Int /\ n.offset \in Nat BY <1>0, NativeFields
    <3> HIDE DEF z, sealed
    <3> QED BY <1>0, <1>1, <2>7, <2>8, <3>1 DEF CursorOK
  <2>10. Consecutive(sealed, n.next, records)
    <3>1. /\ \A k \in 1 .. len :
               /\ n.segments[k].index = n.next - len + k
               /\ 1 <= n.segments[k].from /\ n.segments[k].from <= n.segments[k].to + 1
               /\ n.segments[k].to <= records
          /\ \A j, k \in 1 .. len :
               j < k => /\ n.segments[j].sealed /\ n.segments[j].to < n.segments[k].from
                        /\ k = j + 1 => n.segments[k].from = n.segments[j].to + 1
          /\ len > 0 => n.segments[len].to = records
      BY <1>0 DEF Consecutive
    <3> HIDE DEF sealed, z, len
    <3>2. \A k \in 1 .. len :
               /\ sealed[k].index = n.next - len + k
               /\ 1 <= sealed[k].from /\ sealed[k].from <= sealed[k].to + 1
               /\ sealed[k].to <= records
      BY <2>6, <3>1
    <3>3. \A j, k \in 1 .. len :
               j < k => /\ sealed[j].sealed /\ sealed[j].to < sealed[k].from
                        /\ k = j + 1 => sealed[k].from = sealed[j].to + 1
      <4> SUFFICES ASSUME NEW j \in 1 .. len, NEW k \in 1 .. len, j < k
                   PROVE  /\ sealed[j].sealed /\ sealed[j].to < sealed[k].from
                          /\ k = j + 1 => sealed[k].from = sealed[j].to + 1
        OBVIOUS
      <4>1. /\ n.segments[j].sealed /\ n.segments[j].to < n.segments[k].from
            /\ k = j + 1 => n.segments[k].from = n.segments[j].to + 1
        BY <3>1
      <4> QED BY <2>6, <4>1
    <3>4. len > 0 => sealed[len].to = records
      BY <2>2, <2>6, <3>1
    <3> QED BY <2>5, <3>2, <3>3, <3>4 DEF Consecutive
  <2>11. CursorOK(z)
    <3> HIDE DEF z, sealed, len
    <3>1. z.offset > 0 => /\ sealed[Pos(n)].sealed /\ Pos(n) <= len
                          /\ z.offset < 2 * (sealed[Pos(n)].to - sealed[Pos(n)].from + 1)
      <4>1. CASE z.offset > 0
        <5>1. Pos(n) \in 1 .. len /\ n.segments[Pos(n)].sealed BY <2>9, <4>1
        <5>2. /\ sealed[Pos(n)].sealed
              /\ sealed[Pos(n)].from = n.segments[Pos(n)].from
              /\ sealed[Pos(n)].to = n.segments[Pos(n)].to
          BY <2>6, <5>1
        <5> QED BY <1>1, <2>7, <2>9, <4>1, <5>1, <5>2
      <4> QED BY <4>1
    <3>2. sealed[len].sealed BY <2>2, <2>6
    <3> QED BY <2>5, <2>7, <2>8, <3>1, <3>2 DEF CursorOK
  <2>12. Shape(z, records)
    <3> HIDE DEF z, sealed
    <3> QED BY <2>5, <2>7, <2>10, <2>11, <1>3, <2>2 DEF Shape
  <2>13. Frontier(z, records) = Frontier(n, records)
    <3> HIDE DEF z, sealed, len
    <3> QED BY <2>5, <2>6, <2>7, <2>8, <1>1 DEF Frontier, len
  <2>14. Frontier(n, records) \in Int
    <3>1. \A k \in 1 .. len : n.segments[k].from \in Nat BY <1>0, NativeFields
    <3>2. n.offset \in Nat BY <1>0, NativeFields
    <3> HIDE DEF len
    <3> QED BY <1>1, <2>8, <3>1, <3>2, SMTT(40) DEF Frontier, len
  <2>15. Advances(n, z, {}, records)
    <3>1. n.unread \in Nat /\ n.offset \in Nat BY <1>0, NativeFields
    <3>2. n.offset > 0 => z.segments[Pos(z)].from = n.segments[Pos(n)].from
      <4> HIDE DEF z, sealed, len
      <4> QED BY <2>6, <2>7, <2>8, <2>9
    <3> HIDE DEF z, sealed, len
    <3> QED BY <2>7, <2>13, <2>14, <3>1, <3>2 DEF Advances
  <2>16. \A k \in 1 .. len : z.segments[k].sealed
    <3>1. \A k \in 1 .. len : k # len => n.segments[k].sealed
      <4>1. \A k \in 1 .. len : k # len => k < len BY <1>1
      <4> QED BY <1>0, <2>2, <4>1 DEF Consecutive
    <3> HIDE DEF z, sealed, len
    <3> QED BY <2>6, <2>7, <3>1
  <2> HIDE DEF sealed
  <2> QED BY <2>5, <2>6, <2>7, <2>12, <2>15, <2>16
<1> QED BY <1>2, <1>3

LEMMA OpeningKeepsTheShape ==
  ASSUME NEW records \in Nat, NEW n, Shape(n, records)
  PROVE  LET z == OpenSegment(n, records)
         IN  /\ Shape(z, records) /\ Advances(n, z, {}, records)
             /\ Len(z.segments) = Len(n.segments) + 1
             /\ z.mode = n.mode /\ z.active = n.active /\ z.unread = n.unread
             /\ z.drain = n.drain /\ z.offset = n.offset
             /\ z.segments[1].from = IF Len(n.segments) = 0 THEN records + 1
                                     ELSE n.segments[1].from
<1> DEFINE y == SealSegment(n)
           z == OpenSegment(n, records)
           len == Len(n.segments)
           new == [index |-> n.next + 1, from |-> records + 1, to |-> records,
                   sealed |-> FALSE]
<1>0. n \in NativeType /\ Shape(n, records) /\ CursorOK(n)
  BY DEF Shape
<1>1. /\ len \in Nat /\ n.next \in Nat /\ n.drain \in Nat /\ n.offset \in Nat
      /\ n.unread \in Nat /\ n.id \in Nat /\ n.active \in BOOLEAN
      /\ n.mode \in {"sampled", "continuous"}
  BY <1>0, NativeFields
<1>2. /\ Shape(y, records) /\ Advances(n, y, {}, records) /\ Len(y.segments) = len
      /\ y.next = n.next /\ y.mode = n.mode /\ y.active = n.active
      /\ y.drain = n.drain /\ y.offset = n.offset /\ y.unread = n.unread
      /\ \A k \in 1 .. len : y.segments[k].sealed
                             /\ y.segments[k].from = n.segments[k].from
  BY <1>0, SealingKeepsTheShape
<1>3. y.id = n.id BY <1>2 DEF Advances
<1>4. /\ y \in NativeType /\ y.segments \in Seq(SegmentType)
      /\ Consecutive(y.segments, n.next, records) /\ CursorOK(y)
  <2>1. y \in NativeType BY <1>2 DEF Shape
  <2>2. y.segments \in Seq(SegmentType) BY <2>1, NativeFields
  <2>3. y.next = n.next BY <1>2
  <2> HIDE DEF y
  <2> QED BY <1>2, <2>1, <2>2, <2>3 DEF Shape
<1>5. new \in SegmentType BY <1>1 DEF SegmentType
<1>6. z = [y EXCEPT !.next = n.next + 1, !.segments = Append(y.segments, new)]
  BY <1>2 DEF OpenSegment
<1> HIDE DEF y, z, len
<1> DEFINE q == Append(y.segments, new)
<1>7. /\ q \in Seq(SegmentType) /\ Len(q) = len + 1
      /\ \A k \in 1 .. len : q[k] = y.segments[k]
      /\ q[len + 1] = new
  <2> HIDE DEF new
  <2> QED BY <1>1, <1>2, <1>4, <1>5
<1> HIDE DEF q
<1>8. /\ q \in Seq(SegmentType) /\ Len(q) = len + 1
      /\ \A k \in 1 .. len : q[k] = y.segments[k]
      /\ q[len + 1].index = n.next + 1 /\ q[len + 1].from = records + 1
      /\ q[len + 1].to = records
  BY <1>7
<1>9. /\ z \in NativeType /\ z.segments = q /\ z.next = n.next + 1
      /\ z.id = n.id /\ z.mode = n.mode /\ z.active = n.active
      /\ z.drain = n.drain /\ z.offset = n.offset /\ z.unread = n.unread
  <2>1. n.next + 1 \in Nat BY <1>1
  <2>2. z = [y EXCEPT !.next = n.next + 1, !.segments = q] BY <1>6 DEF q
  <2> QED BY <1>2, <1>3, <1>4, <1>8, <2>1, <2>2 DEF NativeType
<1>10. /\ \A k \in 1 .. len :
            /\ y.segments[k].index = n.next - len + k
            /\ 1 <= y.segments[k].from /\ y.segments[k].from <= y.segments[k].to + 1
            /\ y.segments[k].to <= records
            /\ y.segments[k].from \in Nat /\ y.segments[k].to \in Nat
       /\ \A j, k \in 1 .. len :
            j < k => /\ y.segments[j].sealed /\ y.segments[j].to < y.segments[k].from
                     /\ k = j + 1 => y.segments[k].from = y.segments[j].to + 1
       /\ len > 0 => y.segments[len].to = records
  <2>1. \A k \in 1 .. len : y.segments[k].from \in Nat /\ y.segments[k].to \in Nat
    BY <1>2, <1>4, NativeFields
  <2> QED BY <1>2, <1>4, <2>1 DEF Consecutive
<1>11. Consecutive(q, n.next + 1, records)
  <2>1. ASSUME NEW k \in 1 .. len + 1
        PROVE  /\ q[k].index = (n.next + 1) - (len + 1) + k
               /\ 1 <= q[k].from /\ q[k].from <= q[k].to + 1 /\ q[k].to <= records
    <3>1. CASE k = len + 1 BY <1>1, <1>8, <3>1
    <3>2. CASE k # len + 1
      <4>1. k \in 1 .. len BY <1>1, <3>2
      <4>2. q[k] = y.segments[k] BY <1>8, <4>1
      <4>3. /\ y.segments[k].index = n.next - len + k
            /\ 1 <= y.segments[k].from /\ y.segments[k].from <= y.segments[k].to + 1
            /\ y.segments[k].to <= records
        BY <1>10, <4>1
      <4>4. n.next - len + k = (n.next + 1) - (len + 1) + k BY <1>1
      <4> QED BY <4>2, <4>3, <4>4
    <3> QED BY <3>1, <3>2
  <2>2. ASSUME NEW j \in 1 .. len + 1, NEW k \in 1 .. len + 1, j < k
        PROVE  /\ q[j].sealed /\ q[j].to < q[k].from
               /\ k = j + 1 => q[k].from = q[j].to + 1
    <3>0. j \in 1 .. len BY <1>1, <2>2
    <3>1. CASE k = len + 1
      <4>1. q[j] = y.segments[j] /\ y.segments[j].sealed /\ y.segments[j].to <= records
            /\ y.segments[j].to \in Nat
        BY <1>2, <1>8, <1>10, <3>0
      <4>2. k = j + 1 => y.segments[j].to = records
        <5>1. k = j + 1 => j = len BY <1>1, <3>0, <3>1
        <5>2. len > 0 BY <1>1, <3>0
        <5> QED BY <1>10, <5>1, <5>2
      <4> QED BY <1>8, <3>1, <4>1, <4>2
    <3>2. CASE k # len + 1
      <4>1. k \in 1 .. len BY <1>1, <3>2
      <4> QED BY <1>8, <1>10, <2>2, <3>0, <4>1
    <3> QED BY <3>1, <3>2
  <2>3. q[len + 1].to = records BY <1>8
  <2> QED BY <1>8, <2>1, <2>2, <2>3 DEF Consecutive
<1>12. /\ Pos(z) = Pos(n) /\ Pos(y) = Pos(n) /\ Pos(n) \in 1 .. len + 1
  <2>1. Pos(n) \in 1 .. len + 1 BY <1>0 DEF CursorOK, len
  <2>2. Pos(n) = n.drain - n.next + len BY DEF Pos, len
  <2>3. Pos(y) = n.drain - n.next + len BY <1>2 DEF Pos
  <2>4. Pos(z) = n.drain - (n.next + 1) + (len + 1) BY <1>8, <1>9 DEF Pos
  <2> QED BY <1>1, <2>1, <2>2, <2>3, <2>4
<1>13. z.offset > 0 => /\ Pos(n) \in 1 .. len /\ y.segments[Pos(n)].sealed
                       /\ n.offset < 2 * (y.segments[Pos(n)].to - y.segments[Pos(n)].from + 1)
  BY <1>1, <1>2, <1>4, <1>9, <1>12 DEF CursorOK
<1>14. CursorOK(z)
  <2>1. Pos(z) \in 1 .. Len(z.segments) + 1 BY <1>1, <1>8, <1>9, <1>12
  <2>2. CASE z.offset > 0
    <3>1. z.segments[Pos(z)] = y.segments[Pos(n)] /\ Pos(z) <= Len(z.segments)
          /\ Pos(z) # Len(z.segments) + 1
      BY <1>1, <1>8, <1>9, <1>12, <1>13, <2>2
    <3>2. CursorOK(z) <=> /\ Pos(z) <= Len(z.segments) /\ y.segments[Pos(n)].sealed
                          /\ n.offset < 2 * (y.segments[Pos(n)].to - y.segments[Pos(n)].from + 1)
      BY <1>9, <2>1, <2>2, <3>1 DEF CursorOK
    <3> QED BY <1>13, <2>2, <3>1, <3>2
  <2>3. Pos(z) # Len(z.segments) + 1 BY <1>1, <1>8, <1>9, <1>12
  <2> QED BY <2>1, <2>2, <2>3 DEF CursorOK
<1>15. Shape(z, records)
  <2>1. Len(z.segments) > 0 BY <1>1, <1>8, <1>9
  <2> QED BY <1>9, <1>11, <1>14, <2>1 DEF Shape
<1>16. Frontier(z, records) = Frontier(n, records) /\ Frontier(n, records) \in Int
  <2>1. CASE Pos(n) = len + 1
    <3>1. n.offset = 0 BY <1>1, <1>9, <1>13, <2>1
    <3>2. n.offset \div 2 = 0 BY <3>1
    <3>3. Frontier(n, records) = records + 1 BY <2>1 DEF Frontier, len
    <3>4. Frontier(z, records) = z.segments[len + 1].from + 0
      BY <1>1, <1>8, <1>9, <1>12, <2>1, <3>2 DEF Frontier
    <3> QED BY <1>8, <1>9, <3>3, <3>4
  <2>2. CASE Pos(n) # len + 1
    <3>1. Pos(n) \in 1 .. len BY <1>1, <1>12, <2>2
    <3>2. z.segments[Pos(n)].from = n.segments[Pos(n)].from
          /\ n.segments[Pos(n)].from \in Nat
      BY <1>2, <1>8, <1>9, <1>10, <3>1
    <3>3. Frontier(n, records) = n.segments[Pos(n)].from + n.offset \div 2
      BY <2>2 DEF Frontier, len
    <3>4. Frontier(z, records) = z.segments[Pos(n)].from + n.offset \div 2
      BY <1>1, <1>8, <1>9, <1>12, <3>1 DEF Frontier
    <3>5. n.offset \div 2 \in Int BY <1>1
    <3> QED BY <3>2, <3>3, <3>4, <3>5
  <2> QED BY <2>1, <2>2
<1>17. n.offset > 0 => z.segments[Pos(z)].from = n.segments[Pos(n)].from
  BY <1>2, <1>8, <1>9, <1>12, <1>13
<1>18. Advances(n, z, {}, records)
  <2>1. n.unread <= z.unread BY <1>1, <1>9
  <2>2. \A r \in Nat : ~(Frontier(n, records) <= r /\ r < Frontier(z, records))
    BY <1>16
  <2> QED BY <1>9, <1>16, <1>17, <2>1, <2>2 DEF Advances
<1>19. z.segments[1].from = IF len = 0 THEN records + 1 ELSE n.segments[1].from
  <2>1. CASE len = 0 BY <1>8, <1>9, <2>1
  <2>2. CASE len # 0
    <3>1. 1 \in 1 .. len BY <1>1, <2>2
    <3> QED BY <1>2, <1>8, <1>9, <2>2, <3>1
  <2> QED BY <2>1, <2>2
<1> QED BY <1>8, <1>9, <1>15, <1>18, <1>19 DEF z, len

(***************************************************************************)
(* Eviction                                                                *)
(***************************************************************************)
LEMMA VictimsAreAPrefix ==
  ASSUME NEW records \in Nat, NEW n, Shape(n, records)
  PROVE  /\ Victims(n) \subseteq 1 .. (Len(n.segments) - 1)
         /\ \A k \in Victims(n) : \A j \in 1 .. k : j \in Victims(n)
         /\ IsFiniteSet(Victims(n))
<1> DEFINE len == Len(n.segments)
<1>0. MaxSegments \in Nat \ {0} BY SessionAssumption
<1>1. /\ len \in Nat /\ DOMAIN n.segments = 1 .. len
      /\ \A j, k \in 1 .. len : j < k => n.segments[j].sealed
  BY NativeFields DEF Shape, Consecutive
<1> HIDE DEF len
<1>2. ASSUME NEW k \in 1 .. len
      PROVE  /\ SealedFrom(n, k) \subseteq k .. len /\ IsFiniteSet(SealedFrom(n, k))
             /\ Cardinality(SealedFrom(n, k)) \in Nat
             /\ Cardinality(SealedFrom(n, k)) <= len - k + 1
  <2>1. SealedFrom(n, k) \subseteq k .. len BY DEF SealedFrom, len
  <2>2. IsFiniteSet(k .. len) /\ Cardinality(k .. len) = len - k + 1
    <3>1. k \in Int /\ len \in Int /\ ~(k > len) BY <1>1
    <3> QED BY <3>1, FS_Interval
  <2> QED BY <2>1, <2>2, FS_Subset, FS_CardinalityType, ZenonT(60)
<1>3. Victims(n) = {k \in 1 .. len : /\ n.segments[k].sealed
                                     /\ Cardinality(SealedFrom(n, k)) > MaxSegments}
  BY <1>1 DEF Victims
<1>4. Victims(n) \subseteq 1 .. (len - 1)
  <2> SUFFICES ASSUME NEW k \in Victims(n), k = len PROVE FALSE
    BY <1>1, <1>3
  <2>1. k \in 1 .. len /\ Cardinality(SealedFrom(n, k)) > MaxSegments BY <1>3
  <2>2. Cardinality(SealedFrom(n, k)) <= 1 /\ Cardinality(SealedFrom(n, k)) \in Nat
    BY <1>1, <1>2, <2>1
  <2> QED BY <1>0, <2>1, <2>2
<1>5. ASSUME NEW k \in Victims(n), NEW j \in 1 .. k PROVE j \in Victims(n)
  <2>1. k \in 1 .. (len - 1) /\ j \in 1 .. len /\ k \in 1 .. len BY <1>1, <1>4
  <2>2. n.segments[j].sealed
    <3>1. len \in 1 .. len /\ j < len BY <1>1, <2>1
    <3> QED BY <1>1, <2>1, <3>1
  <2>3. SealedFrom(n, k) \subseteq SealedFrom(n, j)
    BY <2>1 DEF SealedFrom
  <2>4. Cardinality(SealedFrom(n, k)) <= Cardinality(SealedFrom(n, j))
    BY <1>2, <2>1, <2>3, FS_Subset
  <2>5. Cardinality(SealedFrom(n, k)) > MaxSegments BY <1>3
  <2>6. Cardinality(SealedFrom(n, j)) > MaxSegments
    <3>1. /\ Cardinality(SealedFrom(n, k)) \in Nat /\ Cardinality(SealedFrom(n, j)) \in Nat
      BY <1>2, <2>1
    <3> QED BY <1>0, <2>4, <2>5, <3>1
  <2> QED BY <1>3, <2>1, <2>2, <2>6
<1>6. IsFiniteSet(Victims(n))
  <2>1. IsFiniteSet(1 .. len) BY <1>1, FS_Interval
  <2> QED BY <1>3, <2>1, FS_Subset
<1> QED BY <1>4, <1>5, <1>6 DEF len

LEMMA EvictionKeepsTheShape ==
  ASSUME NEW records \in Nat, NEW n, Shape(n, records)
  PROVE  LET z == Evict(n)
         IN  /\ Shape(z, records) /\ Advances(n, z, Unreached(n), records)
             /\ z.mode = n.mode /\ z.active = n.active
             /\ Len(n.segments) > 0 => Len(z.segments) > 0
             /\ Len(z.segments) > 0 => z.segments[1].from >= n.segments[1].from
             /\ Unreached(n) \subseteq n.segments[1].from .. records
             /\ Unreached(n) # {} => Len(n.segments) > 0
<1> DEFINE z == Evict(n)
           len == Len(n.segments)
           V == Victims(n)
           seg == n.segments
           p == Pos(n)
<1>0. n \in NativeType /\ CursorOK(n) /\ Consecutive(n.segments, n.next, records)
      /\ (n.active => len > 0)
  BY DEF Shape
<1>1. /\ len \in Nat /\ n.next \in Nat /\ n.drain \in Nat /\ n.offset \in Nat
      /\ n.unread \in Nat /\ n.id \in Nat /\ p \in Int
      /\ seg \in Seq(SegmentType) /\ DOMAIN seg = 1 .. len
      /\ p = n.drain - n.next + len /\ p \in 1 .. len + 1
  BY <1>0, NativeFields DEF Pos, CursorOK
<1>2. \A k \in 1 .. len :
         /\ seg[k] \in SegmentType /\ seg[k].from \in Nat /\ seg[k].to \in Nat
         /\ seg[k].index = n.next - len + k
         /\ 1 <= seg[k].from /\ seg[k].from <= seg[k].to + 1 /\ seg[k].to <= records
  BY <1>0, NativeFields DEF Consecutive
<1>3. \A j, k \in 1 .. len :
         j < k => /\ seg[j].sealed /\ seg[j].to < seg[k].from
                  /\ k = j + 1 => seg[k].from = seg[j].to + 1
  BY <1>0 DEF Consecutive
<1>4. len > 0 => seg[len].to = records
  BY <1>0 DEF Consecutive
<1>5. n.offset > 0 => /\ p \in 1 .. len /\ seg[p].sealed
                      /\ n.offset < 2 * (seg[p].to - seg[p].from + 1)
  BY <1>0, <1>1 DEF CursorOK
<1>6. /\ V \subseteq 1 .. (len - 1) /\ \A k \in V : \A j \in 1 .. k : j \in V
      /\ IsFiniteSet(V)
  BY VictimsAreAPrefix
<1>7. Frontier(n, records) = IF p = len + 1 THEN records + 1
                          ELSE seg[p].from + n.offset \div 2
  BY DEF Frontier
<1>8. Frontier(n, records) \in Int
  <2>1. n.offset \div 2 \in Int BY <1>1
  <2>2. p # len + 1 => p \in 1 .. len BY <1>1
  <2> QED BY <1>2, <1>7, <2>1, <2>2
<1>9. Unreached(n) = UNION {{r \in seg[k].from .. seg[k].to :
            \/ seg[k].index > n.drain
            \/ /\ seg[k].index = n.drain
               /\ 2 * (r - seg[k].from + 1) > n.offset} : k \in V}
  BY DEF Unreached
<1> HIDE DEF V, len, seg, p
<1>10. \A k \in 1 .. len : seg[1].from <= seg[k].from
  <2> SUFFICES ASSUME NEW k \in 1 .. len PROVE seg[1].from <= seg[k].from
    OBVIOUS
  <2>1. CASE k = 1 BY <1>2, <2>1
  <2>2. CASE k # 1
    <3>1. 1 \in 1 .. len /\ 1 < k BY <1>1, <2>2
    <3>2. seg[1].to < seg[k].from /\ seg[1].from <= seg[1].to + 1 BY <1>2, <1>3, <3>1
    <3> QED BY <1>2, <3>1, <3>2
  <2> QED BY <2>1, <2>2
<1>11. Unreached(n) \subseteq seg[1].from .. records
  <2> SUFFICES ASSUME NEW r \in Unreached(n) PROVE r \in seg[1].from .. records
    OBVIOUS
  <2>1. PICK k \in V : r \in seg[k].from .. seg[k].to BY <1>9
  <2>2. k \in 1 .. len /\ 1 \in 1 .. len BY <1>1, <1>6
  <2> QED BY <1>2, <1>10, <2>1, <2>2
<1>12. Unreached(n) # {} => len > 0
  <2>1. Unreached(n) # {} => V # {} BY <1>9
  <2>2. ASSUME NEW k \in V PROVE len > 0
    <3>1. k \in 1 .. (len - 1) BY <1>6
    <3> QED BY ONLY <1>1, <3>1
  <2> QED BY <2>1, <2>2
<1>13. CASE V = {}
  <2>1. z = n BY <1>13 DEF Evict, V
  <2>2. Advances(n, n, Unreached(n), records)
    <3>1. Unreached(n) = {} BY <1>9, <1>13
    <3>2. \A r \in Nat : ~(Frontier(n, records) <= r /\ r < Frontier(n, records)) BY <1>8
    <3> QED BY <1>1, <1>8, <3>1, <3>2 DEF Advances
  <2>3. len > 0 => seg[1].from >= seg[1].from
    <3>1. len > 0 => 1 \in 1 .. len BY <1>1
    <3> QED BY <1>2, <3>1
  <2> QED BY <2>1, <2>2, <2>3, <1>11, <1>12 DEF len, seg
<1>14. CASE V # {}
  <2> DEFINE m == Max(V)
             newest == seg[m].index
             q == SubSeq(seg, m + 1, len)
  <2>1. m \in V /\ \A k \in V : k <= m
    <3>1. V \subseteq Nat /\ \A k \in V : k <= len BY <1>1, <1>6
    <3> QED BY <1>1, <1>14, <3>1, MaxIsGreatest
  <2> HIDE DEF m
  <2>2. m \in 1 .. (len - 1) /\ m \in 1 .. len /\ m \in Nat /\ len - m \in Nat \ {0}
        /\ m + 1 \in 1 .. len
    BY <1>1, <1>6, <2>1
  <2>3. V = 1 .. m
    <3>1. \A k \in V : k \in 1 .. m BY <1>1, <1>6, <2>1, <2>2
    <3> QED BY <1>6, <2>1, <3>1
  <2>4. newest = n.next - len + m BY <1>2, <2>2
  <2>5. z = [n EXCEPT !.segments = q,
                      !.unread = n.unread + Cardinality({k \in V : Unread(n, seg[k])}),
                      !.drain = Max({n.drain, newest + 1}),
                      !.offset = IF n.drain <= newest THEN 0 ELSE n.offset]
    BY <1>14 DEF Evict, V, seg, len, m
  <2>6. /\ q \in Seq(SegmentType) /\ Len(q) = len - m
        /\ \A k \in 1 .. (len - m) : q[k] = seg[k + m]
    <3>1. \A i \in (m + 1) .. len : seg[i] \in SegmentType BY <1>2, <2>2
    <3>2. m + 1 \in Int /\ len \in Int /\ m + 1 <= len BY <1>1, <2>2
    <3>3. /\ q \in Seq(SegmentType) /\ Len(q) = len - (m + 1) + 1
          /\ \A k \in 1 .. (len - (m + 1) + 1) : q[k] = seg[(m + 1) + k - 1]
      BY <3>1, <3>2, SubSeqProperties
    <3>4. len - (m + 1) + 1 = len - m BY <1>1, <2>2
    <3>5. ASSUME NEW k \in 1 .. (len - m) PROVE q[k] = seg[k + m]
      <4>1. k \in 1 .. (len - (m + 1) + 1) BY <3>4
      <4>2. (m + 1) + k - 1 = k + m BY <1>1, <2>2
      <4> HIDE DEF q
      <4> QED BY <3>3, <4>1, <4>2
    <3> HIDE DEF q
    <3> QED BY <3>3, <3>4, <3>5
  <2>7. Max({n.drain, newest + 1}) = IF n.drain <= newest THEN newest + 1 ELSE n.drain
    <3>1. newest \in Int /\ n.drain \in Int BY <1>1, <2>2, <2>4
    <3> HIDE DEF newest
    <3>2. newest + 1 \in Int BY <3>1
    <3>3. Max({n.drain, newest + 1}) = IF n.drain >= newest + 1 THEN n.drain ELSE newest + 1
      BY <3>1, <3>2, MaxOfTwo
    <3> QED BY <3>1, <3>3
  <2> DEFINE U == {k \in V : Unread(n, seg[k])}
             d == IF n.drain <= newest THEN newest + 1 ELSE n.drain
             o == IF n.drain <= newest THEN 0 ELSE n.offset
  <2>8. Cardinality(U) \in Nat /\ (U # {} => Cardinality(U) > 0)
    <3>1. IsFiniteSet(U) BY <1>6, FS_Subset
    <3>2. Cardinality(U) \in Nat BY <3>1, FS_CardinalityType
    <3>3. Cardinality(U) = 0 <=> U = {} BY <3>1, FS_EmptySet
    <3> HIDE DEF U
    <3> QED BY <3>2, <3>3
  <2>9. d \in Nat /\ o \in Nat
    <3>1. newest \in Int /\ n.drain \in Nat BY <1>1, <2>2, <2>4
    <3> HIDE DEF newest
    <3> QED BY <1>1, <3>1
  <2>10. /\ z \in NativeType /\ z.segments = q /\ z.unread = n.unread + Cardinality(U)
         /\ z.drain = d /\ z.offset = o /\ z.id = n.id /\ z.mode = n.mode
         /\ z.active = n.active /\ z.next = n.next
    <3>1. z = [n EXCEPT !.segments = q, !.unread = n.unread + Cardinality(U),
                        !.drain = d, !.offset = o]
      BY <2>5, <2>7
    <3>2. n.unread + Cardinality(U) \in Nat BY <1>1, <2>8
    <3> HIDE DEF q, U, d, o, z
    <3> QED BY <1>0, <2>6, <2>9, <3>1, <3>2 DEF NativeType
  <2> HIDE DEF q, U, z
  <2>11. Consecutive(q, n.next, records)
    <3>1. ASSUME NEW k \in 1 .. (len - m)
          PROVE  /\ q[k].index = n.next - (len - m) + k
                 /\ 1 <= q[k].from /\ q[k].from <= q[k].to + 1 /\ q[k].to <= records
      <4>1. k + m \in 1 .. len BY <1>1, <2>2
      <4>2. n.next - len + (k + m) = n.next - (len - m) + k BY <1>1, <2>2
      <4>3. q[k] = seg[k + m] BY <2>6
      <4>4. /\ seg[k + m].index = n.next - len + (k + m)
            /\ 1 <= seg[k + m].from /\ seg[k + m].from <= seg[k + m].to + 1
            /\ seg[k + m].to <= records
        BY <1>2, <4>1
      <4> QED BY <4>2, <4>3, <4>4
    <3>2. ASSUME NEW j \in 1 .. (len - m), NEW k \in 1 .. (len - m), j < k
          PROVE  /\ q[j].sealed /\ q[j].to < q[k].from
                 /\ k = j + 1 => q[k].from = q[j].to + 1
      <4>1. k + m \in 1 .. len /\ j + m \in 1 .. len /\ j + m < k + m
            /\ (k = j + 1 => k + m = (j + m) + 1)
        BY <1>1, <2>2, <3>2
      <4>2. q[k] = seg[k + m] /\ q[j] = seg[j + m] BY <2>6
      <4> QED BY <1>3, <4>1, <4>2
    <3>3. q[len - m].to = records
      <4>1. len - m \in 1 .. (len - m) /\ (len - m) + m = len /\ len > 0 BY <1>1, <2>2
      <4>2. q[len - m] = seg[len] BY <2>6, <4>1
      <4> QED BY <1>4, <4>1, <4>2
    <3> QED BY <2>6, <3>1, <3>2, <3>3 DEF Consecutive
  <2>12. Pos(z) = d - n.next + (len - m)
    BY <2>6, <2>10 DEF Pos
  <2>13. CASE n.drain <= newest
    <3>1. d = newest + 1 /\ o = 0 /\ Pos(z) = 1 /\ d > n.drain /\ p <= m /\ p \in 1 .. len
      <4>1. d = newest + 1 /\ o = 0 BY <2>13
      <4>2. newest \in Int BY <1>1, <2>2, <2>4
      <4> HIDE DEF newest, d, o
      <4>3. /\ len \in Int /\ n.next \in Int /\ n.drain \in Int /\ m \in Int /\ p \in Int
            /\ p = n.drain - n.next + len /\ p >= 1 /\ m + 1 <= len
        BY <1>1, <2>2
      <4>4. Pos(z) = 1 BY ONLY <4>1, <4>2, <4>3, <2>4, <2>12
      <4>5. d > n.drain BY ONLY <4>1, <4>2, <4>3, <2>13
      <4>6. p <= m BY ONLY <4>2, <4>3, <2>4, <2>13
      <4>7. p \in 1 .. len BY ONLY <4>3, <4>6
      <4> QED BY <4>1, <4>4, <4>5, <4>6, <4>7
    <3>2. CursorOK(z)
      <4>1. Pos(z) \in 1 .. Len(z.segments) + 1 /\ ~(z.offset > 0)
            /\ Pos(z) # Len(z.segments) + 1
        BY <1>1, <2>2, <2>6, <2>10, <3>1
      <4> QED BY <4>1 DEF CursorOK
    <3>3. Shape(z, records)
      <4>1. Len(z.segments) > 0 BY <1>1, <2>2, <2>6, <2>10
      <4> QED BY <2>10, <2>11, <3>2, <4>1 DEF Shape
    <3>4. Frontier(z, records) = seg[m].to + 1
      <4>1. Frontier(z, records) = z.segments[1].from + 0 \div 2
        <5>1. 1 # Len(z.segments) + 1 BY <1>1, <2>2, <2>6, <2>10
        <5> QED BY <2>10, <3>1, <5>1 DEF Frontier
      <4>2. z.segments[1] = seg[1 + m] /\ 1 + m \in 1 .. len /\ m < 1 + m /\ 1 + m = m + 1
        BY <1>1, <2>2, <2>6, <2>10
      <4>3. seg[1 + m].from = seg[m].to + 1 BY <1>3, <2>2, <4>2
      <4>4. 0 \div 2 = 0 OBVIOUS
      <4> QED BY <1>2, <2>2, <4>1, <4>2, <4>3, <4>4
    <3>5. ASSUME NEW r \in Nat, Frontier(n, records) <= r, r < Frontier(z, records)
          PROVE  r \in Unreached(n)
      <4>1. p # len + 1 BY <1>1, <3>1
      <4>2. seg[p].from + n.offset \div 2 <= r /\ r <= seg[m].to
        BY <1>2, <1>7, <2>2, <3>4, <3>5, <4>1
      <4> DEFINE T == {k \in p .. m : r <= seg[k].to}
      <4>3. T \subseteq Nat /\ m \in T BY <1>1, <2>2, <3>1, <4>2
      <4>4. PICK k \in T : \A j \in T : ~(j < k)
        <5> HIDE DEF T
        <5> QED BY <4>3, SmallestMember
      <4>5. k \in p .. m /\ k \in 1 .. len /\ k \in V /\ r <= seg[k].to
        BY <1>1, <2>2, <2>3, <3>1, <4>4
      <4>6. CASE k = p
        <5>1. seg[p].index = n.drain BY <1>1, <1>2, <3>1, SMTT(40)
        <5>2. /\ n.offset \in Nat /\ seg[p].from \in Nat /\ r \in Nat
              /\ seg[p].from + n.offset \div 2 <= r
          BY <1>1, <1>2, <3>1, <4>2
        <5>3. seg[p].from <= r /\ 2 * (r - seg[p].from + 1) > n.offset
          BY ONLY <5>2
        <5> QED BY <1>9, <4>5, <4>6, <5>1, <5>2, <5>3, <1>2
      <4>7. CASE k # p
        <5>0. /\ p \in Int /\ m \in Int /\ k \in Int /\ len \in Int /\ p >= 1 /\ p <= k /\ k <= m
              /\ m <= len /\ k # p
          BY <1>1, <2>2, <3>1, <4>5, <4>7
        <5>1. k - 1 \in p .. m /\ k - 1 \in 1 .. len /\ k - 1 < k /\ k = (k - 1) + 1
          BY ONLY <5>0
        <5>2. ~(r <= seg[k - 1].to) BY <4>4, <5>1
        <5>3. seg[k].from = seg[k - 1].to + 1 BY <1>3, <4>5, <5>1
        <5>4. seg[k].from <= r BY <1>2, <4>5, <5>1, <5>2, <5>3
        <5>5. seg[k].index > n.drain
          <6>1. seg[k].index = n.next - len + k BY <1>2, <4>5
          <6>2. k > p BY ONLY <5>0
          <6>3. n.next \in Int /\ n.drain \in Int /\ p = n.drain - n.next + len BY <1>1
          <6> QED BY ONLY <5>0, <6>1, <6>2, <6>3
        <5>6. r \in seg[k].from .. seg[k].to BY <1>2, <4>5, <5>4
        <5> QED BY <1>9, <4>5, <5>5, <5>6
      <4> QED BY <4>6, <4>7
    <3>6. z.unread > 0
      <4>1. m \in U
        <5>1. newest >= n.drain BY <1>1, <2>2, <2>4, <2>13
        <5> QED BY <2>1, <5>1 DEF U, Unread
      <4> QED BY <1>1, <2>8, <2>10, <4>1
    <3>7. Advances(n, z, Unreached(n), records)
      <4>1. n.unread <= z.unread BY <1>1, <2>8, <2>10
      <4>2. z.drain > n.drain /\ z.offset = 0
        <5> HIDE DEF newest, d, o
        <5> QED BY <2>10, <3>1
      <4>3. Frontier(n, records) <= Frontier(z, records)
        <5>1. p # len + 1 /\ p \in 1 .. len /\ m \in 1 .. len /\ p <= m BY <1>1, <2>2, <3>1
        <5>2. seg[p].from + n.offset \div 2 <= seg[p].to + 1
          <6>1. /\ n.offset \in Nat /\ seg[p].from \in Nat /\ seg[p].to \in Nat
                /\ seg[p].from <= seg[p].to + 1
                /\ n.offset > 0 => n.offset < 2 * (seg[p].to - seg[p].from + 1)
            BY <1>1, <1>2, <1>5, <5>1
          <6> QED BY ONLY <6>1
        <5>3. seg[p].to <= seg[m].to
          <6>1. CASE p = m BY <1>2, <5>1, <6>1
          <6>2. CASE p # m
            <7>1. p < m BY <1>1, <2>2, <5>1, <6>2
            <7>2. seg[p].to < seg[m].from /\ seg[m].from <= seg[m].to + 1
              BY <1>2, <1>3, <5>1, <7>1
            <7> QED BY <1>2, <5>1, <7>2
          <6> QED BY <6>1, <6>2
        <5>4. seg[p].to \in Nat /\ seg[m].to \in Nat BY <1>2, <5>1
        <5>5. Frontier(n, records) = seg[p].from + n.offset \div 2 BY <1>7, <5>1
        <5> QED BY <1>8, <3>4, <5>2, <5>3, <5>4, <5>5
      <4> QED BY <2>10, <3>5, <3>6, <4>1, <4>2, <4>3 DEF Advances
    <3>8. z.segments[1].from >= seg[1].from
      <4>1. z.segments[1] = seg[1 + m] /\ 1 + m \in 1 .. len
        BY <1>1, <2>2, <2>6, <2>10
      <4>2. 1 \in 1 .. len BY <1>1, <2>2
      <4> QED BY <1>2, <1>10, <4>1, <4>2
    <3> QED BY <3>3, <3>7, <3>8, <1>11, <1>12, <2>6, <2>10, <2>2 DEF seg, len, z
  <2>14. CASE ~(n.drain <= newest)
    <3>1. d = n.drain /\ o = n.offset /\ Pos(z) = p - m /\ p > m
      <4>1. d = n.drain /\ o = n.offset BY <2>14
      <4>2. newest \in Int BY <1>1, <2>2, <2>4
      <4> HIDE DEF newest, d, o
      <4>3. /\ len \in Int /\ n.next \in Int /\ n.drain \in Int /\ m \in Int /\ p \in Int
            /\ p = n.drain - n.next + len
        BY <1>1, <2>2
      <4>4. Pos(z) = p - m BY ONLY <4>1, <4>3, <2>12
      <4>5. p > m BY ONLY <4>2, <4>3, <2>4, <2>14
      <4> QED BY <4>1, <4>4, <4>5
    <3>2. /\ Pos(z) \in 1 .. (len - m) + 1
          /\ p # len + 1 => /\ p \in 1 .. len /\ p - m \in 1 .. (len - m)
                            /\ q[p - m] = seg[p]
      <4>0. p \in Int /\ len \in Int /\ m \in Int /\ m >= 1 /\ m < p /\ p <= len + 1
        BY <1>1, <2>2, <3>1
      <4>1. p - m \in 1 .. (len - m) + 1 BY ONLY <4>0
      <4>2. p # len + 1 => p \in 1 .. len /\ p - m \in 1 .. (len - m) /\ (p - m) + m = p
        BY ONLY <4>0
      <4>3. p # len + 1 => q[p - m] = seg[(p - m) + m] BY <2>6, <4>2
      <4> QED BY <3>1, <4>1, <4>2, <4>3
    <3>3. n.offset > 0 => p # len + 1 BY <1>1, <1>5
    <3>4. CursorOK(z)
      <4>1. z.offset = n.offset /\ z.segments = q /\ Len(q) = len - m /\ Pos(z) = p - m
        BY <2>6, <2>10, <3>1
      <4>0. p - m = (len - m) + 1 => q[len - m].sealed
        <5>1. p - m = (len - m) + 1 => p = len + 1 BY <1>1, <2>2
        <5>2. len - m \in 1 .. (len - m) /\ (len - m) + m = len /\ len > 0 BY <1>1, <2>2
        <5>3. q[len - m] = seg[len] BY <2>6, <5>2
        <5>4. p = len + 1 => seg[len].sealed BY <1>0, <5>2 DEF CursorOK, p, len, seg
        <5> QED BY <5>1, <5>3, <5>4
      <4>2. CASE n.offset > 0
        <5>1. q[p - m].sealed /\ n.offset < 2 * (q[p - m].to - q[p - m].from + 1)
              /\ p - m <= len - m
          BY <1>1, <1>5, <2>2, <3>2, <3>3, <4>2
        <5> QED BY <3>2, <4>0, <4>1, <5>1 DEF CursorOK
      <4>3. CASE ~(n.offset > 0)
        BY <3>2, <4>0, <4>1, <4>3 DEF CursorOK
      <4> QED BY <4>2, <4>3
    <3>5. Shape(z, records)
      <4>1. Len(z.segments) > 0 BY <1>1, <2>2, <2>6, <2>10
      <4> QED BY <2>10, <2>11, <3>4, <4>1 DEF Shape
    <3>6. Frontier(z, records) = Frontier(n, records)
      <4>1. Frontier(z, records) = IF p - m = (len - m) + 1 THEN records + 1
                                ELSE q[p - m].from + n.offset \div 2
        BY <2>6, <2>10, <3>1 DEF Frontier
      <4>2. p - m = (len - m) + 1 <=> p = len + 1
        <5>1. p \in Int /\ m \in Int /\ len \in Int BY <1>1, <2>2
        <5> HIDE DEF p, m, len
        <5> QED BY ONLY <5>1
      <4> QED BY <1>7, <3>2, <4>1, <4>2
    <3>7. Unreached(n) = {}
      <4> SUFFICES ASSUME NEW k \in V PROVE ~(seg[k].index >= n.drain)
        <5>0. V \subseteq 1 .. len BY <1>1, <1>6
        <5>1. ASSUME NEW j \in V PROVE seg[j].index \in Int
          <6>1. j \in Int /\ seg[j].index = n.next - len + j BY <1>2, <5>0
          <6> HIDE DEF len, seg, V
          <6> QED BY <1>1, <6>1
        <5> QED BY <1>1, <1>9, <5>1
      <4>1. k \in 1 .. len /\ k <= m BY <1>6, <2>1, <1>1
      <4>2. seg[k].index = n.next - len + k BY <1>2, <4>1
      <4>3. /\ n.next - len + m < n.drain /\ n.next \in Int /\ n.drain \in Int
            /\ len \in Int /\ m \in Int /\ k \in Int /\ k <= m
        <5>1. newest \in Int BY <1>1, <2>2, <2>4
        <5> HIDE DEF newest
        <5> QED BY <1>1, <2>2, <2>4, <2>14, <4>1, <5>1
      <4> QED BY ONLY <4>2, <4>3
    <3>8. Advances(n, z, Unreached(n), records)
      <4>1. n.unread <= z.unread BY <1>1, <2>8, <2>10
      <4>2. \A r \in Nat : ~(Frontier(n, records) <= r /\ r < Frontier(z, records))
        BY <1>8, <3>6
      <4>3. z.drain = n.drain /\ z.offset = n.offset BY <2>10, <3>1
      <4>4. n.offset > 0 => z.segments[Pos(z)].from = n.segments[Pos(n)].from
        BY <2>10, <3>1, <3>2, <3>3 DEF seg, p
      <4> QED BY <1>8, <2>10, <3>6, <3>7, <4>1, <4>2, <4>3, <4>4 DEF Advances
    <3>9. z.segments[1].from >= seg[1].from
      <4>1. z.segments[1] = seg[1 + m] /\ 1 + m \in 1 .. len
        BY <1>1, <2>2, <2>6, <2>10
      <4>2. 1 \in 1 .. len BY <1>1, <2>2
      <4> QED BY <1>2, <1>10, <4>1, <4>2
    <3> QED BY <3>5, <3>8, <3>9, <1>11, <1>12, <2>6, <2>10, <2>2 DEF seg, len, z
  <2> QED BY <2>13, <2>14
<1> QED BY <1>13, <1>14

(***************************************************************************)
(* Draining. The next chunk comes from the segment the cursor is in.       *)
(***************************************************************************)
LEMMA NextToDrain ==
  ASSUME NEW records \in Nat, NEW n, Shape(n, records), Drainable(n) # {}
  PROVE  /\ Pos(n) \in 1 .. Len(n.segments) /\ Min(Drainable(n)) = Pos(n)
         /\ n.segments[Pos(n)].sealed /\ n.segments[Pos(n)].index = n.drain
<1> DEFINE len == Len(n.segments)
           p == Pos(n)
           D == Drainable(n)
<1>0. n \in NativeType /\ Consecutive(n.segments, n.next, records) /\ CursorOK(n)
  BY DEF Shape
<1>1. /\ len \in Nat /\ n.next \in Nat /\ n.drain \in Nat /\ p \in Int
      /\ p = n.drain - n.next + len /\ p >= 1 /\ DOMAIN n.segments = 1 .. len
  BY <1>0, NativeFields DEF Pos, CursorOK
<1>2. \A k \in 1 .. len : n.segments[k].index = n.next - len + k
  BY <1>0 DEF Consecutive
<1>3. \A j, k \in 1 .. len : j < k => n.segments[j].sealed
  BY <1>0 DEF Consecutive
<1>4. D = {k \in 1 .. len : n.segments[k].sealed /\ n.segments[k].index >= n.drain}
  BY <1>1 DEF Drainable
<1> HIDE DEF len, p, D
<1>5. ASSUME NEW k \in 1 .. len
      PROVE  n.segments[k].index >= n.drain <=> k >= p
  <2>1. n.segments[k].index = n.next - len + k BY <1>2
  <2> QED BY ONLY <1>1, <2>1, k \in 1 .. len
<1>6. D \subseteq 1 .. len /\ \A k \in D : k >= p BY <1>4, <1>5
<1>7. PICK k \in D : TRUE BY DEF D
<1>8. p \in 1 .. len
  <2>1. k \in 1 .. len /\ k >= p BY <1>6
  <2> QED BY ONLY <1>1, <2>1
<1>9. p \in D
  <2>1. n.segments[p].sealed
    <3>1. CASE k = p BY <1>4, <3>1
    <3>2. CASE k # p
      <4>1. k \in 1 .. len /\ p < k BY <1>1, <1>6, <3>2
      <4> QED BY <1>3, <1>8, <4>1
    <3> QED BY <3>1, <3>2
  <2>2. n.segments[p].index >= n.drain BY <1>1, <1>5, <1>8
  <2> QED BY <1>4, <1>8, <2>1, <2>2
<1>10. Min(D) = p
  <2>1. D \subseteq Nat /\ D # {} BY <1>6, <1>9
  <2>2. Min(D) \in D /\ \A x \in D : Min(D) <= x BY <2>1, MinIsSmallest
  <2>3. Min(D) \in Int
    <3>1. \A x \in Nat : x \in Int OBVIOUS
    <3> QED BY ONLY <2>1, <2>2, <3>1
  <2>4. Min(D) >= p BY <1>6, <2>2
  <2>5. Min(D) <= p BY <1>9, <2>2
  <2> QED BY ONLY <1>1, <2>3, <2>4, <2>5
<1>11. n.segments[p].index = n.drain
  <2>1. n.segments[p].index = n.next - len + p BY <1>2, <1>8
  <2> QED BY ONLY <1>1, <2>1
<1> QED BY <1>4, <1>8, <1>9, <1>10, <1>11 DEF len, p, D

\* A chunk d, read at an offset, of the size cells of a file.
ChunkOfFile(from, to, offset, chunk, size, d) ==
  /\ Len(Cells(from, to)) = size /\ size \in Nat
  /\ d \in Seq(1 .. 2 * to)
  /\ \A i \in 1 .. Len(d) : d[i] = 2 * (from - 1) + offset + i
  /\ offset + Len(d) <= size
  /\ offset + Len(d) < size => Len(d) = chunk
  /\ d = <<>> <=> size = 0

LEMMA CursorInFile ==
  ASSUME NEW from \in Nat, NEW to \in Nat, NEW offset \in Nat, NEW chunk \in Nat,
         1 <= from, from <= to + 1, chunk >= 2,
         NEW n, n = 2 * (to - from + 1), offset > 0 => offset < n,
         NEW d, d = SubSeq(Cells(from, to), offset + 1, Min({offset + chunk, n}))
  PROVE  ChunkOfFile(from, to, offset, chunk, n, d)
<1> DEFINE size == 2 * (to - from + 1)
           top == IF offset + chunk <= size THEN offset + chunk ELSE size
           file == Cells(from, to)
           data == SubSeq(file, offset + 1, top)
<1>1. size \in Nat OBVIOUS
<1>2. Min({offset + chunk, size}) = top
  <2>1. offset + chunk \in Int BY <1>1
  <2> HIDE DEF size
  <2> QED BY <1>1, <2>1, MinOfTwo
<1>3. file = [i \in 1 .. size |-> 2 * (from - 1) + i] BY DEF Cells
<1>4. offset <= size BY <1>1
<1>5. /\ top \in Nat /\ offset <= top /\ top <= size /\ (top < size => top = offset + chunk)
      /\ top = size \/ top = offset + chunk
      /\ top = IF offset + chunk <= size THEN offset + chunk ELSE size
  <2> HIDE DEF size
  <2> QED BY <1>1, <1>4
<1>6. \A i \in 1 .. size : 2 * (from - 1) + i \in 1 .. 2 * to OBVIOUS
<1> DEFINE C == 1 .. 2 * to
<1>7. file \in Seq(C) /\ Len(file) = size /\ \A i \in 1 .. size : file[i] = 2 * (from - 1) + i
  <2> HIDE DEF size, C
  <2>1. \A i \in 1 .. size : 2 * (from - 1) + i \in C BY <1>6 DEF C
  <2>2. file \in [1 .. size -> C] BY <1>3, <2>1
  <2>3. file \in Seq(C) BY <1>1, <2>2
  <2> QED BY <1>1, <1>3, <2>3
<1> HIDE DEF file, top, size, C
<1>8. /\ data \in Seq(C) /\ Len(data) = top - offset
      /\ \A i \in 1 .. (top - offset) : data[i] = file[offset + i]
  <2>1. /\ \A i \in (offset + 1) .. top : file[i] \in C
        /\ offset + 1 \in Int /\ top \in Int
    <3>1. \A i \in (offset + 1) .. top : i \in 1 .. size BY <1>1, <1>5
    <3>2. \A i \in 1 .. size : file[i] \in C BY <1>1, <1>7
    <3> QED BY <1>5, <3>1, <3>2
  <2>2. CASE offset + 1 <= top
    <3>1. /\ data \in Seq(C) /\ Len(data) = top - (offset + 1) + 1
          /\ \A i \in 1 .. (top - (offset + 1) + 1) : data[i] = file[(offset + 1) + i - 1]
      BY <2>1, <2>2, SubSeqProperties
    <3>2. top - (offset + 1) + 1 = top - offset BY <1>5
    <3>3. \A i \in 1 .. (top - offset) : (offset + 1) + i - 1 = offset + i OBVIOUS
    <3> HIDE DEF data
    <3> QED BY <3>1, <3>2, <3>3
  <2>3. CASE ~(offset + 1 <= top)
    <3>1. data = <<>> /\ top = offset
      <4>0. top \in Nat /\ offset <= top BY <1>5
      <4>1. top = offset BY ONLY <2>3, <4>0, offset \in Nat
      <4> QED BY <1>7, <4>1
    <3>2. top - offset = 0 /\ 1 .. 0 = {} BY <1>5, <3>1
    <3> QED BY <3>1, <3>2
  <2> QED BY <2>2, <2>3
<1>9. \A i \in 1 .. (top - offset) : data[i] = 2 * (from - 1) + offset + i
  <2> TAKE i \in 1 .. (top - offset)
  <2>1. offset + i \in 1 .. size BY <1>1, <1>5
  <2>2. file[offset + i] = 2 * (from - 1) + (offset + i) BY <1>7, <2>1
  <2> HIDE DEF data
  <2> QED BY <1>5, <1>8, <2>2
<1> HIDE DEF data
<1>10. Len(data) = top - offset /\ top - offset \in Nat BY <1>5, <1>8
<1>11. data = <<>> <=> size = 0
  <2>1. data = <<>> <=> Len(data) = 0 BY <1>8
  <2>2. size = 0 => top - offset = 0 BY <1>1, <1>5
  <2>3. top - offset = 0 => size = 0
    <3>1. top = size \/ top = offset + chunk BY <1>5
    <3>2. ~(top = offset + chunk /\ top - offset = 0)
      OBVIOUS
    <3>3. offset = size => size = 0 BY <1>1 DEF size
    <3> QED BY <1>5, <3>1, <3>2, <3>3
  <2> QED BY <1>10, <2>1, <2>2, <2>3
<1>12. d = data /\ n = size
  BY <1>2 DEF data, file, size
<1>13. /\ offset + Len(data) <= size
       /\ offset + Len(data) < size => Len(data) = chunk
  BY ONLY <1>1, <1>5, <1>10, offset \in Nat, chunk \in Nat
<1>14. \A i \in 1 .. Len(data) : data[i] = 2 * (from - 1) + offset + i BY <1>9, <1>10
<1>15. data \in Seq(1 .. 2 * to) BY <1>8 DEF C
<1> QED BY <1>1, <1>7, <1>11, <1>12, <1>13, <1>14, <1>15 DEF file, ChunkOfFile

\* A drain gives out the cells from the cursor on, at most Chunk of them, and
\* leaves the cursor behind them.
LEMMA DrainedChunk ==
  ASSUME NEW records \in Nat, records <= MaxRecords, NEW n, Shape(n, records)
  PROVE  LET c == Drained(n)
             z == AfterDrain(n)
             segment == n.segments[Pos(n)]
         IN  /\ ChunkOK(c) /\ c.offset = n.offset
             /\ z.unread = n.unread
             /\ Drainable(n) = {} => z = n /\ c.data = <<>>
             /\ Drainable(n) # {} =>
                  /\ Pos(n) \in 1 .. Len(n.segments) /\ segment.sealed
                  /\ c.seg = n.drain
                  /\ c.size = 2 * (segment.to - segment.from + 1)
                  /\ c.offset + Len(c.data) <= c.size
                  /\ \A i \in 1 .. Len(c.data) :
                       c.data[i] = 2 * (segment.from - 1) + n.offset + i
                  /\ z = [n EXCEPT !.drain = IF c.offset + Len(c.data) >= c.size
                                             THEN n.drain + 1 ELSE n.drain,
                                   !.offset = IF c.offset + Len(c.data) >= c.size
                                              THEN 0 ELSE c.offset + Len(c.data)]
                  /\ c.data = <<>> <=> c.size = 0
<1> DEFINE c == Drained(n)
           z == AfterDrain(n)
           p == Pos(n)
           segment == n.segments[p]
           size == 2 * (segment.to - segment.from + 1)
           data == SubSeq(Cells(segment.from, segment.to), n.offset + 1,
                          Min({n.offset + Chunk, size}))
<1>0. n \in NativeType /\ Consecutive(n.segments, n.next, records) /\ CursorOK(n)
  BY DEF Shape
<1>1. n.offset \in Nat /\ n.drain \in Nat /\ Chunk \in Nat /\ Chunk >= 2 /\ MaxRecords \in Nat
  BY <1>0, NativeFields, SessionAssumption
<1>2. CASE Drainable(n) = {}
  <2>1. c = [seg |-> 0, offset |-> n.offset, data |-> <<>>, size |-> 0] BY <1>2 DEF Drained
  <2>2. z = n BY <1>2 DEF AfterDrain
  <2>3. ChunkOK(c)
    <3>1. /\ c.seg = 0 /\ c.offset = n.offset /\ c.data = <<>> /\ c.size = 0 BY <2>1
    <3>2. <<>> \in Seq(Cell) /\ Len(<<>>) = 0 /\ 1 .. (0 - 1) = {} OBVIOUS
    <3> HIDE DEF c
    <3> QED BY <1>1, <3>1, <3>2 DEF ChunkOK
  <2> QED BY <1>2, <2>1, <2>2, <2>3
<1>3. CASE Drainable(n) # {}
  <2>1. p \in 1 .. Len(n.segments) /\ Min(Drainable(n)) = p /\ segment.sealed
        /\ segment.index = n.drain
    BY <1>3, NextToDrain
  <2>2. /\ segment.from \in Nat /\ segment.to \in Nat /\ segment.to <= records
        /\ 1 <= segment.from /\ segment.from <= segment.to + 1
    BY <1>0, <2>1, NativeFields DEF Consecutive
  <2>3. n.offset > 0 => n.offset < size BY <1>0, <2>1 DEF CursorOK
  <2> DEFINE a == segment.from
             b == segment.to
  <2>4. /\ Len(Cells(a, b)) = size /\ size \in Nat /\ data \in Seq(1 .. 2 * b)
        /\ \A i \in 1 .. Len(data) : data[i] = 2 * (a - 1) + n.offset + i
        /\ n.offset + Len(data) <= size
        /\ n.offset + Len(data) < size => Len(data) = Chunk
        /\ data = <<>> <=> size = 0
    <3>1. a \in Nat /\ b \in Nat /\ 1 <= a /\ a <= b + 1
          /\ (n.offset > 0 => n.offset < 2 * (b - a + 1))
      BY <2>2, <2>3
    <3> DEFINE o == n.offset
    <3>a. o \in Nat BY <1>1
    <3> HIDE DEF a, b, o
    <3>b. size = 2 * (b - a + 1) /\ data = SubSeq(Cells(a, b), o + 1, Min({o + Chunk, size}))
          /\ (o > 0 => o < size)
      BY <2>3 DEF a, b, o
    <3> HIDE DEF size, data
    <3>2. ChunkOfFile(a, b, o, Chunk, size, data)
      BY ONLY <1>1, <3>1, <3>a, <3>b, CursorInFile
    <3> QED BY <3>2 DEF a, b, o, ChunkOfFile
  <2>5. c = [seg |-> n.drain, offset |-> n.offset, size |-> size, data |-> data]
    <3>1. Drained(n) = [seg |-> segment.index, offset |-> n.offset,
                        size |-> Len(Cells(a, b)),
                        data |-> SubSeq(Cells(a, b), n.offset + 1,
                                        Min({n.offset + Chunk, Len(Cells(a, b))}))]
      BY <1>3, <2>1 DEF Drained
    <3>2. Len(Cells(a, b)) = size BY <2>4
    <3> HIDE DEF size
    <3> QED BY <2>1, <3>1, <3>2
  <2> HIDE DEF size
  <2>6. data \in Seq(Cell)
    <3>1. b \in Nat /\ b <= MaxRecords BY <1>1, <2>2
    <3>2. 1 .. 2 * b \subseteq Cell
      <4> HIDE DEF b
      <4> QED BY <1>1, <3>1 DEF Cell
    <3>3. data \in Seq(1 .. 2 * b) BY <2>4
    <3> DEFINE W == 1 .. 2 * b
    <3>4. data \in Seq(W) /\ W \subseteq Cell BY <3>2, <3>3
    <3> HIDE DEF data, W
    <3> QED BY ONLY <3>4
  <2> HIDE DEF data
  <2>7. /\ c.seg = n.drain /\ c.offset = n.offset /\ c.size = size /\ c.data = data
    BY <2>5
  <2> HIDE DEF c
  <2>8. ChunkOK(c)
    <3>1. Len(data) \in Nat BY <2>6
    <3>2. ASSUME NEW i \in 1 .. (Len(data) - 1) PROVE data[i + 1] = data[i] + 1
      <4>1. i \in 1 .. Len(data) /\ i + 1 \in 1 .. Len(data) BY <3>1
      <4>2. data[i] = 2 * (a - 1) + n.offset + i /\ data[i + 1] = 2 * (a - 1) + n.offset + (i + 1)
        BY <2>4, <4>1
      <4>3. a \in Nat BY <2>2
      <4> HIDE DEF a
      <4> QED BY <1>1, <3>1, <4>2, <4>3
    <3> QED BY <1>1, <2>4, <2>6, <2>7, <3>2 DEF ChunkOK
  <2>9. z = IF n.offset + Len(data) >= size
            THEN [n EXCEPT !.drain = n.drain + 1, !.offset = 0]
            ELSE [n EXCEPT !.offset = n.offset + Len(data)]
    BY <1>3, <2>7 DEF AfterDrain, c
  <2>10. z = [n EXCEPT !.drain = IF n.offset + Len(data) >= size THEN n.drain + 1 ELSE n.drain,
                       !.offset = IF n.offset + Len(data) >= size THEN 0
                                  ELSE n.offset + Len(data)]
    <3>1. [n EXCEPT !.offset = n.offset + Len(data)]
            = [n EXCEPT !.drain = n.drain, !.offset = n.offset + Len(data)]
      BY <1>0 DEF NativeType
    <3> HIDE DEF z
    <3> QED BY <2>9, <3>1
  <2>11. z.unread = n.unread BY <2>10, <1>0 DEF NativeType
  <2> HIDE DEF z
  <2> QED BY <1>3, <2>1, <2>4, <2>7, <2>8, <2>10, <2>11 DEF size, c, z
<1> QED BY <1>2, <1>3

LEMMA DrainingKeepsTheShape ==
  ASSUME NEW records \in Nat, records <= MaxRecords, NEW n, Shape(n, records)
  PROVE  LET c == Drained(n)
             z == AfterDrain(n)
             segment == n.segments[Pos(n)]
         IN  /\ Shape(z, records) /\ z.id = n.id /\ z.unread = n.unread
             /\ z.mode = n.mode /\ z.active = n.active
             /\ z.segments = n.segments
             /\ c.data = <<>> => Advances(n, z, {}, records)
             /\ Drainable(n) # {} =>
                  IF c.offset + Len(c.data) >= c.size
                  THEN z.drain = n.drain + 1 /\ z.offset = 0 /\ Frontier(z, records) = segment.to + 1
                  ELSE /\ z.drain = n.drain /\ z.offset = c.offset + Len(c.data)
                       /\ Pos(z) = Pos(n)
                       /\ Frontier(z, records) = segment.from + z.offset \div 2
<1> DEFINE c == Drained(n)
           z == AfterDrain(n)
           p == Pos(n)
           len == Len(n.segments)
           segment == n.segments[p]
           reached == c.offset + Len(c.data)
           whole == reached >= c.size
<1>0. n \in NativeType /\ Consecutive(n.segments, n.next, records) /\ CursorOK(n)
      /\ (n.active => len > 0)
  BY DEF Shape
<1>1. /\ n.offset \in Nat /\ n.drain \in Nat /\ n.next \in Nat /\ n.unread \in Nat
      /\ len \in Nat /\ p \in Int /\ p = n.drain - n.next + len
  BY <1>0, NativeFields DEF Pos
<1>2. CASE Drainable(n) = {}
  <2>1. z = n /\ c.data = <<>> BY <1>2, DrainedChunk
  <2>2. Frontier(n, records) \in Int
    <3>1. p # len + 1 => p \in 1 .. len BY <1>0, <1>1 DEF CursorOK
    <3>2. \A k \in 1 .. len : n.segments[k].from \in Nat BY <1>0, NativeFields
    <3> HIDE DEF len, p
    <3> QED BY <1>1, <3>1, <3>2, SMTT(40) DEF Frontier, len, p
  <2>3. Advances(n, n, {}, records) BY <1>1, <2>2 DEF Advances
  <2> QED BY <1>2, <2>1, <2>3
<1>3. CASE Drainable(n) # {}
  <2>1. /\ p \in 1 .. len /\ segment.sealed
        /\ c.size = 2 * (segment.to - segment.from + 1)
        /\ reached <= c.size
        /\ z = [n EXCEPT !.drain = IF whole THEN n.drain + 1 ELSE n.drain,
                         !.offset = IF whole THEN 0 ELSE reached]
        /\ c.data = <<>> <=> c.size = 0
        /\ c.offset = n.offset /\ ChunkOK(c)
    BY <1>3, DrainedChunk
  <2>2. reached \in Nat /\ c.size \in Nat
    <3>1. c.size \in Nat /\ c.offset \in Nat /\ c.data \in Seq(Cell) BY <2>1 DEF ChunkOK
    <3>2. Len(c.data) \in Nat BY ONLY <3>1, LenProperties
    <3> HIDE DEF c
    <3> QED BY <3>1, <3>2
  <2>3. /\ segment.from \in Nat /\ segment.to \in Nat /\ segment.to <= records
        /\ 1 <= segment.from
    BY <1>0, <2>1, NativeFields DEF Consecutive
  <2> HIDE DEF c, p, len
  <2>4. /\ z \in NativeType /\ z.segments = n.segments /\ z.next = n.next
        /\ z.id = n.id /\ z.unread = n.unread /\ z.mode = n.mode /\ z.active = n.active
        /\ z.drain = (IF whole THEN n.drain + 1 ELSE n.drain)
        /\ z.offset = (IF whole THEN 0 ELSE reached)
    <3> DEFINE d == IF whole THEN n.drain + 1 ELSE n.drain
               o == IF whole THEN 0 ELSE reached
    <3>1. d \in Nat /\ o \in Nat BY <1>1, <2>2
    <3>2. z = [n EXCEPT !.drain = d, !.offset = o] BY <2>1
    <3> HIDE DEF d, o, z
    <3>3. /\ z \in NativeType /\ z.segments = n.segments /\ z.next = n.next
          /\ z.id = n.id /\ z.unread = n.unread /\ z.mode = n.mode /\ z.active = n.active
          /\ z.drain = d /\ z.offset = o
      BY <1>0, <3>1, <3>2 DEF NativeType
    <3> QED BY <3>3 DEF d, o
  <2> HIDE DEF z
  <2>5. Pos(z) = z.drain - n.next + len BY <2>4 DEF Pos, len
  <2> HIDE DEF reached, segment
  <2>6. CASE whole
    <3>1. z.drain = n.drain + 1 /\ z.offset = 0 BY <2>4, <2>6
    <3>2. Pos(z) = p + 1 BY ONLY <1>1, <2>5, <3>1
    <3>3. CursorOK(z)
      <4>1. p + 1 \in 1 .. len + 1 BY <1>1, <2>1
      <4>2. ~(z.offset > 0) BY <3>1
      <4>3. Len(z.segments) = len BY <2>4 DEF len
      <4>4. p + 1 = len + 1 => z.segments[len].sealed
        <5>1. p + 1 = len + 1 => p = len BY <1>1
        <5> QED BY <2>1, <2>4, <5>1 DEF segment
      <4> QED BY <3>2, <4>1, <4>2, <4>3, <4>4 DEF CursorOK
    <3>4. Shape(z, records) BY <1>0, <2>4, <3>3 DEF Shape, len
    <3>5. Frontier(z, records) = segment.to + 1
      <4>1. CASE p = len
        <5>1. Frontier(z, records) = records + 1
          BY <1>1, <2>4, <3>2, <4>1 DEF Frontier, len
        <5>2. n.segments[len].to = records BY <1>0, <1>1, <2>1 DEF Consecutive, len
        <5> QED BY <4>1, <5>1, <5>2 DEF segment
      <4>2. CASE p # len
        <5>1. p + 1 \in 1 .. len /\ p + 1 # len + 1 /\ p < p + 1 /\ p \in 1 .. len
          BY <1>1, <2>1, <4>2
        <5>2. Frontier(z, records) = n.segments[p + 1].from + 0 \div 2
          BY <2>4, <3>1, <3>2, <5>1 DEF Frontier, len
        <5>3. n.segments[p + 1].from = segment.to + 1
          BY <1>0, <5>1 DEF Consecutive, len, segment
        <5>4. 0 \div 2 = 0 OBVIOUS
        <5> QED BY <2>3, <5>2, <5>3, <5>4
      <4> QED BY <4>1, <4>2
    <3>6. ASSUME c.data = <<>> PROVE Advances(n, z, {}, records)
      <4>1. c.size = 0 BY <2>1, <3>6
      <4>2. segment.to + 1 = segment.from BY <2>1, <2>3, <4>1
      <4>3. n.offset = 0
        <5>1. reached <= 0 /\ reached = n.offset + Len(c.data) BY <2>1, <4>1 DEF reached
        <5>2. Len(c.data) \in Nat BY <2>1 DEF ChunkOK
        <5> QED BY ONLY <1>1, <5>1, <5>2
      <4>4. Frontier(n, records) = segment.from + 0 \div 2
        <5>1. p # len + 1 BY <1>1, <2>1
        <5> QED BY <4>3, <5>1 DEF Frontier, segment, p, len
      <4>5. 0 \div 2 = 0 OBVIOUS
      <4>6. Frontier(n, records) = Frontier(z, records) /\ Frontier(n, records) \in Int
        BY <2>3, <3>5, <4>2, <4>4, <4>5
      <4>7. z.drain > n.drain BY <1>1, <3>1
      <4> QED BY <1>1, <2>4, <3>1, <4>6, <4>7 DEF Advances
    <3> QED BY <1>3, <2>4, <2>6, <3>1, <3>4, <3>5, <3>6 DEF whole, reached, c, z, p, segment
  <2>7. CASE ~whole
    <3>1. z.drain = n.drain /\ z.offset = reached /\ reached < c.size
      BY <2>2, <2>4, <2>7
    <3>2. Pos(z) = p BY ONLY <1>1, <2>5, <3>1
    <3>3. /\ z.segments[Pos(z)] = segment /\ Len(z.segments) = len
      BY <2>4, <3>2 DEF segment, len
    <3>4. CursorOK(z)
      <4>1. p \in 1 .. len + 1 /\ p <= len /\ p # len + 1 BY <1>1, <2>1
      <4>2. reached < 2 * (segment.to - segment.from + 1) BY <2>1, <3>1
      <4> QED BY <2>1, <3>1, <3>2, <3>3, <4>1, <4>2 DEF CursorOK
    <3>5. Shape(z, records) BY <1>0, <2>4, <3>4 DEF Shape, len
    <3>6. Frontier(z, records) = segment.from + z.offset \div 2
      <4>1. p # len + 1 BY <1>1, <2>1
      <4> QED BY <3>2, <3>3, <4>1 DEF Frontier
    <3>7. c.data # <<>> BY <2>1, <2>2, <3>1
    <3> QED BY <1>3, <2>4, <2>7, <3>1, <3>2, <3>5, <3>6, <3>7
            DEF whole, reached, c, z, p, segment
  <2> QED BY <2>6, <2>7
<1> QED BY <1>2, <1>3

(***************************************************************************)
(* The other things that happen to the native session.                     *)
(***************************************************************************)
LEMMA FinishingKeepsTheShape ==
  ASSUME NEW records \in Nat, NEW n, Shape(n, records)
  PROVE  LET z == Finish(n)
         IN  /\ Shape(z, records) /\ Advances(n, z, {}, records) /\ ~z.active
             /\ Len(z.segments) = Len(n.segments) /\ z.unread = n.unread
             /\ \A k \in 1 .. Len(n.segments) : z.segments[k].from = n.segments[k].from
<1>0. n \in NativeType BY DEF Shape
<1>1. CASE ~n.active
  <2>1. Finish(n) = n BY <1>1 DEF Finish
  <2>2. Frontier(n, records) \in Int
    <3>1. Pos(n) # Len(n.segments) + 1 => Pos(n) \in 1 .. Len(n.segments)
      BY <1>0, NativeFields DEF Shape, CursorOK
    <3>2. \A k \in 1 .. Len(n.segments) : n.segments[k].from \in Nat BY <1>0, NativeFields
    <3>3. n.offset \in Nat BY <1>0, NativeFields
    <3> QED BY <3>1, <3>2, <3>3 DEF Frontier
  <2>3. n.unread \in Nat BY <1>0, NativeFields
  <2> QED BY <1>1, <2>1, <2>2, <2>3 DEF Advances
<1>2. CASE n.active
  <2> DEFINE y == SealSegment(n)
             z == [y EXCEPT !.active = FALSE]
  <2>1. Finish(n) = z BY <1>2 DEF Finish
  <2>2. /\ Shape(y, records) /\ Advances(n, y, {}, records)
        /\ Len(y.segments) = Len(n.segments) /\ y.unread = n.unread
        /\ \A k \in 1 .. Len(n.segments) : y.segments[k].from = n.segments[k].from
    BY SealingKeepsTheShape
  <2> HIDE DEF y
  <2>3. /\ z \in NativeType /\ z.segments = y.segments /\ z.next = y.next
        /\ z.drain = y.drain /\ z.offset = y.offset /\ z.unread = y.unread
        /\ z.id = y.id /\ ~z.active
    BY <2>2 DEF Shape, NativeType
  <2> HIDE DEF z
  <2>4. Pos(z) = Pos(y) BY <2>3 DEF Pos
  <2>5. Shape(z, records) BY <2>2, <2>3, <2>4 DEF Shape, CursorOK
  <2>6. Frontier(z, records) = Frontier(y, records) BY <2>3, <2>4 DEF Frontier
  <2>7. Advances(n, z, {}, records) BY <2>2, <2>3, <2>4, <2>6 DEF Advances
  <2> QED BY <2>1, <2>2, <2>3, <2>5, <2>7
<1> QED BY <1>1, <1>2

\* A session without files: its cursor stands at the first segment to come.
Blank(n) == n.segments = <<>> /\ n.next = 0 /\ n.drain = 1 /\ n.offset = 0 /\ ~n.active

LEMMA BlankHasTheShape ==
  ASSUME NEW records \in Nat, NEW n \in NativeType, Blank(n)
  PROVE  Shape(n, records) /\ Frontier(n, records) = records + 1
<1>1. /\ n.segments = <<>> /\ Len(n.segments) = 0 /\ Pos(n) = 1 /\ n.offset = 0 /\ ~n.active
  BY DEF Blank, Pos
<1>2. 1 .. 0 = {} OBVIOUS
<1>3. Consecutive(n.segments, n.next, records) BY <1>1, <1>2 DEF Consecutive
<1>4. CursorOK(n)
  <2>1. 1 \in 1 .. 0 + 1 OBVIOUS
  <2> QED BY <1>1, <2>1 DEF CursorOK
<1> QED BY <1>1, <1>3, <1>4 DEF Shape, Frontier

LEMMA DeletingLeavesABlank ==
  ASSUME NEW n \in NativeType, ~n.active
  PROVE  /\ DeleteFiles(n) \in NativeType /\ Blank(DeleteFiles(n))
         /\ DeleteFiles(n).id = n.id /\ DeleteFiles(n).unread = n.unread
<1>1. <<>> \in Seq(SegmentType) OBVIOUS
<1> QED BY <1>1 DEF DeleteFiles, Blank, NativeType

LEMMA RetiringLeavesABlank ==
  ASSUME NEW records \in Nat, NEW n, Shape(n, records)
  PROVE  /\ Retired(n) \in NativeType /\ Blank(Retired(n)) /\ Retired(n).id = n.id
         /\ ShutDown(n) \in NativeType /\ Blank(ShutDown(n)) /\ ShutDown(n).id = 0
<1>1. Shape(Finish(n), records) /\ Advances(n, Finish(n), {}, records) /\ ~Finish(n).active
  BY FinishingKeepsTheShape
<1> DEFINE y == Evict(Finish(n))
<1>2. /\ Shape(y, records) /\ ~y.active
      /\ Advances(Finish(n), y, Unreached(Finish(n)), records)
  BY <1>1, EvictionKeepsTheShape
<1>3. y \in NativeType /\ ~y.active /\ y.id = n.id
  BY <1>1, <1>2 DEF Shape, Advances
<1>4. Retired(n) = DeleteFiles(y) BY DEF Retired
<1> HIDE DEF y
<1>5. /\ Retired(n) \in NativeType /\ Blank(Retired(n)) /\ Retired(n).id = n.id
  BY <1>3, <1>4, DeletingLeavesABlank
<1> DEFINE z == Retired(n)
<1>6. ShutDown(n) = [z EXCEPT !.id = 0] BY DEF ShutDown
<1> HIDE DEF z
<1>7. z \in NativeType /\ Blank(z) BY <1>5 DEF z
<1>8. [z EXCEPT !.id = 0] \in NativeType /\ Blank([z EXCEPT !.id = 0])
      /\ [z EXCEPT !.id = 0].id = 0
  BY <1>7 DEF NativeType, Blank
<1> QED BY <1>5, <1>6, <1>8

LEMMA StartingHasTheShape ==
  ASSUME NEW records \in Nat, NEW n, NEW id \in Nat, NEW mode \in {"sampled", "continuous"},
         Len(owner) = records
  PROVE  LET z == Started(n, id, mode)
         IN  /\ Shape(z, records) /\ z.id = id /\ Frontier(z, records) = records + 1
             /\ z.offset = 0 /\ Len(z.segments) = 1 /\ z.segments[1].from = records + 1
<1> DEFINE z == Started(n, id, mode)
           fresh == [NoNative EXCEPT !.id = id, !.mode = mode, !.active = TRUE]
           segment == [index |-> 1, from |-> records + 1, to |-> records, sealed |-> FALSE]
<1>0. NoNative \in NativeType /\ NoNative.segments = <<>> /\ NoNative.next = 0
      /\ NoNative.drain = 1 /\ NoNative.offset = 0
  <2>1. <<>> \in Seq(SegmentType) OBVIOUS
  <2> QED BY <2>1 DEF NoNative, NativeType
<1>1. /\ fresh \in NativeType /\ fresh.segments = <<>> /\ fresh.next = 0
      /\ fresh.drain = 1 /\ fresh.offset = 0 /\ fresh.id = id /\ fresh.active
  BY <1>0 DEF NativeType
<1> HIDE DEF fresh
<1>2. SealSegment(fresh) = fresh BY <1>1 DEF SealSegment
<1>3. z = [fresh EXCEPT !.next = 1, !.segments = <<segment>>]
  <2>1. z = OpenSegment(fresh, records) BY DEF Started, fresh
  <2>2. 0 + 1 = 1 /\ Append(<<>>, segment) = <<segment>> OBVIOUS
  <2>3. OpenSegment(fresh, records)
          = [fresh EXCEPT !.next = fresh.next + 1,
                          !.segments = Append(fresh.segments,
                             [index |-> fresh.next + 1, from |-> records + 1,
                              to |-> records, sealed |-> FALSE])]
    BY <1>2 DEF OpenSegment
  <2> QED BY <1>1, <2>1, <2>2, <2>3
<1>4. segment \in SegmentType BY DEF SegmentType
<1>5. z.segments = <<segment>> /\ Len(z.segments) = 1 /\ z.segments[1] = segment
      /\ z.next = 1 /\ z.drain = 1 /\ z.offset = 0 /\ z.id = id /\ z \in NativeType
  <2> HIDE DEF segment, z
  <2>1. <<segment>> \in Seq(SegmentType) /\ Len(<<segment>>) = 1 /\ <<segment>>[1] = segment
    BY <1>4
  <2> DEFINE q == <<segment>>
  <2>2. q \in Seq(SegmentType) BY <2>1
  <2>3. z = [fresh EXCEPT !.next = 1, !.segments = q] BY <1>3
  <2> HIDE DEF q
  <2>4. z.segments = q /\ z.next = 1 /\ z.drain = 1 /\ z.offset = 0 /\ z.id = id
        /\ z \in NativeType
    BY <1>1, <2>2, <2>3 DEF NativeType
  <2> QED BY <2>1, <2>4 DEF q
<1>6. z \in NativeType BY <1>5
<1> HIDE DEF z
<1>7. Pos(z) = 1 /\ 1 .. 1 = {1} BY <1>5 DEF Pos
<1>8. Consecutive(z.segments, z.next, records)
  BY <1>5, <1>7 DEF Consecutive
<1>9. CursorOK(z) BY <1>5, <1>7 DEF CursorOK
<1>10. Shape(z, records) BY <1>5, <1>6, <1>8, <1>9 DEF Shape
<1>11. Frontier(z, records) = records + 1
  <2>1. 0 \div 2 = 0 OBVIOUS
  <2> QED BY <1>5, <1>7, <2>1 DEF Frontier
<1> QED BY <1>5, <1>10, <1>11 DEF z

\* The engine writes a record into the open segment.
LEMMA WritingKeepsTheShape ==
  ASSUME NEW records \in Nat, NEW n, Shape(n, records), Capturing(n)
  PROVE  LET z == [n EXCEPT !.segments[Len(n.segments)].to = @ + 1]
         IN  /\ Shape(z, records + 1) /\ z.id = n.id /\ z.unread = n.unread
             /\ z.drain = n.drain /\ z.offset = n.offset
             /\ z.active = n.active /\ z.mode = n.mode
             /\ Frontier(z, records + 1) = Frontier(n, records)
             /\ Len(z.segments) = Len(n.segments)
             /\ \A k \in 1 .. Len(n.segments) : z.segments[k].from = n.segments[k].from
<1> DEFINE len == Len(n.segments)
           seg == n.segments
           q == [seg EXCEPT ![len].to = @ + 1]
           z == [n EXCEPT !.segments = q]
           p == Pos(n)
<1>0. n \in NativeType /\ Consecutive(seg, n.next, records) /\ CursorOK(n)
  BY DEF Shape
<1>1. /\ len \in Nat /\ seg \in Seq(SegmentType) /\ DOMAIN seg = 1 .. len
      /\ \A k \in 1 .. len : seg[k] \in SegmentType /\ seg[k].to \in Nat /\ seg[k].from \in Nat
      /\ p \in Int /\ n.offset \in Nat
  BY <1>0, NativeFields
<1>2. len > 0 /\ len \in 1 .. len /\ ~seg[len].sealed
  BY <1>1 DEF Capturing, Last
<1>3. /\ q \in Seq(SegmentType) /\ Len(q) = len
      /\ \A k \in 1 .. len : /\ q[k].index = seg[k].index /\ q[k].from = seg[k].from
                             /\ q[k].sealed = seg[k].sealed
                             /\ q[k].to = IF k = len THEN seg[k].to + 1 ELSE seg[k].to
  <2> DEFINE last == [seg[len] EXCEPT !.to = seg[len].to + 1]
  <2>1. last \in SegmentType /\ last.index = seg[len].index /\ last.from = seg[len].from
        /\ last.sealed = seg[len].sealed /\ last.to = seg[len].to + 1
    <3> DEFINE x == seg[len]
    <3>1. x \in SegmentType /\ x.to + 1 \in Nat BY <1>1, <1>2
    <3>2. last = [x EXCEPT !.to = x.to + 1] OBVIOUS
    <3> HIDE DEF x
    <3>3. /\ [x EXCEPT !.to = x.to + 1] \in SegmentType
          /\ [x EXCEPT !.to = x.to + 1].index = x.index
          /\ [x EXCEPT !.to = x.to + 1].from = x.from
          /\ [x EXCEPT !.to = x.to + 1].sealed = x.sealed
          /\ [x EXCEPT !.to = x.to + 1].to = x.to + 1
      BY <3>1 DEF SegmentType
    <3> QED BY <3>2, <3>3 DEF x
  <2>2. q = [seg EXCEPT ![len] = last] OBVIOUS
  <2> HIDE DEF last, q, len, seg
  <2>3. q \in Seq(SegmentType) /\ Len(q) = len BY <1>1, <1>2, <2>1, <2>2 DEF len
  <2>4. \A k \in 1 .. len : q[k] = IF k = len THEN last ELSE seg[k] BY <1>1, <2>2
  <2> QED BY <2>1, <2>3, <2>4
<1>4. z = [n EXCEPT !.segments[Len(n.segments)].to = @ + 1] OBVIOUS
<1> HIDE DEF q
<1>5. /\ z \in NativeType /\ z.segments = q /\ z.next = n.next /\ z.id = n.id
      /\ z.unread = n.unread /\ z.drain = n.drain /\ z.offset = n.offset
      /\ z.active = n.active /\ z.mode = n.mode
  BY <1>0, <1>3 DEF NativeType
<1> HIDE DEF z, seg, len, p
<1>6. Pos(z) = p /\ p \in 1 .. len BY <1>0, <1>1, <1>2, <1>3, <1>5 DEF Pos, CursorOK, seg, len, p
<1>7. seg[len].to = records BY <1>0, <1>2 DEF Consecutive, len, seg
<1>8. Consecutive(q, n.next, records + 1)
  <2>1. ASSUME NEW k \in 1 .. len
        PROVE  /\ q[k].index = n.next - len + k
               /\ 1 <= q[k].from /\ q[k].from <= q[k].to + 1 /\ q[k].to <= records + 1
    <3>1. /\ seg[k].index = n.next - len + k
          /\ 1 <= seg[k].from /\ seg[k].from <= seg[k].to + 1 /\ seg[k].to <= records
      BY <1>0 DEF Consecutive, len, seg
    <3> QED BY <1>1, <1>3, <3>1
  <2>2. ASSUME NEW j \in 1 .. len, NEW k \in 1 .. len, j < k
        PROVE  /\ q[j].sealed /\ q[j].to < q[k].from /\ (k = j + 1 => q[k].from = q[j].to + 1)
    <3>1. /\ seg[j].sealed /\ seg[j].to < seg[k].from
          /\ (k = j + 1 => seg[k].from = seg[j].to + 1)
      BY <1>0, <2>2 DEF Consecutive, len, seg
    <3>2. j # len BY <1>1, <2>2
    <3> QED BY <1>1, <1>3, <3>1, <3>2
  <2>3. q[len].to = records + 1 BY <1>2, <1>3, <1>7
  <2> QED BY <1>3, <2>1, <2>2, <2>3 DEF Consecutive
<1>9. n.offset > 0 => p # len
  BY <1>0, <1>2 DEF CursorOK, p, len, seg
<1>10. CursorOK(z)
  <2>1. p \in 1 .. len + 1 /\ p # len + 1 /\ p <= len BY <1>1, <1>6
  <2>2. CASE n.offset > 0
    <3>1. /\ seg[p].sealed /\ n.offset < 2 * (seg[p].to - seg[p].from + 1)
      BY <1>0, <2>2 DEF CursorOK, p, seg
    <3>2. /\ q[p].sealed /\ n.offset < 2 * (q[p].to - q[p].from + 1)
      BY <1>3, <1>6, <1>9, <2>2, <3>1
    <3> QED BY <1>3, <1>5, <1>6, <2>1, <3>2 DEF CursorOK
  <2>3. CASE ~(n.offset > 0) BY <1>3, <1>5, <1>6, <2>1, <2>3 DEF CursorOK
  <2> QED BY <2>2, <2>3
<1>11. Shape(z, records + 1) BY <1>2, <1>3, <1>5, <1>8, <1>10 DEF Shape
<1>12. Frontier(z, records + 1) = Frontier(n, records)
  <2>1. p # len + 1 BY <1>1, <1>6
  <2>2. Frontier(z, records + 1) = q[p].from + n.offset \div 2
    BY <1>3, <1>5, <1>6, <2>1 DEF Frontier
  <2>3. Frontier(n, records) = seg[p].from + n.offset \div 2
    BY <2>1 DEF Frontier, p, len, seg
  <2> QED BY <1>3, <1>6, <2>2, <2>3
<1> QED BY <1>3, <1>4, <1>5, <1>11, <1>12 DEF seg, len

(***************************************************************************)
(* What a thread's call is made of at each point.                          *)
(***************************************************************************)
Mode == {"sampled", "continuous"}

ManifestType == [id : Nat, mode : Mode, stopped : BOOLEAN, dropped : Nat, gaps : Nat,
                 malformed : Nat, unread : Nat]

ChunkType == {c \in [seg : Nat, offset : Nat, data : Seq(Cell), size : Nat] : ChunkOK(c)}

Idle == [pc : {"idle"}]
Plain == [pc : {"carry", "page", "persist", "sched", "native", "commit"},
          tool : Collector, obj : Nat, cursor : BOOLEAN]
Carrying == [pc : {"drain", "keep"}, tool : Collector, obj : Nat, cursor : BOOLEAN,
             seg : Nat, carry : Seq(Cell), read : Nat, sealing : BOOLEAN]
Feeding == [pc : {"feed"}, tool : Collector, obj : Nat, cursor : BOOLEAN, seg : Nat,
            carry : Seq(Cell), read : Nat, chunk : ChunkType, unread : Nat, done : BOOLEAN]
Starting == [pc : {"sched", "native", "commit"}, tool : {"start"}, id : Nat, mode : Mode]
Loading == [pc : {"sched", "native", "commit"}, tool : {"load"}]
Opened == [pc : {"persist"}, tool : {"start"}, obj : Nat]
Saving == [pc : {"save"}, manifest : ManifestType]
Recovering == [pc : {"check", "replace"}, manifest : ManifestType]

CallType == Idle \cup Plain \cup Carrying \cup Feeding \cup Starting \cup Loading
            \cup Opened \cup Saving \cup Recovering

\* The call is about a session object.
About(c) == \/ c.pc \in {"carry", "drain", "feed", "keep", "page", "persist"}
            \/ c.pc \in {"sched", "native", "commit"} /\ c.tool = "stop"

\* objects session objects exist, and ids session ids were given out.
CallOK(c, objects, given) ==
  /\ c \in CallType
  /\ About(c) => c.obj \in 1 .. objects
  /\ c.pc \in {"drain", "feed", "keep"} => Len(c.carry) < 2
  /\ c.pc \in {"sched", "native", "commit"} =>
       /\ c.tool \in {"start", "load", "stop"}
       /\ c.tool = "start" => c.id \in 1 .. given

LEMMA CallKinds ==
  ASSUME NEW c \in CallType
  PROVE  /\ c.pc \in {"carry", "page"} => c \in Plain
         /\ c.pc \in {"drain", "keep"} => c \in Carrying
         /\ c.pc = "feed" => c \in Feeding
         /\ c.pc = "persist" => c \in Plain \/ c \in Opened
         /\ c.pc \in {"sched", "native", "commit"} =>
              \/ c \in Starting /\ c.tool = "start"
              \/ c \in Loading /\ c.tool = "load"
              \/ c \in Plain /\ c.tool \in Collector
         /\ c.pc = "save" => c \in Saving
         /\ c.pc \in {"check", "replace"} => c \in Recovering
         /\ c.pc = "idle" => c \in Idle
<1>1. c \in Idle => c.pc = "idle" BY DEF Idle
<1>2. c \in Plain => /\ c.pc \in {"carry", "page", "persist", "sched", "native", "commit"}
                     /\ c.tool \in Collector
  BY DEF Plain
<1>3. c \in Carrying => c.pc \in {"drain", "keep"} BY DEF Carrying
<1>4. c \in Feeding => c.pc = "feed" BY DEF Feeding
<1>5. c \in Starting => c.pc \in {"sched", "native", "commit"} /\ c.tool = "start"
  BY DEF Starting
<1>6. c \in Loading => c.pc \in {"sched", "native", "commit"} /\ c.tool = "load"
  BY DEF Loading
<1>7. c \in Opened => c.pc = "persist" BY DEF Opened
<1>8. c \in Saving => c.pc = "save" BY DEF Saving
<1>9. c \in Recovering => c.pc \in {"check", "replace"} BY DEF Recovering
<1>10. \/ c \in Idle \/ c \in Plain \/ c \in Carrying \/ c \in Feeding \/ c \in Starting
       \/ c \in Loading \/ c \in Opened \/ c \in Saving \/ c \in Recovering
  BY DEF CallType
<1> QED BY <1>1, <1>2, <1>3, <1>4, <1>5, <1>6, <1>7, <1>8, <1>9, <1>10

LEMMA IdleCall ==
  ASSUME NEW objects, NEW given
  PROVE  CallOK([pc |-> "idle"], objects, given)
<1> DEFINE d == [pc |-> "idle"]
<1>1. d \in Idle /\ d.pc = "idle" BY DEF Idle
<1> HIDE DEF d
<1>2. ~About(d) BY <1>1 DEF About
<1> QED BY <1>1, <1>2 DEF CallOK, CallType, d

\* The next step of a call.
LEMMA CallMoves ==
  ASSUME NEW objects, NEW given, NEW c, CallOK(c, objects, given)
  PROVE  /\ c.pc = "sched" => CallOK([c EXCEPT !.pc = "native"], objects, given)
         /\ c.pc = "native" => CallOK([c EXCEPT !.pc = "commit"], objects, given)
         /\ c.pc = "page" => CallOK([c EXCEPT !.pc = "persist"], objects, given)
         /\ c.pc = "check" => CallOK([c EXCEPT !.pc = "replace"], objects, given)
         /\ CallOK([pc |-> "idle"], objects, given)
<1>0. c \in CallType BY DEF CallOK
<1>1. ASSUME NEW pc \in {"native", "commit"}, c.pc \in {"sched", "native"}
      PROVE  CallOK([c EXCEPT !.pc = pc], objects, given)
  <2> DEFINE d == [c EXCEPT !.pc = pc]
  <2>1. CASE c \in Starting /\ c.tool = "start"
    <3>1. d \in Starting /\ d.pc = pc /\ d.tool = "start" /\ d.id = c.id
      BY <1>1, <2>1 DEF Starting
    <3> HIDE DEF d
    <3>2. ~About(d) BY <3>1 DEF About
    <3>3. CallOK(d, objects, given) BY <1>1, <2>1, <3>1, <3>2 DEF CallOK, CallType
    <3> QED BY <3>3 DEF d
  <2>2. CASE c \in Loading /\ c.tool = "load"
    <3>1. d \in Loading /\ d.pc = pc /\ d.tool = "load"
      BY <1>1, <2>2 DEF Loading
    <3> HIDE DEF d
    <3>2. ~About(d) BY <3>1 DEF About
    <3>3. CallOK(d, objects, given) BY <1>1, <3>1, <3>2 DEF CallOK, CallType
    <3> QED BY <3>3 DEF d
  <2>3. CASE c \in Plain /\ c.tool \in Collector
    <3>1. d \in Plain /\ d.pc = pc /\ d.tool = c.tool /\ d.obj = c.obj
      BY <1>1, <2>3 DEF Plain
    <3>2. c.tool = "stop" BY <1>1, <2>3 DEF CallOK, Collector
    <3> HIDE DEF d
    <3>3. c.obj \in 1 .. objects BY <1>1, <3>2 DEF CallOK, About
    <3>4. CallOK(d, objects, given) BY <1>1, <3>1, <3>2, <3>3 DEF CallOK, CallType
    <3> QED BY <3>4 DEF d
  <2> QED BY <1>0, <1>1, <2>1, <2>2, <2>3, CallKinds
<1>2. ASSUME c.pc = "page" PROVE CallOK([c EXCEPT !.pc = "persist"], objects, given)
  <2> DEFINE d == [c EXCEPT !.pc = "persist"]
  <2>1. c \in Plain BY <1>0, <1>2, CallKinds
  <2>2. d \in Plain /\ d.pc = "persist" /\ d.obj = c.obj BY <2>1 DEF Plain
  <2>3. c.obj \in 1 .. objects BY <1>2 DEF CallOK, About
  <2> HIDE DEF d
  <2>4. CallOK(d, objects, given) BY <2>2, <2>3 DEF CallOK, CallType
  <2> QED BY <2>4 DEF d
<1>3. ASSUME c.pc = "check" PROVE CallOK([c EXCEPT !.pc = "replace"], objects, given)
  <2> DEFINE d == [c EXCEPT !.pc = "replace"]
  <2>1. c \in Recovering BY <1>0, <1>3, CallKinds
  <2>2. d \in Recovering /\ d.pc = "replace" BY <2>1 DEF Recovering
  <2> HIDE DEF d
  <2>3. ~About(d) BY <2>2 DEF About
  <2>4. CallOK(d, objects, given) BY <2>2, <2>3 DEF CallOK, CallType
  <2> QED BY <2>4 DEF d
<1>4. CallOK([pc |-> "idle"], objects, given) BY IdleCall
<1> QED BY <1>1, <1>2, <1>3, <1>4

(***************************************************************************)
(* The invariant behind the types.                                         *)
(***************************************************************************)
ObjectOK(s) == s \in SessionType /\ Ring(s) /\ Len(s.carry) < 2

NativeInv ==
  /\ owner \in Seq(Nat) /\ Len(owner) <= MaxRecords
  /\ Shape(native, Len(owner)) /\ ids \in Nat /\ native.id <= ids
  /\ gone \subseteq 1 .. Len(owner)

ObjectsInv ==
  /\ sessions \in Seq(SessionType)
  /\ \A i \in 1 .. Len(sessions) : ObjectOK(sessions[i])
  /\ current \in 0 .. Len(sessions)

CallsInv ==
  /\ call \in [Thread -> CallType]
  /\ \A t \in Thread : CallOK(call[t], Len(sessions), ids)
  /\ sched \in Thread \cup {None}
  /\ manifests \in [SessionIds -> ManifestType \cup {None}]

TypeInv == NativeInv /\ ObjectsInv /\ CallsInv

\* The objects are never taken away, nor what was fed to them.
Grown(S, T) ==
  /\ Len(S) <= Len(T)
  /\ \A i \in 1 .. Len(S) : Later(S[i], T[i])

LEMMA GrownIsReflexive ==
  ASSUME NEW S \in Seq(SessionType)
  PROVE  Grown(S, S)
<1>1. \A i \in 1 .. Len(S) : S[i] \in SessionType OBVIOUS
<1>2. ASSUME NEW s \in SessionType PROVE Later(s, s)
  <2>1. Len(s.fed) \in Nat /\ OldestSequence(s) \in Int BY SessionFields
  <2> QED BY <2>1 DEF Later
<1>3. Len(S) \in Nat OBVIOUS
<1> QED BY <1>1, <1>2, <1>3 DEF Grown

LEMMA CallsStep ==
  ASSUME CallsInv, ObjectsInv, ids \in Nat,
         NEW t \in Thread, NEW c, call' = [call EXCEPT ![t] = c],
         Len(sessions') \in Nat, Len(sessions) <= Len(sessions'),
         ids' \in Nat, ids <= ids', CallOK(c, Len(sessions'), ids'),
         sched' \in Thread \cup {None}, manifests' = manifests
  PROVE  CallsInv'
<1>0. Len(sessions) \in Nat BY DEF ObjectsInv
<1>1. c \in CallType BY DEF CallOK
<1>2. call' \in [Thread -> CallType] BY <1>1 DEF CallsInv
<1>3. ASSUME NEW u \in Thread PROVE CallOK(call'[u], Len(sessions'), ids')
  <2>1. CASE u = t BY <2>1 DEF CallsInv
  <2>2. CASE u # t
    <3>1. call'[u] = call[u] BY <2>2 DEF CallsInv
    <3>2. CallOK(call[u], Len(sessions), ids) BY DEF CallsInv
    <3>3. ASSUME NEW i, i \in 1 .. Len(sessions) PROVE i \in 1 .. Len(sessions')
      BY ONLY <1>0, <3>3, Len(sessions') \in Nat, Len(sessions) <= Len(sessions')
    <3>4. ASSUME NEW i, i \in 1 .. ids PROVE i \in 1 .. ids'
      BY ONLY <3>4, ids \in Nat, ids' \in Nat, ids <= ids'
    <3> QED BY <3>1, <3>2, <3>3, <3>4 DEF CallOK
  <2> QED BY <2>1, <2>2
<1> QED BY <1>2, <1>3 DEF CallsInv

LEMMA CallsStay ==
  ASSUME CallsInv, call' = call, sessions' = sessions, ids' = ids,
         sched' = sched, manifests' = manifests
  PROVE  CallsInv'
BY DEF CallsInv

LEMMA NativeStays ==
  ASSUME NativeInv, native' = native, owner' = owner, gone' = gone,
         ids' \in Nat, ids <= ids'
  PROVE  NativeInv'
<1>1. native.id \in Nat /\ ids \in Nat BY NativeFields DEF NativeInv, Shape
<1>2. native.id <= ids' BY <1>1 DEF NativeInv
<1> QED BY <1>2 DEF NativeInv

LEMMA ObjectStep ==
  ASSUME ObjectsInv, NEW i \in 1 .. Len(sessions), NEW z, ObjectOK(z),
         sessions' = [sessions EXCEPT ![i] = z], current' = current,
         Later(sessions[i], z)
  PROVE  /\ ObjectsInv' /\ Len(sessions') = Len(sessions) /\ Grown(sessions, sessions')
         /\ sessions'[i] = z
         /\ \A j \in 1 .. Len(sessions) : j # i => sessions'[j] = sessions[j]
<1>1. sessions \in Seq(SessionType) /\ Len(sessions) \in Nat BY DEF ObjectsInv
<1>2. z \in SessionType BY DEF ObjectOK
<1>3. /\ sessions' \in Seq(SessionType) /\ Len(sessions') = Len(sessions)
      /\ sessions'[i] = z
      /\ \A j \in 1 .. Len(sessions) : j # i => sessions'[j] = sessions[j]
  BY <1>1, <1>2
<1>4. ObjectsInv'
  <2>1. \A j \in 1 .. Len(sessions) : ObjectOK(sessions'[j]) BY <1>3 DEF ObjectsInv
  <2> QED BY <1>3, <2>1 DEF ObjectsInv
<1>5. Grown(sessions, sessions')
  <2>1. Grown(sessions, sessions) BY <1>1, GrownIsReflexive
  <2> QED BY <1>1, <1>3, <2>1 DEF Grown
<1> QED BY <1>3, <1>4, <1>5

LEMMA ObjectAdded ==
  ASSUME ObjectsInv, NEW z, ObjectOK(z),
         sessions' = Append(sessions, z), current' = Len(sessions) + 1
  PROVE  /\ ObjectsInv' /\ Len(sessions') = Len(sessions) + 1 /\ Grown(sessions, sessions')
         /\ sessions'[Len(sessions) + 1] = z
         /\ \A j \in 1 .. Len(sessions) : sessions'[j] = sessions[j]
<1>1. sessions \in Seq(SessionType) /\ Len(sessions) \in Nat BY DEF ObjectsInv
<1>2. z \in SessionType BY DEF ObjectOK
<1>3. /\ sessions' \in Seq(SessionType) /\ Len(sessions') = Len(sessions) + 1
      /\ sessions'[Len(sessions) + 1] = z
      /\ \A j \in 1 .. Len(sessions) : sessions'[j] = sessions[j]
  BY <1>1, <1>2
<1>4. ObjectsInv'
  <2>1. ASSUME NEW j \in 1 .. Len(sessions) + 1 PROVE ObjectOK(sessions'[j])
    <3>1. j = Len(sessions) + 1 \/ j \in 1 .. Len(sessions) BY <1>1
    <3> QED BY <1>3, <3>1 DEF ObjectsInv
  <2>2. Len(sessions) + 1 \in 0 .. Len(sessions) + 1 BY <1>1
  <2> QED BY <1>3, <2>1, <2>2 DEF ObjectsInv
<1>5. Grown(sessions, sessions')
  <2>1. Grown(sessions, sessions) BY <1>1, GrownIsReflexive
  <2>2. Len(sessions) <= Len(sessions) + 1 BY <1>1
  <2> QED BY <1>1, <1>3, <2>1, <2>2 DEF Grown
<1> QED BY <1>3, <1>4, <1>5

LEMMA ObjectsStay ==
  ASSUME ObjectsInv, sessions' = sessions, current' = current
  PROVE  ObjectsInv' /\ Grown(sessions, sessions')
BY GrownIsReflexive DEF ObjectsInv

(***************************************************************************)
(* The actions on the native session.                                      *)
(***************************************************************************)
LEMMA UnreachedIsWritten ==
  ASSUME NEW records \in Nat, NEW n, Shape(n, records)
  PROVE  Unreached(n) \subseteq 1 .. records
<1>1. /\ Unreached(n) \subseteq n.segments[1].from .. records
      /\ Unreached(n) # {} => Len(n.segments) > 0
  BY EvictionKeepsTheShape
<1>2. Len(n.segments) \in Nat BY NativeFields DEF Shape
<1>3. ASSUME Len(n.segments) > 0
      PROVE  n.segments[1].from \in Nat /\ 1 <= n.segments[1].from
  <2>1. 1 \in 1 .. Len(n.segments) BY <1>2, <1>3
  <2> QED BY <2>1, NativeFields DEF Shape, Consecutive
<1> QED BY <1>1, <1>3

LEMMA EvictingKeepsNative ==
  ASSUME NativeInv, NEW n, Shape(n, Len(owner)), n.id = native.id, Evicting(n),
         owner' = owner, ids' = ids
  PROVE  NativeInv'
<1>1. Len(owner) \in Nat BY DEF NativeInv
<1>2. Shape(Evict(n), Len(owner)) /\ Evict(n).id = native.id
  BY <1>1, EvictionKeepsTheShape DEF Advances
<1>3. Unreached(n) \subseteq 1 .. Len(owner) BY <1>1, UnreachedIsWritten
<1> QED BY <1>2, <1>3 DEF NativeInv, Evicting

LEMMA SealedHasTheShape ==
  ASSUME NEW n, Shape(n, Len(owner)), Len(owner) \in Nat, NEW sealing
  PROVE  /\ Shape(Sealed(n, sealing), Len(owner))
         /\ Advances(n, Sealed(n, sealing), {}, Len(owner))
         /\ Sealed(n, sealing).unread = n.unread
<1>1. /\ Shape(SealSegment(n), Len(owner)) /\ Advances(n, SealSegment(n), {}, Len(owner))
      /\ SealSegment(n).unread = n.unread
  BY SealingKeepsTheShape
<1>2. /\ Shape(RotateSegment(n), Len(owner)) /\ Advances(n, RotateSegment(n), {}, Len(owner))
      /\ RotateSegment(n).unread = n.unread
  BY OpeningKeepsTheShape DEF RotateSegment
<1>3. Advances(n, n, {}, Len(owner))
  <2>1. n.unread \in Nat BY NativeFields DEF Shape
  <2>2. Frontier(n, Len(owner)) \in Int
    <3>1. Pos(n) # Len(n.segments) + 1 => Pos(n) \in 1 .. Len(n.segments)
      BY NativeFields DEF Shape, CursorOK
    <3>2. \A k \in 1 .. Len(n.segments) : n.segments[k].from \in Nat
      BY NativeFields DEF Shape
    <3>3. n.offset \in Nat BY NativeFields DEF Shape
    <3> QED BY <3>1, <3>2, <3>3 DEF Frontier
  <2> QED BY <2>1, <2>2 DEF Advances
<1> QED BY <1>1, <1>2, <1>3 DEF Sealed

LEMMA EmulatorKeepsTypes ==
  ASSUME TypeInv, Emulator
  PROVE  TypeInv' /\ Grown(sessions, sessions') /\ reader' = reader
<1>0. NativeInv /\ ObjectsInv /\ CallsInv BY DEF TypeInv
<1>1. Len(owner) \in Nat /\ owner \in Seq(Nat) /\ Shape(native, Len(owner))
      /\ native.id \in Nat /\ MaxRecords \in Nat
  BY NativeFields, SessionAssumption DEF NativeInv, TypeInv, Shape
<1>2. /\ UNCHANGED <<serverVars, manifests, call, reader>> /\ ids' = ids
  BY DEF Emulator, WriteRecord, Rotate, CloseWindow, FrameLimit, ProcessorGone, boundVars
<1>3. ObjectsInv' /\ CallsInv' /\ Grown(sessions, sessions')
  BY <1>0, <1>2, ObjectsStay, CallsStay DEF serverVars
<1>4. NativeInv'
  <2>1. CASE WriteRecord
    <3> DEFINE z == [native EXCEPT !.segments[Len(native.segments)].to = @ + 1]
    <3>1. Shape(z, Len(owner) + 1) /\ z.id = native.id
      BY <1>1, <2>1, WritingKeepsTheShape DEF WriteRecord
    <3>2. native' = z BY <2>1 DEF WriteRecord
    <3> HIDE DEF z
    <3>3. owner' = Append(owner, native.id) /\ gone' = gone /\ Len(owner) < MaxRecords
      BY <2>1 DEF WriteRecord
    <3>4. owner' \in Seq(Nat) /\ Len(owner') = Len(owner) + 1 BY <1>1, <3>3
    <3>5. gone' \subseteq 1 .. Len(owner) + 1 BY <1>0, <1>1, <3>3 DEF NativeInv
    <3>6. Len(owner') <= MaxRecords BY ONLY <1>1, <3>3, <3>4
    <3> QED BY <1>0, <1>2, <3>1, <3>2, <3>4, <3>5, <3>6 DEF NativeInv
  <2>2. CASE Rotate
    <3>1. Evicting(RotateSegment(native)) /\ owner' = owner BY <2>2 DEF Rotate
    <3>2. Shape(RotateSegment(native), Len(owner)) /\ RotateSegment(native).id = native.id
      BY <1>1, OpeningKeepsTheShape DEF RotateSegment, Advances
    <3> QED BY <1>0, <1>2, <3>1, <3>2, EvictingKeepsNative
  <2>3. CASE CloseWindow
    <3>1. Evicting(SealSegment(native)) /\ owner' = owner BY <2>3 DEF CloseWindow
    <3>2. Shape(SealSegment(native), Len(owner)) /\ SealSegment(native).id = native.id
      BY <1>1, SealingKeepsTheShape DEF Advances
    <3> QED BY <1>0, <1>2, <3>1, <3>2, EvictingKeepsNative
  <2>4. CASE FrameLimit
    <3>1. Evicting(Finish(native)) /\ owner' = owner BY <2>4 DEF FrameLimit
    <3>2. Shape(Finish(native), Len(owner)) /\ Finish(native).id = native.id
      BY <1>1, FinishingKeepsTheShape DEF Advances
    <3> QED BY <1>0, <1>2, <3>1, <3>2, EvictingKeepsNative
  <2>5. CASE ProcessorGone
    <3> DEFINE z == [native EXCEPT !.active = FALSE]
    <3>1. native \in NativeType BY <1>1 DEF Shape
    <3>2. /\ z \in NativeType /\ z.segments = native.segments /\ z.next = native.next
          /\ z.drain = native.drain /\ z.offset = native.offset /\ ~z.active
          /\ z.id = native.id
      BY <3>1 DEF NativeType
    <3>3. native' = z /\ owner' = owner /\ gone' = gone BY <2>5 DEF ProcessorGone
    <3> HIDE DEF z
    <3>4. Shape(z, Len(owner))
      <4>1. Pos(z) = Pos(native) BY <3>2 DEF Pos
      <4> QED BY <1>1, <3>2, <4>1 DEF Shape, CursorOK
    <3> QED BY <1>0, <1>2, <3>2, <3>3, <3>4 DEF NativeInv
  <2> QED BY <2>1, <2>2, <2>3, <2>4, <2>5 DEF Emulator
<1> QED BY <1>2, <1>3, <1>4 DEF TypeInv

(***************************************************************************)
(* The steps of a collection.                                              *)
(***************************************************************************)
LEMMA ObjectUpdates ==
  ASSUME NEW s, ObjectOK(s)
  PROVE  /\ \A b \in BOOLEAN : ObjectOK([s EXCEPT !.clean = b])
                               /\ Later(s, [s EXCEPT !.clean = b])
         /\ ObjectOK(MarkStopped(s)) /\ Later(s, MarkStopped(s))
         /\ \A g \in Nat, h \in Seq(Cell) : Len(h) < 2 =>
              /\ ObjectOK([s EXCEPT !.cseg = g, !.carry = h])
              /\ Later(s, [s EXCEPT !.cseg = g, !.carry = h])
         /\ \A m \in Nat, u \in Nat :
              /\ ObjectOK([s EXCEPT !.malformed = m, !.unread = u])
              /\ Later(s, [s EXCEPT !.malformed = m, !.unread = u])
<1>0. s \in SessionType /\ Ring(s) /\ Len(s.carry) < 2 BY DEF ObjectOK
<1>1. ASSUME NEW z \in SessionType, z.fed = s.fed, z.count = s.count,
             z.dropped = s.dropped, z.stopped = s.stopped \/ z.stopped,
             Len(z.carry) < 2
      PROVE  ObjectOK(z) /\ Later(s, z)
  <2>1. Ring(z) BY <1>0, <1>1 DEF Ring
  <2>2. Len(s.fed) \in Nat /\ OldestSequence(s) \in Int BY <1>0, SessionFields
  <2>3. OldestSequence(z) = OldestSequence(s) BY <1>1 DEF OldestSequence
  <2> QED BY <1>1, <2>1, <2>2, <2>3 DEF ObjectOK, Later
<1>2. ASSUME NEW b \in BOOLEAN
      PROVE  ObjectOK([s EXCEPT !.clean = b]) /\ Later(s, [s EXCEPT !.clean = b])
  <2> DEFINE z == [s EXCEPT !.clean = b]
  <2>1. /\ z \in SessionType /\ z.fed = s.fed /\ z.count = s.count
        /\ z.dropped = s.dropped /\ z.stopped = s.stopped /\ z.carry = s.carry
    BY <1>0 DEF SessionType
  <2> HIDE DEF z
  <2>2. ObjectOK(z) /\ Later(s, z) BY <1>0, <1>1, <2>1
  <2> QED BY <2>2 DEF z
<1>3. ObjectOK(MarkStopped(s)) /\ Later(s, MarkStopped(s))
  <2> DEFINE z == MarkStopped(s)
  <2>1. /\ z \in SessionType /\ z.fed = s.fed /\ z.count = s.count
        /\ z.dropped = s.dropped /\ z.stopped /\ z.carry = s.carry
    BY <1>0 DEF SessionType, MarkStopped
  <2> HIDE DEF z
  <2>2. ObjectOK(z) /\ Later(s, z) BY <1>0, <1>1, <2>1
  <2> QED BY <2>2 DEF z
<1>4. ASSUME NEW g \in Nat, NEW h \in Seq(Cell), Len(h) < 2
      PROVE  /\ ObjectOK([s EXCEPT !.cseg = g, !.carry = h])
             /\ Later(s, [s EXCEPT !.cseg = g, !.carry = h])
  <2> DEFINE z == [s EXCEPT !.cseg = g, !.carry = h]
  <2>1. /\ z \in SessionType /\ z.fed = s.fed /\ z.count = s.count
        /\ z.dropped = s.dropped /\ z.stopped = s.stopped /\ z.carry = h
    BY <1>0 DEF SessionType
  <2> HIDE DEF z
  <2>2. ObjectOK(z) /\ Later(s, z) BY <1>1, <1>4, <2>1
  <2> QED BY <2>2 DEF z
<1>5. ASSUME NEW m \in Nat, NEW u \in Nat
      PROVE  /\ ObjectOK([s EXCEPT !.malformed = m, !.unread = u])
             /\ Later(s, [s EXCEPT !.malformed = m, !.unread = u])
  <2> DEFINE z == [s EXCEPT !.malformed = m, !.unread = u]
  <2>1. /\ z \in SessionType /\ z.fed = s.fed /\ z.count = s.count
        /\ z.dropped = s.dropped /\ z.stopped = s.stopped /\ z.carry = s.carry
    BY <1>0 DEF SessionType
  <2> HIDE DEF z
  <2>2. ObjectOK(z) /\ Later(s, z) BY <1>0, <1>1, <2>1
  <2> QED BY <2>2 DEF z
<1> QED BY <1>2, <1>3, <1>4, <1>5

LEMMA PlainCall ==
  ASSUME NEW pc \in {"carry", "page", "persist", "sched"}, NEW tool \in Collector,
         NEW objects \in Nat, NEW obj \in 1 .. objects, NEW cursor \in BOOLEAN, NEW given,
         pc = "sched" => tool = "stop"
  PROVE  CallOK([pc |-> pc, tool |-> tool, obj |-> obj, cursor |-> cursor], objects, given)
<1> DEFINE c == [pc |-> pc, tool |-> tool, obj |-> obj, cursor |-> cursor]
<1>1. c.pc = pc /\ c.tool = tool /\ c.obj = obj /\ c \in Plain BY DEF Plain
<1> HIDE DEF c
<1>2. CallOK(c, objects, given) BY <1>1 DEF CallOK, CallType
<1> QED BY <1>2 DEF c

LEMMA BeginKeepsTypes ==
  ASSUME TypeInv, NEW t \in Thread, NEW tool \in Collector, NEW cursor \in BOOLEAN,
         NEW collect \in BOOLEAN, Begin(t, tool, cursor, collect)
  PROVE  TypeInv' /\ Grown(sessions, sessions')
<1>0. NativeInv /\ ObjectsInv /\ CallsInv /\ ids \in Nat /\ Len(sessions) \in Nat
  BY DEF TypeInv, NativeInv, ObjectsInv
<1> DEFINE pc == IF collect THEN "carry" ELSE AfterStatus[tool]
           c == [pc |-> pc, tool |-> tool, obj |-> current, cursor |-> cursor]
<1>1. call' = [call EXCEPT ![t] = c] BY DEF Begin
<1>2. UNCHANGED <<native, owner, gone, serverVars, manifests, ids>> BY DEF Begin
<1>3. pc \in {"carry", "page", "persist", "sched"} /\ (pc = "sched" => tool = "stop")
  BY DEF AfterStatus, Collector
<1>4. current \in 1 .. Len(sessions) BY <1>0 DEF Begin, ObjectsInv
<1>5. CallOK(c, Len(sessions), ids) BY <1>0, <1>3, <1>4, PlainCall
<1> HIDE DEF c
<1>6. ObjectsInv' /\ Grown(sessions, sessions') BY <1>0, <1>2, ObjectsStay DEF serverVars
<1>7. NativeInv' BY <1>0, <1>2, NativeStays
<1>8. CallsInv'
  <2>1. sessions' = sessions /\ ids' = ids /\ sched' = sched /\ manifests' = manifests
    BY <1>2 DEF serverVars
  <2>2. Len(sessions) <= Len(sessions) /\ ids <= ids BY <1>0
  <2> QED BY <1>0, <1>1, <1>5, <2>1, <2>2, CallsStep DEF CallsInv
<1> QED BY <1>6, <1>7, <1>8 DEF TypeInv

LEMMA ReadCarryKeepsTypes ==
  ASSUME TypeInv, NEW t \in Thread, ReadCarry(t)
  PROVE  TypeInv' /\ Grown(sessions, sessions')
<1>0. NativeInv /\ ObjectsInv /\ CallsInv /\ ids \in Nat /\ Len(sessions) \in Nat
  BY DEF TypeInv, NativeInv, ObjectsInv
<1> DEFINE b == call[t]
           obj == b.obj
           s == sessions[obj]
           c == [pc |-> "drain", tool |-> b.tool, obj |-> obj, cursor |-> b.cursor,
                 seg |-> s.cseg, carry |-> s.carry, read |-> 0, sealing |-> TRUE]
<1>1. b \in Plain /\ obj \in 1 .. Len(sessions)
  BY <1>0, CallKinds DEF ReadCarry, CallsInv, CallOK, About
<1>2. ObjectOK(s) /\ s \in SessionType /\ s.clean \in BOOLEAN /\ s.cseg \in Nat
      /\ s.carry \in Seq(Cell) /\ Len(s.carry) < 2
  BY <1>0, <1>1, SessionFields DEF ObjectsInv, ObjectOK
<1>3. call' = [call EXCEPT ![t] = c] BY <1>0 DEF ReadCarry, CallsInv
<1>4. PICK v \in BOOLEAN : sessions' = [sessions EXCEPT ![obj] = [s EXCEPT !.clean = v]]
  <2> DEFINE v == s.clean /\ ~\E u \in Thread \ {t} :
                               call[u].pc \in InCollection /\ call[u].obj = obj
  <2>1. sessions' = [sessions EXCEPT ![obj].clean = v]
    BY <1>0, <1>1 DEF ReadCarry, ObjectsInv
  <2>2. v \in BOOLEAN BY <1>2
  <2> HIDE DEF v
  <2> QED BY <2>1, <2>2
<1>5. UNCHANGED <<native, owner, gone, current, manifests, sched, ids>>
  BY DEF ReadCarry, boundVars
<1>6. CallOK(c, Len(sessions), ids)
  <2>1. b.tool \in Collector /\ b.cursor \in BOOLEAN BY <1>1 DEF Plain
  <2>2. c \in Carrying /\ c.pc = "drain" /\ c.obj = obj /\ c.carry = s.carry
    BY <1>1, <1>2, <2>1 DEF Carrying
  <2> HIDE DEF c
  <2> QED BY <1>1, <1>2, <2>2 DEF CallOK, CallType
<1> HIDE DEF c, s, obj
<1> DEFINE z == [s EXCEPT !.clean = v]
<1>7. ObjectOK(z) /\ Later(s, z) BY <1>2, ObjectUpdates
<1> HIDE DEF z
<1>8. ObjectsInv' /\ Len(sessions') = Len(sessions) /\ Grown(sessions, sessions')
  BY <1>0, <1>1, <1>4, <1>5, <1>7, ObjectStep DEF z, s
<1>9. NativeInv' BY <1>0, <1>5, NativeStays
<1>10. CallsInv'
  <2>2. Len(sessions) <= Len(sessions) /\ ids <= ids BY <1>0
  <2> QED BY <1>0, <1>3, <1>5, <1>6, <1>8, <2>2, CallsStep DEF CallsInv
<1> QED BY <1>8, <1>9, <1>10 DEF TypeInv

LEMMA DrainedNative ==
  ASSUME NativeInv, NEW sealing
  PROVE  LET evicted == Evict(Sealed(native, sealing))
         IN  /\ Shape(evicted, Len(owner)) /\ evicted.id = native.id
             /\ Shape(AfterDrain(evicted), Len(owner))
             /\ AfterDrain(evicted).id = native.id
             /\ AfterDrain(evicted).unread \in Nat
             /\ Drained(evicted) \in ChunkType
             /\ Unreached(Sealed(native, sealing)) \subseteq 1 .. Len(owner)
<1>1. Len(owner) \in Nat /\ Len(owner) <= MaxRecords /\ Shape(native, Len(owner))
  BY DEF NativeInv
<1> DEFINE sealed == Sealed(native, sealing)
<1>2. Shape(sealed, Len(owner)) /\ sealed.id = native.id
  BY <1>1, SealedHasTheShape DEF Advances
<1> HIDE DEF sealed
<1>3. Shape(Evict(sealed), Len(owner)) /\ Evict(sealed).id = native.id
  BY <1>1, <1>2, EvictionKeepsTheShape DEF Advances
<1> DEFINE evicted == Evict(sealed)
<1>4. Shape(evicted, Len(owner)) BY <1>3
<1> HIDE DEF evicted
<1>5. Shape(AfterDrain(evicted), Len(owner)) /\ AfterDrain(evicted).id = evicted.id
  BY <1>1, <1>4, DrainingKeepsTheShape
<1>6. AfterDrain(evicted).unread \in Nat BY <1>5, NativeFields DEF Shape
<1>7. ChunkOK(Drained(evicted)) BY <1>1, <1>4, DrainedChunk
<1>8. Drained(evicted) \in ChunkType
  <2> DEFINE c == Drained(evicted)
  <2>1. c \in [seg : Nat, offset : Nat, data : Seq(Cell), size : Nat]
    <3>1. c.seg \in Nat /\ c.offset \in Nat /\ c.data \in Seq(Cell) /\ c.size \in Nat
      BY <1>7 DEF ChunkOK
    <3>2. c = [seg |-> c.seg, offset |-> c.offset, data |-> c.data, size |-> c.size]
      <4>1. CASE Drainable(evicted) = {} BY <4>1 DEF Drained
      <4>2. CASE Drainable(evicted) # {}
        <5> DEFINE x == evicted.segments[Min(Drainable(evicted))]
                   g == x.index
                   f == Len(Cells(x.from, x.to))
                   d == SubSeq(Cells(x.from, x.to), evicted.offset + 1,
                               Min({evicted.offset + Chunk, f}))
                   o == evicted.offset
        <5>1. c = [seg |-> g, offset |-> o, size |-> f, data |-> d] BY <4>2 DEF Drained
        <5> HIDE DEF c, g, f, d, o
        <5> QED BY <5>1
      <4> QED BY <4>1, <4>2
    <3> HIDE DEF c
    <3> QED BY <3>1, <3>2
  <2> HIDE DEF c
  <2> QED BY <1>7, <2>1 DEF ChunkType, c
<1>9. Unreached(sealed) \subseteq 1 .. Len(owner) BY <1>1, <1>2, UnreachedIsWritten
<1> QED BY <1>3, <1>5, <1>6, <1>8, <1>9 DEF evicted, sealed

LEMMA DrainKeepsTypes ==
  ASSUME TypeInv, NEW t \in Thread, Drain(t)
  PROVE  TypeInv' /\ Grown(sessions, sessions')
<1>0. NativeInv /\ ObjectsInv /\ CallsInv /\ ids \in Nat /\ Len(sessions) \in Nat
  BY DEF TypeInv, NativeInv, ObjectsInv
<1> DEFINE b == call[t]
           sealed == Sealed(native, b.sealing)
           evicted == Evict(sealed)
           after == AfterDrain(evicted)
           chunk == Drained(evicted)
           unread == after.unread
           done == Drainable(after) = {}
           c == [pc |-> "feed", tool |-> b.tool, obj |-> b.obj, cursor |-> b.cursor,
                 seg |-> b.seg, carry |-> b.carry, read |-> b.read,
                 chunk |-> chunk, unread |-> unread, done |-> done]
<1>1. /\ b \in Carrying /\ b.obj \in 1 .. Len(sessions) /\ Len(b.carry) < 2
  BY <1>0, CallKinds DEF Drain, CallsInv, CallOK, About
<1>2. /\ native' = after /\ gone' = gone \cup Unreached(sealed)
      /\ call' = [call EXCEPT ![t] = c]
      /\ UNCHANGED <<owner, sessions, current, sched, manifests, ids>>
  BY <1>0 DEF Drain, CallsInv, serverVars, boundVars
<1>3. /\ Shape(after, Len(owner)) /\ after.id = native.id /\ unread \in Nat
      /\ chunk \in ChunkType /\ Unreached(sealed) \subseteq 1 .. Len(owner)
  BY <1>0, DrainedNative
<1> HIDE DEF chunk, unread, after, sealed
<1>4. CallOK(c, Len(sessions), ids)
  <2>1. /\ b.tool \in Collector /\ b.cursor \in BOOLEAN /\ b.obj \in Nat /\ b.seg \in Nat
        /\ b.carry \in Seq(Cell) /\ b.read \in Nat
    BY <1>1 DEF Carrying
  <2>2. c \in Feeding /\ c.pc = "feed" /\ c.obj = b.obj /\ c.carry = b.carry
    <3>1. done \in BOOLEAN OBVIOUS
    <3> HIDE DEF b, done
    <3> QED BY <1>3, <2>1, <3>1 DEF Feeding
  <2> HIDE DEF c, b
  <2> QED BY <1>1, <2>2 DEF CallOK, CallType
<1> HIDE DEF c
<1>5. NativeInv' BY <1>0, <1>2, <1>3 DEF NativeInv
<1>6. ObjectsInv' /\ Grown(sessions, sessions') BY <1>0, <1>2, ObjectsStay
<1>7. CallsInv'
  <2>1. Len(sessions) <= Len(sessions) /\ ids <= ids BY <1>0
  <2> QED BY <1>0, <1>2, <1>4, <2>1, CallsStep DEF CallsInv
<1> QED BY <1>5, <1>6, <1>7 DEF TypeInv

LEMMA DrainFailsKeepsTypes ==
  ASSUME TypeInv, NEW t \in Thread, NEW executed \in BOOLEAN, DrainFails(t, executed)
  PROVE  TypeInv' /\ Grown(sessions, sessions')
<1>0. NativeInv /\ ObjectsInv /\ CallsInv /\ ids \in Nat /\ Len(sessions) \in Nat
  BY DEF TypeInv, NativeInv, ObjectsInv
<1> DEFINE b == call[t]
           obj == b.obj
           s == sessions[obj]
           sealed == Sealed(native, b.sealing)
           after == AfterDrain(Evict(sealed))
<1>1. /\ b \in Carrying /\ obj \in 1 .. Len(sessions) /\ Len(b.carry) < 2
  BY <1>0, CallKinds DEF DrainFails, CallsInv, CallOK, About
<1>2. /\ \/ native' = native /\ gone' = gone
         \/ native' = after /\ gone' = gone \cup Unreached(sealed)
      /\ call' = [call EXCEPT ![t] = [pc |-> "idle"]]
      /\ UNCHANGED <<owner, current, sched, manifests, ids>>
  BY DEF DrainFails, Return
<1>3. PICK v \in BOOLEAN : sessions' = [sessions EXCEPT ![obj] = [s EXCEPT !.clean = v]]
  <2> DEFINE v == s.clean /\ ~executed /\ b.sealing
  <2>1. sessions' = [sessions EXCEPT ![obj].clean = v]
    BY <1>0, <1>1 DEF DrainFails, ObjectsInv
  <2>2. v \in BOOLEAN OBVIOUS
  <2> HIDE DEF v
  <2> QED BY <2>1, <2>2
<1>4. /\ Shape(after, Len(owner)) /\ after.id = native.id
      /\ Unreached(sealed) \subseteq 1 .. Len(owner)
  BY <1>0, DrainedNative
<1> HIDE DEF after, sealed
<1>5. NativeInv' BY <1>0, <1>2, <1>4 DEF NativeInv
<1>6. ObjectOK(s) BY <1>0, <1>1 DEF ObjectsInv
<1> HIDE DEF s, obj
<1> DEFINE z == [s EXCEPT !.clean = v]
<1>7. ObjectOK(z) /\ Later(s, z) BY <1>6, ObjectUpdates
<1> HIDE DEF z
<1>8. ObjectsInv' /\ Len(sessions') = Len(sessions) /\ Grown(sessions, sessions')
  BY <1>0, <1>1, <1>2, <1>3, <1>7, ObjectStep DEF z, s
<1>9. CallsInv'
  <2>1. Len(sessions) <= Len(sessions) /\ ids <= ids BY <1>0
  <2>2. CallOK([pc |-> "idle"], Len(sessions), ids)
    BY <1>0, CallMoves DEF CallsInv
  <2> DEFINE c == [pc |-> "idle"]
  <2> HIDE DEF c
  <2>3. CallOK(c, Len(sessions), ids) /\ call' = [call EXCEPT ![t] = c] BY <1>2, <2>2 DEF c
  <2> QED BY <1>0, <1>2, <1>8, <2>1, <2>3, CallsStep DEF CallsInv
<1> QED BY <1>5, <1>8, <1>9 DEF TypeInv

\* What Feed makes of the object: the records of the chunk, and two counters.
LEMMA FedObject ==
  ASSUME NEW s, ObjectOK(s), NEW h, h.carry \in Seq(Cell), NEW chunk \in ChunkType,
         NEW unread \in Nat, NEW misread
  PROVE  LET parsed == ParseAccessSegment(Cut(h, chunk).whole, misread)
             fed == IF chunk.data = <<>> THEN s
                    ELSE AddAccessParseStats(AddAccessEvents(s, parsed.events),
                                             parsed.malformed)
             z == AddAccessLoss(fed, unread)
         IN  /\ ObjectOK(z) /\ Later(s, z) /\ z.id = s.id /\ z.clean = s.clean
             /\ chunk.data # <<>> => Cut(h, chunk).carry \in Seq(Cell)
                                     /\ Len(Cut(h, chunk).carry) < 2
<1> DEFINE cut == Cut(h, chunk)
           parsed == ParseAccessSegment(cut.whole, misread)
           y == AddAccessEvents(s, parsed.events)
           fed == IF chunk.data = <<>> THEN s ELSE AddAccessParseStats(y, parsed.malformed)
           z == AddAccessLoss(fed, unread)
<1>0. ChunkOK(chunk) BY DEF ChunkType
<1>1. s \in SessionType /\ s.unread \in Nat /\ s.malformed \in Nat /\ Ring(s)
      /\ Len(s.carry) < 2
  BY SessionFields DEF ObjectOK
<1>2. ASSUME NEW x \in SessionType, NEW m \in Nat, Later(s, x), ObjectOK(x)
      PROVE  LET w == AddAccessLoss([x EXCEPT !.malformed = m], unread)
             IN  ObjectOK(w) /\ Later(s, w) /\ w.id = x.id /\ w.clean = x.clean
  <2> DEFINE y1 == [x EXCEPT !.malformed = m]
             u == Max({x.unread, unread})
             w == [x EXCEPT !.malformed = m, !.unread = u]
  <2>1. x.unread \in Nat /\ OldestSequence(x) \in Int /\ Len(x.fed) \in Nat
        /\ OldestSequence(s) \in Int /\ Len(s.fed) \in Nat
    BY <1>1, SessionFields
  <2>2. u \in Nat
    <3>1. u = IF x.unread >= unread THEN x.unread ELSE unread BY <2>1, MaxOfTwo
    <3> QED BY <2>1, <3>1
  <2>3. y1.unread = x.unread /\ y1 \in SessionType BY <1>2 DEF SessionType
  <2>4. AddAccessLoss(y1, unread) = [y1 EXCEPT !.unread = u] BY <2>3 DEF AddAccessLoss
  <2>5. [y1 EXCEPT !.unread = u] = w OBVIOUS
  <2>6. ObjectOK(w) /\ Later(x, w) BY <1>2, <2>2, ObjectUpdates
  <2>a. w.id = x.id /\ w.clean = x.clean BY <1>2 DEF SessionType
  <2> HIDE DEF w, y1
  <2>7. w \in SessionType BY <2>6 DEF ObjectOK
  <2>8. OldestSequence(w) \in Int /\ Len(w.fed) \in Nat BY <2>7, SessionFields
  <2>9. Later(s, w) BY <1>2, <2>1, <2>6, <2>8 DEF Later
  <2> QED BY <2>4, <2>5, <2>6, <2>9, <2>a DEF y1
<1>3. CASE chunk.data = <<>>
  <2>1. fed = s BY <1>3
  <2>2. s = [s EXCEPT !.malformed = s.malformed] BY <1>1 DEF SessionType
  <2>3. Later(s, s)
    <3>1. Len(s.fed) \in Nat /\ OldestSequence(s) \in Int BY <1>1, SessionFields
    <3> QED BY <3>1 DEF Later
  <2> HIDE DEF fed
  <2>4. ObjectOK(z) /\ Later(s, z) /\ z.id = s.id /\ z.clean = s.clean
    BY <1>1, <1>2, <2>1, <2>2, <2>3
  <2> QED BY <1>3, <2>4 DEF z, fed
<1>4. CASE chunk.data # <<>>
  <2>1. cut.whole \in Seq(Cell) /\ cut.carry \in Seq(Cell) /\ Len(cut.carry) < 2
    BY <1>0, <1>4, CutIsTyped
  <2> HIDE DEF cut
  <2>2. parsed \in ParsedType BY <2>1, ParsingIsTyped
  <2> HIDE DEF parsed
  <2>3. parsed.events \in Seq(RecordNo) /\ parsed.malformed \in Nat
    BY <2>2 DEF ParsedType
  <2>4. y \in SessionType /\ Ring(y) /\ Later(s, y) /\ SameBut(s, y)
    BY <1>1, <2>3, AddingKeepsTheRing
  <2> HIDE DEF y
  <2>5. ObjectOK(y) BY <1>1, <2>4 DEF ObjectOK, SameBut
  <2>6. y.malformed + parsed.malformed \in Nat BY <2>3, <2>4, SessionFields
  <2>7. fed = [y EXCEPT !.malformed = y.malformed + parsed.malformed]
    BY <1>4 DEF AddAccessParseStats
  <2> HIDE DEF fed
  <2>8. ObjectOK(z) /\ Later(s, z) /\ z.id = y.id /\ z.clean = y.clean
    BY <1>2, <2>4, <2>5, <2>6, <2>7
  <2>9. y.id = s.id /\ y.clean = s.clean BY <2>4 DEF SameBut
  <2> QED BY <1>4, <2>1, <2>8, <2>9 DEF z, fed, y, parsed, cut
<1> QED BY <1>3, <1>4

LEMMA FeedKeepsTypes ==
  ASSUME TypeInv, NEW t \in Thread, NEW misread \in BOOLEAN, Feed(t, misread)
  PROVE  TypeInv' /\ Grown(sessions, sessions')
<1>0. NativeInv /\ ObjectsInv /\ CallsInv /\ ids \in Nat /\ Len(sessions) \in Nat
  BY DEF TypeInv, NativeInv, ObjectsInv
<1> DEFINE b == call[t]
           obj == b.obj
           s == sessions[obj]
           h == [seg |-> b.seg, carry |-> b.carry]
           empty == b.chunk.data = <<>>
           cut == Cut(h, b.chunk)
           parsed == ParseAccessSegment(cut.whole, misread)
           read == b.read + Len(b.chunk.data)
           pc == IF b.done \/ read >= Budget THEN "keep" ELSE "drain"
           fed == IF empty THEN s
                  ELSE AddAccessParseStats(AddAccessEvents(s, parsed.events),
                                           parsed.malformed)
           z == AddAccessLoss(fed, b.unread)
           g == IF empty THEN b.seg ELSE b.chunk.seg
           y == IF empty THEN b.carry ELSE cut.carry
           c == [pc |-> pc, tool |-> b.tool, obj |-> obj, cursor |-> b.cursor,
                 seg |-> g, carry |-> y, read |-> read, sealing |-> FALSE]
<1>1. b \in Feeding /\ obj \in 1 .. Len(sessions) /\ Len(b.carry) < 2
  BY <1>0, CallKinds DEF Feed, CallsInv, CallOK, About
<1>2. /\ b.tool \in Collector /\ b.obj \in Nat /\ b.cursor \in BOOLEAN /\ b.seg \in Nat
      /\ b.carry \in Seq(Cell) /\ b.read \in Nat /\ b.chunk \in ChunkType
      /\ b.unread \in Nat
  BY <1>1 DEF Feeding
<1>3. ObjectOK(s) BY <1>0, <1>1 DEF ObjectsInv
<1>4. /\ ObjectOK(z) /\ Later(s, z)
      /\ ~empty => cut.carry \in Seq(Cell) /\ Len(cut.carry) < 2
  <2>1. h.carry = b.carry OBVIOUS
  <2> HIDE DEF h, s, b
  <2> QED BY <1>2, <1>3, <2>1, FedObject
<1>5. /\ sessions' = [sessions EXCEPT ![obj] = z]
      /\ call' = [call EXCEPT ![t] = c]
      /\ UNCHANGED <<native, owner, gone, current, manifests, sched, ids>>
  BY DEF Feed, boundVars
<1> HIDE DEF z, cut
<1>6. CallOK(c, Len(sessions), ids)
  <2>1. read \in Nat
    <3>1. b.chunk.data \in Seq(Cell) BY <1>2 DEF ChunkType, ChunkOK
    <3>2. Len(b.chunk.data) \in Nat BY <3>1
    <3> QED BY <1>2, <3>2
  <2>2. g \in Nat
    <3>1. b.chunk.seg \in Nat BY <1>2 DEF ChunkType, ChunkOK
    <3> QED BY <1>2, <3>1
  <2>3. y \in Seq(Cell) /\ Len(y) < 2 BY <1>1, <1>2, <1>4
  <2>4. pc \in {"drain", "keep"} OBVIOUS
  <2> HIDE DEF read, g, y, pc, b
  <2>5. c \in Carrying /\ c.pc = pc /\ c.obj = obj /\ c.carry = y
    BY <1>2, <2>1, <2>2, <2>3, <2>4 DEF Carrying
  <2> HIDE DEF c, obj
  <2> QED BY <1>1, <2>3, <2>4, <2>5 DEF CallOK, CallType
<1> HIDE DEF c, s, obj
<1>7. NativeInv' BY <1>0, <1>5, NativeStays
<1>8. ObjectsInv' /\ Len(sessions') = Len(sessions) /\ Grown(sessions, sessions')
  BY <1>0, <1>1, <1>4, <1>5, ObjectStep DEF s
<1>9. CallsInv'
  <2>1. Len(sessions) <= Len(sessions) /\ ids <= ids BY <1>0
  <2> QED BY <1>0, <1>5, <1>6, <1>8, <2>1, CallsStep DEF CallsInv
<1> QED BY <1>7, <1>8, <1>9 DEF TypeInv

LEMMA KeepingKeepsTypes ==
  ASSUME TypeInv, NEW t \in Thread, KeepCarry(t) \/ StatusFails(t)
  PROVE  TypeInv' /\ Grown(sessions, sessions')
<1>0. NativeInv /\ ObjectsInv /\ CallsInv /\ ids \in Nat /\ Len(sessions) \in Nat
  BY DEF TypeInv, NativeInv, ObjectsInv
<1> DEFINE b == call[t]
           obj == b.obj
           s == sessions[obj]
           z == [s EXCEPT !.cseg = b.seg, !.carry = b.carry]
           c == [pc |-> AfterStatus[b.tool], tool |-> b.tool, obj |-> obj,
                 cursor |-> b.cursor]
           idle == [pc |-> "idle"]
<1>1. b \in Carrying /\ obj \in 1 .. Len(sessions) /\ Len(b.carry) < 2
  BY <1>0, CallKinds DEF KeepCarry, StatusFails, CallsInv, CallOK, About
<1>2. b.tool \in Collector /\ b.cursor \in BOOLEAN /\ b.seg \in Nat /\ b.carry \in Seq(Cell)
  BY <1>1 DEF Carrying
<1>3. ObjectOK(s) BY <1>0, <1>1 DEF ObjectsInv
<1>4. ObjectOK(z) /\ Later(s, z) BY <1>1, <1>2, <1>3, ObjectUpdates
<1>5. /\ sessions' = [sessions EXCEPT ![obj] = z]
      /\ call' = [call EXCEPT ![t] = c] \/ call' = [call EXCEPT ![t] = idle]
      /\ UNCHANGED <<native, owner, gone, current, manifests, sched, ids>>
  <2>1. sessions' = [sessions EXCEPT ![obj].cseg = b.seg, ![obj].carry = b.carry]
    BY DEF KeepCarry, StatusFails, Kept
  <2>2. [sessions EXCEPT ![obj].cseg = b.seg, ![obj].carry = b.carry]
          = [sessions EXCEPT ![obj] = z]
    <3> HIDE DEF b, obj
    <3> QED BY <1>0, <1>1 DEF ObjectsInv
  <2> HIDE DEF z
  <2> QED BY <2>1, <2>2 DEF KeepCarry, StatusFails, boundVars, Return
<1>6. CallOK(c, Len(sessions), ids)
  <2>1. AfterStatus[b.tool] \in {"carry", "page", "persist", "sched"}
        /\ (AfterStatus[b.tool] = "sched" => b.tool = "stop")
    BY <1>2 DEF AfterStatus, Collector
  <2> DEFINE pc == AfterStatus[b.tool]
  <2>2. pc \in {"carry", "page", "persist", "sched"} /\ (pc = "sched" => b.tool = "stop")
    BY <2>1
  <2>3. c = [pc |-> pc, tool |-> b.tool, obj |-> obj, cursor |-> b.cursor] OBVIOUS
  <2> HIDE DEF pc, c, b, obj
  <2> QED BY <1>0, <1>1, <1>2, <2>2, <2>3, PlainCall
<1>7. CallOK(idle, Len(sessions), ids) BY <1>0, CallMoves DEF CallsInv
<1> HIDE DEF c, idle, z, s, obj
<1>8. NativeInv' BY <1>0, <1>5, NativeStays
<1>9. ObjectsInv' /\ Len(sessions') = Len(sessions) /\ Grown(sessions, sessions')
  BY <1>0, <1>1, <1>4, <1>5, ObjectStep DEF s
<1>10. CallsInv'
  <2>1. Len(sessions) <= Len(sessions) /\ ids <= ids BY <1>0
  <2>2. PICK d : CallOK(d, Len(sessions), ids) /\ call' = [call EXCEPT ![t] = d]
    BY <1>5, <1>6, <1>7
  <2> QED BY <1>0, <1>5, <1>9, <2>1, <2>2, CallsStep DEF CallsInv
<1> QED BY <1>8, <1>9, <1>10 DEF TypeInv

\* Steps that touch nothing but the call of their thread.
LEMMA OnlyTheCall ==
  ASSUME TypeInv, NEW t \in Thread, NEW c, CallOK(c, Len(sessions), ids'),
         call' = [call EXCEPT ![t] = c], ids' \in Nat, ids <= ids',
         sched' \in Thread \cup {None},
         UNCHANGED <<native, owner, gone, sessions, current, manifests>>
  PROVE  TypeInv' /\ Grown(sessions, sessions')
<1>0. NativeInv /\ ObjectsInv /\ CallsInv /\ ids \in Nat /\ Len(sessions) \in Nat
  BY DEF TypeInv, NativeInv, ObjectsInv
<1>1. NativeInv' BY <1>0, NativeStays
<1>2. ObjectsInv' /\ Grown(sessions, sessions') BY <1>0, ObjectsStay
<1>3. CallsInv'
  <2>1. Len(sessions) <= Len(sessions) BY <1>0
  <2> QED BY <1>0, <2>1, CallsStep
<1> QED BY <1>1, <1>2, <1>3 DEF TypeInv

LEMMA PageKeepsTypes ==
  ASSUME TypeInv, NEW t \in Thread, Page(t)
  PROVE  TypeInv' /\ Grown(sessions, sessions')
<1>0. CallsInv /\ ids \in Nat /\ CallOK(call[t], Len(sessions), ids) /\ call[t].pc = "page"
  BY DEF TypeInv, NativeInv, CallsInv, Page
<1> DEFINE c == [call[t] EXCEPT !.pc = "persist"]
<1>1. call' = [call EXCEPT ![t] = c] BY <1>0 DEF Page, Go, CallsInv
<1>2. CallOK(c, Len(sessions), ids) BY <1>0, CallMoves
<1>3. UNCHANGED <<native, owner, gone, sessions, current, manifests, sched, ids>>
  BY DEF Page, serverVars, boundVars
<1>4. ids <= ids BY <1>0
<1> HIDE DEF c
<1> QED BY <1>0, <1>1, <1>2, <1>3, <1>4, OnlyTheCall DEF CallsInv

LEMMA ManifestOfAnObject ==
  ASSUME NEW s \in SessionType
  PROVE  NewManifest(s) \in ManifestType
BY SessionFields DEF NewManifest, ManifestType, Mode

LEMMA HoldingAManifest ==
  ASSUME NEW pc \in {"save", "check"}, NEW m \in ManifestType, NEW objects, NEW given
  PROVE  CallOK([pc |-> pc, manifest |-> m], objects, given)
<1> DEFINE c == [pc |-> pc, manifest |-> m]
<1>1. c.pc = pc /\ (pc = "save" => c \in Saving) /\ (pc = "check" => c \in Recovering)
  BY DEF Saving, Recovering
<1> HIDE DEF c
<1>2. ~About(c) BY <1>1 DEF About
<1>3. CallOK(c, objects, given) BY <1>1, <1>2 DEF CallOK, CallType
<1> QED BY <1>3 DEF c

LEMMA SnapshotKeepsTypes ==
  ASSUME TypeInv, NEW t \in Thread, Snapshot(t)
  PROVE  TypeInv' /\ Grown(sessions, sessions')
<1>0. /\ CallsInv /\ ObjectsInv /\ ids \in Nat /\ CallOK(call[t], Len(sessions), ids)
      /\ call[t].pc = "persist"
  BY DEF TypeInv, NativeInv, CallsInv, Snapshot
<1> DEFINE m == NewManifest(sessions[call[t].obj])
           c == [pc |-> "save", manifest |-> m]
<1>1. call' = [call EXCEPT ![t] = c] BY DEF Snapshot
<1>2. m \in ManifestType
  <2>1. call[t].obj \in 1 .. Len(sessions) BY <1>0 DEF CallOK, About
  <2>2. sessions[call[t].obj] \in SessionType BY <1>0, <2>1 DEF ObjectsInv, ObjectOK
  <2> QED BY <2>2, ManifestOfAnObject
<1> HIDE DEF m
<1>3. CallOK(c, Len(sessions), ids) BY <1>2, HoldingAManifest
<1>4. UNCHANGED <<native, owner, gone, sessions, current, manifests, sched, ids>>
  BY DEF Snapshot, serverVars, boundVars
<1>5. ids <= ids BY <1>0
<1> HIDE DEF c
<1> QED BY <1>0, <1>1, <1>3, <1>4, <1>5, OnlyTheCall DEF CallsInv

LEMMA SaveKeepsTypes ==
  ASSUME TypeInv, NEW t \in Thread, Save(t)
  PROVE  TypeInv' /\ Grown(sessions, sessions')
<1>0. NativeInv /\ ObjectsInv /\ CallsInv /\ ids \in Nat /\ Len(sessions) \in Nat
  BY DEF TypeInv, NativeInv, ObjectsInv
<1> DEFINE m == call[t].manifest
           idle == [pc |-> "idle"]
<1>1. call[t] \in Saving BY <1>0, CallKinds DEF Save, CallsInv
<1>2. m \in ManifestType BY <1>1 DEF Saving
<1>3. /\ manifests' = [manifests EXCEPT ![m.id] = m] /\ call' = [call EXCEPT ![t] = idle]
      /\ UNCHANGED <<native, owner, gone, sessions, current, sched, ids>>
  BY DEF Save, Return, serverVars, boundVars
<1>4. manifests' \in [SessionIds -> ManifestType \cup {None}]
  BY <1>0, <1>2, <1>3 DEF CallsInv
<1>5. CallOK(idle, Len(sessions), ids) BY <1>0, CallMoves DEF CallsInv
<1> HIDE DEF idle
<1>6. NativeInv' BY <1>0, <1>3, NativeStays
<1>7. ObjectsInv' /\ Grown(sessions, sessions') BY <1>0, <1>3, ObjectsStay
<1>8. CallsInv'
  <2>1. call' \in [Thread -> CallType] BY <1>0, <1>3, <1>5 DEF CallsInv, CallOK
  <2>2. \A u \in Thread : CallOK(call'[u], Len(sessions), ids) BY <1>0, <1>3, <1>5 DEF CallsInv
  <2> QED BY <1>0, <1>3, <1>4, <2>1, <2>2 DEF CallsInv
<1> QED BY <1>6, <1>7, <1>8 DEF TypeInv

(***************************************************************************)
(* The steps under schedulerMu, recovery and the restart.                  *)
(***************************************************************************)
LEMMA BeginningKeepsTypes ==
  ASSUME TypeInv, NEW t \in Thread,
         \/ \E mode \in Modes : BeginStart(t, mode)
         \/ BeginLoad(t)
         \/ \E id \in SessionIds : Recover(t, id)
         \/ CheckLive(t) \/ EnterScheduler(t)
  PROVE  TypeInv' /\ Grown(sessions, sessions') /\ native' = native /\ reader' = reader
<1>0. /\ CallsInv /\ ObjectsInv /\ ids \in Nat /\ CallOK(call[t], Len(sessions), ids)
      /\ call \in [Thread -> CallType] /\ sched \in Thread \cup {None}
  BY DEF TypeInv, NativeInv, CallsInv
<1>1. /\ UNCHANGED <<native, owner, gone, sessions, current, manifests, reader>>
      /\ sched' \in Thread \cup {None} /\ ids' \in Nat /\ ids <= ids'
  BY <1>0 DEF BeginStart, BeginLoad, Recover, CheckLive, EnterScheduler, serverVars, boundVars
<1>2. \E c : CallOK(c, Len(sessions), ids') /\ call' = [call EXCEPT ![t] = c]
  <2>1. ASSUME NEW mode \in Modes, BeginStart(t, mode)
        PROVE  \E c : CallOK(c, Len(sessions), ids') /\ call' = [call EXCEPT ![t] = c]
    <3> DEFINE c == [pc |-> "sched", tool |-> "start", id |-> ids + 1, mode |-> mode]
    <3>1. ids' = ids + 1 /\ ids + 1 \in 1 .. ids + 1 /\ ids + 1 \in Nat
      BY <1>0, <2>1 DEF BeginStart
    <3>2. mode \in Mode BY SessionAssumption DEF Mode
    <3>3. c \in Starting /\ c.pc = "sched" /\ c.tool = "start" /\ c.id = ids + 1
      BY <3>1, <3>2 DEF Starting
    <3>4. call' = [call EXCEPT ![t] = c] BY <2>1 DEF BeginStart
    <3> HIDE DEF c
    <3>5. ~About(c) BY <3>3 DEF About
    <3>6. CallOK(c, Len(sessions), ids') BY <3>1, <3>3, <3>5 DEF CallOK, CallType
    <3> QED BY <3>4, <3>6
  <2>2. CASE BeginLoad(t)
    <3> DEFINE c == [pc |-> "sched", tool |-> "load"]
    <3>1. c \in Loading /\ c.pc = "sched" /\ c.tool = "load" BY DEF Loading
    <3>2. call' = [call EXCEPT ![t] = c] BY <2>2 DEF BeginLoad
    <3> HIDE DEF c
    <3>3. ~About(c) BY <3>1 DEF About
    <3>4. CallOK(c, Len(sessions), ids') BY <3>1, <3>3 DEF CallOK, CallType
    <3> QED BY <3>2, <3>4
  <2>3. ASSUME NEW id \in SessionIds, Recover(t, id)
        PROVE  \E c : CallOK(c, Len(sessions), ids') /\ call' = [call EXCEPT ![t] = c]
    <3>1. manifests[id] \in ManifestType BY <1>0, <2>3 DEF CallsInv, Recover
    <3>2. CallOK([pc |-> "check", manifest |-> manifests[id]], Len(sessions), ids')
      BY <3>1, HoldingAManifest
    <3> QED BY <2>3, <3>2 DEF Recover
  <2>4. CASE CheckLive(t)
    <3>1. call[t].pc = "check" /\ ids' = ids BY <2>4 DEF CheckLive, boundVars
    <3>2. /\ CallOK([call[t] EXCEPT !.pc = "replace"], Len(sessions), ids)
          /\ CallOK([pc |-> "idle"], Len(sessions), ids)
      BY <1>0, <3>1, CallMoves
    <3>3. \/ call' = [call EXCEPT ![t] = [call[t] EXCEPT !.pc = "replace"]]
          \/ call' = [call EXCEPT ![t] = [pc |-> "idle"]]
      BY <1>0, <2>4 DEF CheckLive, Go, Return
    <3> QED BY <3>1, <3>2, <3>3
  <2>5. CASE EnterScheduler(t)
    <3>1. call[t].pc = "sched" /\ ids' = ids BY <2>5 DEF EnterScheduler, boundVars
    <3>2. CallOK([call[t] EXCEPT !.pc = "native"], Len(sessions), ids)
      BY <1>0, <3>1, CallMoves
    <3>3. call' = [call EXCEPT ![t] = [call[t] EXCEPT !.pc = "native"]]
      BY <1>0, <2>5 DEF EnterScheduler, Go
    <3> QED BY <3>1, <3>2, <3>3
  <2> QED BY <2>1, <2>2, <2>3, <2>4, <2>5
<1>3. PICK c : CallOK(c, Len(sessions), ids') /\ call' = [call EXCEPT ![t] = c]
  BY <1>2
<1> QED BY <1>1, <1>3, OnlyTheCall

LEMMA NativeReplaced ==
  ASSUME TypeInv, NEW t \in Thread, NEW c, CallOK(c, Len(sessions), ids),
         call' = [call EXCEPT ![t] = c], Shape(native', Len(owner)), native'.id <= ids,
         gone' \subseteq 1 .. Len(owner), sched' \in Thread \cup {None},
         UNCHANGED <<owner, sessions, current, manifests, ids>>
  PROVE  TypeInv' /\ Grown(sessions, sessions')
<1>0. NativeInv /\ ObjectsInv /\ CallsInv /\ ids \in Nat /\ Len(sessions) \in Nat
  BY DEF TypeInv, NativeInv, ObjectsInv
<1>1. NativeInv' BY <1>0 DEF NativeInv
<1>2. ObjectsInv' /\ Grown(sessions, sessions') BY <1>0, ObjectsStay
<1>3. CallsInv'
  <2>1. Len(sessions) <= Len(sessions) /\ ids <= ids BY <1>0
  <2> QED BY <1>0, <2>1, CallsStep
<1> QED BY <1>1, <1>2, <1>3 DEF TypeInv

LEMMA ReplacingKeepsTypes ==
  ASSUME TypeInv, NEW t \in Thread,
         \/ StartNative(t) \/ LoadNative(t)
         \/ \E delete \in BOOLEAN : StopNative(t, delete)
         \/ \E outcome \in {"unsent", "refused", "lost"} : NativeFails(t, outcome)
  PROVE  TypeInv' /\ Grown(sessions, sessions') /\ reader' = reader
<1>0. /\ CallsInv /\ NativeInv /\ ids \in Nat /\ CallOK(call[t], Len(sessions), ids)
      /\ call \in [Thread -> CallType] /\ sched \in Thread \cup {None}
      /\ Len(owner) \in Nat /\ Shape(native, Len(owner)) /\ native.id \in Nat
      /\ native.id <= ids /\ gone \subseteq 1 .. Len(owner)
  BY NativeFields DEF TypeInv, NativeInv, CallsInv, Shape
<1>1. /\ UNCHANGED <<owner, sessions, current, manifests, reader, ids>>
      /\ call[t].pc = "native" /\ sched' \in Thread \cup {None}
  BY <1>0 DEF StartNative, LoadNative, StopNative, NativeFails, serverVars, boundVars
<1>2. \E c : CallOK(c, Len(sessions), ids) /\ call' = [call EXCEPT ![t] = c]
  <2>1. /\ CallOK([call[t] EXCEPT !.pc = "commit"], Len(sessions), ids)
        /\ CallOK([pc |-> "idle"], Len(sessions), ids)
    BY <1>0, <1>1, CallMoves
  <2>2. \/ call' = [call EXCEPT ![t] = [call[t] EXCEPT !.pc = "commit"]]
        \/ call' = [call EXCEPT ![t] = [pc |-> "idle"]]
    BY <1>0 DEF StartNative, LoadNative, StopNative, NativeFails, Go, Return
  <2> QED BY <2>1, <2>2
<1>3. Shape(native, Len(owner)) /\ native.id <= ids BY <1>0
<1>4. Shape(ShutDown(native), Len(owner)) /\ ShutDown(native).id <= ids
      /\ Shape(Retired(native), Len(owner)) /\ Retired(native).id <= ids
  <2>1. /\ Retired(native) \in NativeType /\ Blank(Retired(native))
        /\ Retired(native).id = native.id
        /\ ShutDown(native) \in NativeType /\ Blank(ShutDown(native)) /\ ShutDown(native).id = 0
    BY <1>0, RetiringLeavesABlank
  <2>2. 0 <= ids BY <1>0
  <2> QED BY <1>0, <2>1, <2>2, BlankHasTheShape
<1>5. ASSUME call[t].tool = "start"
      PROVE  LET z == Started(native, call[t].id, call[t].mode)
             IN  Shape(z, Len(owner)) /\ z.id <= ids
  <2>1. call[t] \in Starting BY <1>0, <1>1, <1>5, CallKinds DEF Collector, CallOK
  <2>2. call[t].id \in 1 .. ids /\ call[t].mode \in Mode
    BY <1>0, <1>1, <1>5, <2>1 DEF CallOK, Starting
  <2>3. call[t].id \in Nat /\ call[t].id <= ids BY <1>0, <2>2
  <2> QED BY <1>0, <2>2, <2>3, StartingHasTheShape DEF Mode
<1>6. Shape(native', Len(owner)) /\ native'.id <= ids /\ gone' \subseteq 1 .. Len(owner)
  <2>1. CASE StartNative(t)
    <3>1. call[t].tool = "start" /\ gone' = gone
          /\ native' = Started(native, call[t].id, call[t].mode)
      BY <2>1 DEF StartNative
    <3> QED BY <1>0, <1>5, <3>1
  <2>2. CASE LoadNative(t)
    <3>1. native' = ShutDown(native) /\ gone' = gone BY <2>2 DEF LoadNative
    <3> QED BY <1>0, <1>4, <3>1
  <2>3. ASSUME NEW delete \in BOOLEAN, StopNative(t, delete)
        PROVE  Shape(native', Len(owner)) /\ native'.id <= ids /\ gone' \subseteq 1 .. Len(owner)
    <3> DEFINE y == Finish(native)
               z == Evict(y)
    <3>1. Shape(y, Len(owner)) /\ y.id = native.id /\ ~y.active
      BY <1>0, FinishingKeepsTheShape DEF Advances
    <3>2. /\ native' = (IF delete THEN DeleteFiles(z) ELSE z)
          /\ gone' = gone \cup Unreached(y)
      BY <2>3 DEF StopNative
    <3> HIDE DEF y
    <3>3. Shape(z, Len(owner)) /\ z.id = native.id /\ ~z.active /\ z \in NativeType
      BY <1>0, <3>1, EvictionKeepsTheShape DEF Advances, Shape
    <3>4. Unreached(y) \subseteq 1 .. Len(owner) BY <1>0, <3>1, UnreachedIsWritten
    <3> HIDE DEF z
    <3>5. Shape(DeleteFiles(z), Len(owner)) /\ DeleteFiles(z).id = z.id
      BY <1>0, <3>3, DeletingLeavesABlank, BlankHasTheShape
    <3> QED BY <1>0, <3>2, <3>3, <3>4, <3>5
  <2>4. ASSUME NEW outcome \in {"unsent", "refused", "lost"}, NativeFails(t, outcome)
        PROVE  Shape(native', Len(owner)) /\ native'.id <= ids /\ gone' \subseteq 1 .. Len(owner)
    <3>1. /\ gone' = gone
          /\ \/ native' = native \/ native' = ShutDown(native) \/ native' = Retired(native)
             \/ /\ call[t].tool = "start"
                /\ native' = Started(native, call[t].id, call[t].mode)
      BY <2>4 DEF NativeFails
    <3> QED BY <1>0, <1>4, <1>5, <3>1
  <2> QED BY <2>1, <2>2, <2>3, <2>4
<1>7. PICK c : CallOK(c, Len(sessions), ids) /\ call' = [call EXCEPT ![t] = c]
  BY <1>2
<1>8. TypeInv' /\ Grown(sessions, sessions') BY <1>1, <1>6, <1>7, NativeReplaced
<1> QED BY <1>1, <1>8

LEMMA NewObject ==
  ASSUME NEW id \in Nat, NEW mode \in Mode
  PROVE  ObjectOK(NewSession(id, mode))
<1> DEFINE z == NewSession(id, mode)
<1>1. <<>> \in Seq(RecordNo) /\ <<>> \in Seq(Cell) /\ Len(<<>>) = 0 OBVIOUS
<1>2. 0 \in RecordNo /\ MaxEvents \in Nat
  BY SessionAssumption, StoreAssumption DEF RecordNo
<1>3. /\ z \in SessionType /\ z.count = 0 /\ z.dropped = 0 /\ z.fed = <<>> /\ z.carry = <<>>
  BY <1>1, <1>2 DEF NewSession, SessionType, Mode
<1> HIDE DEF z
<1>4. Ring(z) BY <1>1, <1>2, <1>3 DEF Ring
<1>5. ObjectOK(z) BY <1>1, <1>3, <1>4 DEF ObjectOK
<1> QED BY <1>5 DEF z

LEMMA RestoredObject ==
  ASSUME NEW m \in ManifestType
  PROVE  ObjectOK(RestoreSession(m)) /\ ~RestoreSession(m).clean
<1> DEFINE s == NewSession(m.id, m.mode)
           r == [s EXCEPT !.dropped = m.dropped, !.gaps = m.gaps,
                          !.malformed = 2 * m.malformed, !.unread = m.unread,
                          !.clean = FALSE]
           z == MarkStopped(r)
<1>1. /\ m.id \in Nat /\ m.mode \in Mode /\ m.dropped \in Nat /\ m.gaps \in Nat
      /\ m.malformed \in Nat /\ m.unread \in Nat
  BY DEF ManifestType
<1>2. ObjectOK(s) BY <1>1, NewObject
<1>3. s.count = 0 /\ s.fed = <<>> /\ s.carry = <<>> BY DEF NewSession
<1>4. 2 * m.malformed \in Nat BY <1>1
<1> HIDE DEF s
<1>5. /\ r \in SessionType /\ r.count = 0 /\ r.fed = <<>> /\ r.carry = <<>> /\ ~r.clean
  BY <1>1, <1>2, <1>3, <1>4 DEF ObjectOK, SessionType
<1>6. RestoreSession(m) = z BY DEF RestoreSession, s
<1> HIDE DEF r
<1>7. /\ z \in SessionType /\ z.count = 0 /\ z.fed = <<>> /\ z.carry = <<>>
      /\ z.stopped /\ ~z.clean
  BY <1>5 DEF SessionType, MarkStopped
<1> HIDE DEF z
<1>8. MaxEvents \in Nat /\ Len(<<>>) = 0 BY StoreAssumption
<1>9. Ring(z) BY <1>7, <1>8 DEF Ring
<1> QED BY <1>6, <1>7, <1>8, <1>9 DEF ObjectOK

LEMMA AddingKeepsTypes ==
  ASSUME TypeInv, NEW t \in Thread, CommitStart(t) \/ Install(t)
  PROVE  TypeInv' /\ Grown(sessions, sessions') /\ reader' = reader
<1>0. NativeInv /\ ObjectsInv /\ CallsInv /\ ids \in Nat /\ Len(sessions) \in Nat
      /\ CallOK(call[t], Len(sessions), ids)
  BY DEF TypeInv, NativeInv, ObjectsInv, CallsInv
<1>1. UNCHANGED <<native, owner, gone, manifests, reader, ids>>
      /\ sched' \in Thread \cup {None}
  BY <1>0 DEF CommitStart, Install, boundVars, CallsInv
<1>2. PICK z : ObjectOK(z) /\ sessions' = Append(sessions, z)
               /\ current' = Len(sessions) + 1
  <2>1. CASE CommitStart(t)
    <3>1. call[t].pc = "commit" /\ call[t].tool = "start" BY <2>1 DEF CommitStart
    <3>2. call[t] \in Starting BY <1>0, <3>1, CallKinds DEF CallOK, Collector
    <3>3. call[t].id \in Nat /\ call[t].mode \in Mode BY <3>2 DEF Starting
    <3>4. ObjectOK(NewSession(call[t].id, call[t].mode)) BY <3>3, NewObject
    <3> QED BY <2>1, <3>4 DEF CommitStart
  <2>2. CASE Install(t)
    <3>1. call[t] \in Recovering BY <1>0, <2>2, CallKinds DEF CallOK, Install
    <3>2. call[t].manifest \in ManifestType BY <3>1 DEF Recovering
    <3>3. ObjectOK(RestoreSession(call[t].manifest)) BY <3>2, RestoredObject
    <3> QED BY <2>2, <3>3 DEF Install
  <2> QED BY <2>1, <2>2
<1>3. /\ ObjectsInv' /\ Len(sessions') = Len(sessions) + 1 /\ Grown(sessions, sessions')
  BY <1>0, <1>2, ObjectAdded
<1>4. PICK c : CallOK(c, Len(sessions) + 1, ids) /\ call' = [call EXCEPT ![t] = c]
  <2>1. CASE CommitStart(t)
    <3> DEFINE n == Len(sessions) + 1
               c == [pc |-> "persist", tool |-> "start", obj |-> n]
    <3>1. n \in Nat /\ n \in 1 .. n BY <1>0
    <3> HIDE DEF n
    <3>2. c \in Opened /\ c.pc = "persist" /\ c.obj = n BY <3>1 DEF Opened
    <3>3. call' = [call EXCEPT ![t] = c] BY <2>1 DEF CommitStart, n
    <3> HIDE DEF c
    <3>4. CallOK(c, n, ids) BY <3>1, <3>2 DEF CallOK, CallType
    <3> QED BY <3>3, <3>4 DEF n
  <2>2. CASE Install(t)
    <3>1. CallOK([pc |-> "idle"], Len(sessions) + 1, ids) BY IdleCall
    <3> QED BY <2>2, <3>1 DEF Install, Return
  <2> QED BY <2>1, <2>2
<1>5. NativeInv' BY <1>0, <1>1, NativeStays
<1>6. CallsInv'
  <2>1. Len(sessions) <= Len(sessions) + 1 /\ ids <= ids /\ Len(sessions) + 1 \in Nat BY <1>0
  <2> QED BY <1>0, <1>1, <1>3, <1>4, <2>1, CallsStep
<1> QED BY <1>1, <1>3, <1>5, <1>6 DEF TypeInv

LEMMA StoppingKeepsTypes ==
  ASSUME TypeInv, NEW t \in Thread, CommitStop(t) \/ CommitLoad(t)
  PROVE  TypeInv' /\ Grown(sessions, sessions') /\ reader' = reader
<1>0. NativeInv /\ ObjectsInv /\ CallsInv /\ ids \in Nat /\ Len(sessions) \in Nat
      /\ CallOK(call[t], Len(sessions), ids)
  BY DEF TypeInv, NativeInv, ObjectsInv, CallsInv
<1> DEFINE idle == [pc |-> "idle"]
<1>1. /\ UNCHANGED <<native, owner, gone, manifests, reader, ids, current>>
      /\ sched' \in Thread \cup {None} /\ call' = [call EXCEPT ![t] = idle]
  BY <1>0 DEF CommitStop, CommitLoad, boundVars, CallsInv, Return
<1>2. CallOK(idle, Len(sessions), ids) BY <1>0, CallMoves DEF CallOK
<1> HIDE DEF idle
<1>3. ObjectsInv' /\ Len(sessions') = Len(sessions) /\ Grown(sessions, sessions')
  <2>1. CASE sessions' = sessions BY <1>0, <1>1, <2>1, ObjectsStay
  <2>2. ASSUME NEW i \in 1 .. Len(sessions), sessions' = [sessions EXCEPT ![i] = MarkStopped(@)]
        PROVE  ObjectsInv' /\ Len(sessions') = Len(sessions) /\ Grown(sessions, sessions')
    <3> DEFINE z == MarkStopped(sessions[i])
    <3>1. ObjectOK(sessions[i]) BY <1>0 DEF ObjectsInv
    <3>2. ObjectOK(z) /\ Later(sessions[i], z) BY <3>1, ObjectUpdates
    <3>3. sessions' = [sessions EXCEPT ![i] = z] BY <1>0, <2>2 DEF ObjectsInv
    <3> HIDE DEF z
    <3> QED BY <1>0, <1>1, <3>2, <3>3, ObjectStep
  <2>3. CASE CommitStop(t)
    <3>1. call[t].obj \in 1 .. Len(sessions)
      BY <1>0, <2>3 DEF CommitStop, CallOK, About
    <3>2. sessions' = [sessions EXCEPT ![call[t].obj] = MarkStopped(@)]
      BY <2>3 DEF CommitStop
    <3> QED BY <2>2, <3>1, <3>2
  <2>4. CASE CommitLoad(t)
    <3>1. current # 0 => current \in 1 .. Len(sessions) BY <1>0 DEF ObjectsInv
    <3> QED BY <2>1, <2>2, <2>4, <3>1 DEF CommitLoad
  <2> QED BY <2>3, <2>4
<1>4. NativeInv' BY <1>0, <1>1, NativeStays
<1>5. CallsInv'
  <2>1. Len(sessions) <= Len(sessions) /\ ids <= ids BY <1>0
  <2> QED BY <1>0, <1>1, <1>2, <1>3, <2>1, CallsStep
<1> QED BY <1>1, <1>3, <1>4, <1>5 DEF TypeInv

LEMMA RestartKeepsTypes ==
  ASSUME TypeInv, ServerRestart
  PROVE  TypeInv'
<1>0. NativeInv /\ ids \in Nat /\ CallsInv BY DEF TypeInv, NativeInv
<1>1. /\ sessions' = <<>> /\ current' = 0 /\ sched' = None
      /\ call' = [t \in Thread |-> [pc |-> "idle"]]
      /\ UNCHANGED <<native, owner, gone, manifests, ids>>
  BY DEF ServerRestart
<1>2. NativeInv' BY <1>0, <1>1, NativeStays
<1>3. ObjectsInv'
  <2>1. <<>> \in Seq(SessionType) /\ Len(<<>>) = 0 /\ 1 .. 0 = {} /\ 0 \in 0 .. 0 OBVIOUS
  <2> QED BY <1>1, <2>1 DEF ObjectsInv
<1>4. CallOK([pc |-> "idle"], Len(sessions'), ids) BY IdleCall
<1>5. [pc |-> "idle"] \in CallType BY <1>4 DEF CallOK
<1>6. CallsInv' BY <1>0, <1>1, <1>4, <1>5 DEF CallsInv
<1> QED BY <1>2, <1>3, <1>6 DEF TypeInv

(***************************************************************************)
(* Types                                                                   *)
(***************************************************************************)
LEMMA TypesInitially == ASSUME Init PROVE TypeInv
<1>1. /\ owner = <<>> /\ gone = {} /\ ids = 0 /\ sessions = <<>> /\ current = 0
      /\ native = NoNative /\ sched = None
      /\ call = [t \in Thread |-> [pc |-> "idle"]]
      /\ manifests = [i \in SessionIds |-> None]
  BY DEF Init
<1>2. <<>> \in Seq(Nat) /\ <<>> \in Seq(SessionType) /\ Len(<<>>) = 0 /\ 1 .. 0 = {}
      /\ 0 \in 0 .. 0 /\ <<>> \in Seq(SegmentType)
  OBVIOUS
<1>3. NativeInv
  <2>1. NoNative \in NativeType /\ Blank(NoNative) /\ NoNative.id = 0
    BY <1>2 DEF NoNative, NativeType, Blank
  <2>2. Shape(NoNative, 0) BY <2>1, BlankHasTheShape
  <2>3. MaxRecords \in Nat BY SessionAssumption
  <2> QED BY <1>1, <1>2, <2>1, <2>2, <2>3 DEF NativeInv
<1>4. ObjectsInv BY <1>1, <1>2 DEF ObjectsInv
<1>5. CallsInv
  <2>1. CallOK([pc |-> "idle"], Len(sessions), ids) BY IdleCall
  <2>2. [pc |-> "idle"] \in CallType BY <2>1 DEF CallOK
  <2> QED BY <1>1, <2>1, <2>2 DEF CallsInv
<1> QED BY <1>3, <1>4, <1>5 DEF TypeInv

LEMMA CollectKeepsTypes ==
  ASSUME TypeInv, NEW t \in Thread, Collect(t)
  PROVE  TypeInv' /\ Grown(sessions, sessions')
BY BeginKeepsTypes, ReadCarryKeepsTypes, DrainKeepsTypes, DrainFailsKeepsTypes,
   FeedKeepsTypes, KeepingKeepsTypes, PageKeepsTypes, SnapshotKeepsTypes, SaveKeepsTypes
DEF Collect

LEMMA LifecycleKeepsTypes ==
  ASSUME TypeInv, NEW t \in Thread, Lifecycle(t)
  PROVE  TypeInv' /\ Grown(sessions, sessions')
BY BeginningKeepsTypes, ReplacingKeepsTypes, AddingKeepsTypes, StoppingKeepsTypes
DEF Lifecycle

LEMMA StutterKeepsTypes ==
  ASSUME TypeInv, UNCHANGED vars
  PROVE  TypeInv' /\ Grown(sessions, sessions')
<1>1. UNCHANGED <<native, owner, gone, sessions, current, manifests, sched, call, ids>>
  BY DEF vars, serverVars, boundVars
<1>2. NativeInv' /\ CallsInv' /\ ObjectsInv'
  BY <1>1 DEF TypeInv, NativeInv, CallsInv, ObjectsInv
<1>3. Grown(sessions, sessions') BY <1>1, GrownIsReflexive DEF TypeInv, ObjectsInv
<1> QED BY <1>2, <1>3 DEF TypeInv

LEMMA StepKeepsTypes ==
  ASSUME TypeInv, [Next]_vars
  PROVE  TypeInv' /\ (ServerRestart \/ Grown(sessions, sessions'))
<1>1. CASE Emulator BY <1>1, EmulatorKeepsTypes
<1>2. CASE ServerRestart BY <1>2, RestartKeepsTypes
<1>3. CASE Quiet BY <1>3, StutterKeepsTypes DEF Quiet
<1>4. ASSUME NEW t \in Thread, Collect(t)
      PROVE  TypeInv' /\ (ServerRestart \/ Grown(sessions, sessions'))
  BY <1>4, CollectKeepsTypes
<1>5. ASSUME NEW t \in Thread, Lifecycle(t)
      PROVE  TypeInv' /\ (ServerRestart \/ Grown(sessions, sessions'))
  BY <1>5, LifecycleKeepsTypes
<1>6. CASE UNCHANGED vars BY <1>6, StutterKeepsTypes
<1> QED BY <1>1, <1>2, <1>3, <1>4, <1>5, <1>6 DEF Next

LEMMA TypesAreSound == ASSUME TypeInv PROVE TypeOK
<1>1. NativeInv /\ ObjectsInv /\ CallsInv BY DEF TypeInv
<1>2. /\ native \in NativeType /\ native.id \in Nat /\ ids \in Nat /\ native.id <= ids
      /\ native.drain \in Nat /\ native.offset \in Nat
      /\ DOMAIN native.segments = 1 .. Len(native.segments)
      /\ Len(native.segments) \in Nat
      /\ \A k \in 1 .. Len(native.segments) : native.segments[k].sealed \in BOOLEAN
  BY <1>1, NativeFields DEF NativeInv, Shape
<1>3. ASSUME NEW k \in DOMAIN native.segments
      PROVE  /\ native.segments[k].index = native.next - Len(native.segments) + k
             /\ native.segments[k].sealed \/ k = Len(native.segments)
  <2>1. k \in 1 .. Len(native.segments) BY <1>2
  <2>2. native.segments[k].index = native.next - Len(native.segments) + k
    BY <1>1, <2>1 DEF NativeInv, Shape, Consecutive
  <2>3. CASE k # Len(native.segments)
    <3>1. Len(native.segments) \in 1 .. Len(native.segments) /\ k < Len(native.segments)
      BY <1>2, <2>1, <2>3
    <3> QED BY <1>1, <2>1, <2>2, <3>1 DEF NativeInv, Shape, Consecutive
  <2> QED BY <2>2, <2>3
<1>4. gone \subseteq DOMAIN owner
  <2>1. DOMAIN owner = 1 .. Len(owner) BY <1>1 DEF NativeInv
  <2> QED BY <1>1, <2>1 DEF NativeInv
<1>5. ASSUME NEW i \in Object
      PROVE  LET s == sessions[i] IN
             /\ s.count <= MaxEvents
             /\ FedSet(s) \subseteq 0 .. MaxRecords /\ s.last \in 0 .. MaxRecords
             /\ ~s.stopped => s.count + s.dropped = Len(s.fed)
             /\ Len(s.carry) < 2
  <2>1. i \in 1 .. Len(sessions) BY <1>1 DEF ObjectsInv, Object
  <2>2. ObjectOK(sessions[i]) BY <1>1, <2>1 DEF ObjectsInv
  <2> DEFINE s == sessions[i]
  <2>3. s \in SessionType /\ Ring(s) /\ Len(s.carry) < 2 BY <2>2 DEF ObjectOK
  <2> HIDE DEF s
  <2>4. s.fed \in Seq(RecordNo) /\ s.last \in RecordNo BY <2>3, SessionFields
  <2>5. FedSet(s) \subseteq RecordNo BY <2>4 DEF FedSet
  <2> QED BY <2>3, <2>4, <2>5 DEF Ring, RecordNo, s
<1>6. current \in 0 .. Len(sessions) /\ sched \in Thread \cup {None}
  BY <1>1 DEF ObjectsInv, CallsInv
<1>7. native.id \in 0 .. ids BY <1>2
<1> QED BY <1>2, <1>3, <1>4, <1>5, <1>6, <1>7 DEF TypeOK

\* The session objects, the native cursor and the retained window stay well formed
\* in every interleaving of collections, engine and lifecycle.
THEOREM SessionsAreTyped == Spec => []TypeOK
<1>1. Init => TypeInv BY TypesInitially
<1>2. TypeInv /\ [Next]_vars => TypeInv' BY StepKeepsTypes
<1>3. TypeInv => TypeOK BY TypesAreSound
<1> QED BY <1>1, <1>2, <1>3, PTL DEF Spec

(***************************************************************************)
(* Enumerating the events                                                  *)
(***************************************************************************)
\* What one page does to the counts of an enumeration that stands after the event
\* numbered after, or that begins.
LEMMA PageCounts ==
  ASSUME NEW s \in SessionType, Ring(s), NEW cursor \in BOOLEAN, NEW after,
         cursor => after \in Nat /\ after <= Len(s.fed)
  PROVE  LET begin == IF cursor THEN after ELSE Max({0, OldestSequence(s) - 1})
             page == SelectPage(s, IF cursor THEN after ELSE 0)
             evicted == IF cursor /\ OldestSequence(s) > begin + 1
                        THEN OldestSequence(s) - begin - 1 ELSE 0
             reached == IF page.returned = 0 THEN begin ELSE page.last
         IN  /\ begin \in Nat /\ page.returned \in Nat /\ evicted \in Nat
             /\ page.remaining \in Nat /\ reached \in Nat /\ reached <= Len(s.fed)
             /\ page.returned + evicted = reached - begin
             /\ ~(page.remaining > page.returned /\ page.returned > 0)
                  => reached = Len(s.fed)
<1> DEFINE len == Len(s.fed)
           oldest == OldestSequence(s)
           begin == IF cursor THEN after ELSE Max({0, oldest - 1})
           from == IF cursor THEN after ELSE 0
           page == SelectPage(s, from)
           evicted == IF cursor /\ oldest > begin + 1 THEN oldest - begin - 1 ELSE 0
           first == Max({from + 1, oldest})
           left == Max({0, len - first + 1})
           remaining == IF s.count = 0 THEN 0 ELSE left
           returned == Min({PageLimit, remaining})
           reached == IF page.returned = 0 THEN begin ELSE page.last
<1>1. /\ len \in Nat /\ s.count \in Nat /\ s.count <= len
      /\ s.count = 0 => len = 0
  BY SessionFields DEF Ring
<1>2. oldest = IF s.count = 0 THEN 0 ELSE len - s.count + 1 BY DEF OldestSequence
<1>3. oldest \in Int BY <1>1, <1>2
<1>4. from \in Int OBVIOUS
<1>5. page.returned = returned /\ page.remaining = remaining
      /\ page.last = first + returned - 1
  BY DEF SelectPage
<1> HIDE DEF len, oldest, page
<1>6. ~cursor => begin = IF 0 >= oldest - 1 THEN 0 ELSE oldest - 1
  BY <1>3, MaxOfTwo
<1> HIDE DEF from
<1>7. first = IF from + 1 >= oldest THEN from + 1 ELSE oldest BY <1>3, <1>4, MaxOfTwo
<1> HIDE DEF first
<1>8. first \in Int BY <1>3, <1>4, <1>7
<1>9. left = IF 0 >= len - first + 1 THEN 0 ELSE len - first + 1 BY <1>1, <1>8, MaxOfTwo
<1> HIDE DEF left
<1>10. remaining \in Nat BY <1>1, <1>8, <1>9
<1>15. remaining = IF s.count = 0 THEN 0 ELSE left OBVIOUS
<1> HIDE DEF remaining
<1>11. /\ returned = IF PageLimit =< remaining THEN PageLimit ELSE remaining
       /\ PageLimit \in Nat /\ PageLimit > 0
  BY <1>10, MinOfTwo, StoreAssumption
<1> HIDE DEF returned
<1>12. begin \in Nat /\ begin <= len /\ evicted \in Nat /\ returned \in Nat
  BY <1>1, <1>2, <1>6, <1>10, <1>11 DEF len
<1>13. CASE returned = 0
  <2>1. remaining = 0 BY <1>11, <1>13
  <2>2. reached = begin BY <1>5, <1>13
  <2>3. s.count > 0 => len < first BY <1>1, <1>8, <1>9, <1>15, <2>1
  <2>4. begin = len /\ evicted = 0
    <3>1. CASE s.count = 0 BY <1>1, <1>2, <1>12, <3>1
    <3>2. CASE s.count > 0 /\ cursor
      BY <1>1, <1>2, <1>7, <1>12, <2>3, <3>2 DEF from
    <3>3. CASE s.count > 0 /\ ~cursor
      BY <1>1, <1>2, <1>7, <2>3, <3>3 DEF from
    <3> QED BY <1>1, <3>1, <3>2, <3>3
  <2> HIDE DEF begin, evicted, reached
  <2>5. reached \in Nat /\ reached <= len /\ returned + evicted = reached - begin
    BY <1>1, <1>12, <1>13, <2>2, <2>4
  <2> QED BY <1>5, <1>10, <1>12, <2>2, <2>4, <2>5
          DEF begin, evicted, reached, page, from, oldest, len
<1>14. CASE returned # 0
  <2>1. remaining > 0 /\ returned <= remaining BY <1>10, <1>11, <1>12, <1>14
  <2>2. s.count > 0 /\ remaining = len - first + 1 BY <1>1, <1>8, <1>9, <1>15, <2>1
  <2>3. reached = first + returned - 1 BY <1>5, <1>14
  <2>4. first = begin + evicted + 1
    <3>1. CASE cursor BY <1>3, <1>7, <1>12, <3>1 DEF from
    <3>2. CASE ~cursor BY <1>3, <1>6, <1>7, <3>2 DEF from
    <3> QED BY <3>1, <3>2
  <2> HIDE DEF begin, evicted, reached
  <2>5. /\ reached \in Nat /\ reached <= len /\ returned + evicted = reached - begin
        /\ ~(remaining > returned /\ returned > 0) => reached = len
    BY <1>1, <1>8, <1>10, <1>12, <1>14, <2>1, <2>2, <2>3, <2>4
  <2> QED BY <1>5, <1>10, <1>12, <2>5
          DEF begin, evicted, reached, page, from, oldest, len
<1> QED BY <1>12, <1>13, <1>14

ReaderType ==
  [obj : {0}] \cup [obj : Nat \ {0}, start : Int, got : Int, skipped : Int, after : Int,
                    more : BOOLEAN, newest : Int]

\* The enumeration e is about one of the objects S, and its counts add up.
ReaderOK(e, S) ==
  /\ e \in ReaderType
  /\ e.obj # 0 =>
       /\ e.obj <= Len(S)
       /\ 0 <= e.after /\ e.after <= e.newest /\ e.newest <= Len(S[e.obj].fed)
       /\ e.got + e.skipped = e.after - e.start
       /\ ~e.more => e.after = e.newest

\* The call c will answer with the next page of an enumeration.
Continuing(c) == c.pc \in {"carry", "drain", "feed", "keep", "page"} /\ c.cursor

ReadersInv ==
  /\ reader \in [Thread -> ReaderType]
  /\ \A t \in Thread :
       /\ ReaderOK(reader[t], sessions)
       /\ Continuing(call[t]) => reader[t].obj # 0 /\ reader[t].obj = call[t].obj

LEMMA ReaderFields ==
  ASSUME NEW e \in ReaderType
  PROVE  /\ e.obj \in Nat
         /\ e.obj # 0 => /\ e.start \in Int /\ e.got \in Int /\ e.skipped \in Int
                         /\ e.after \in Int /\ e.newest \in Int /\ e.more \in BOOLEAN
BY DEF ReaderType

LEMMA ReaderStands ==
  ASSUME ObjectsInv, ObjectsInv', Grown(sessions, sessions'), NEW e, ReaderOK(e, sessions)
  PROVE  ReaderOK(e, sessions')
<1>1. e \in ReaderType BY DEF ReaderOK
<1>2. CASE e.obj = 0 BY <1>1, <1>2 DEF ReaderOK
<1>3. CASE e.obj # 0
  <2>1. e.obj \in Nat /\ e.newest \in Int BY <1>1, <1>3, ReaderFields
  <2>2. Len(sessions) \in Nat /\ Len(sessions') \in Nat /\ Len(sessions) <= Len(sessions')
    BY DEF ObjectsInv, Grown
  <2>3. e.obj \in 1 .. Len(sessions) /\ e.obj \in 1 .. Len(sessions')
    BY <1>3, <2>1, <2>2 DEF ReaderOK
  <2>4. sessions[e.obj] \in SessionType /\ sessions'[e.obj] \in SessionType
    BY <2>3 DEF ObjectsInv, ObjectOK
  <2>5. Len(sessions[e.obj].fed) \in Nat /\ Len(sessions'[e.obj].fed) \in Nat
    BY <2>4, SessionFields
  <2>6. Len(sessions[e.obj].fed) <= Len(sessions'[e.obj].fed) BY <2>3 DEF Grown, Later
  <2>7. e.newest <= Len(sessions'[e.obj].fed)
    BY <1>3, <2>1, <2>5, <2>6 DEF ReaderOK
  <2> QED BY <1>1, <1>3, <2>2, <2>3, <2>7 DEF ReaderOK
<1> QED BY <1>2, <1>3

\* Every step of a collection but a page goes on with the enumeration it was asked for.
LEMMA CollectingContinues ==
  ASSUME NEW t \in Thread, Collect(t), ~Page(t), CallsInv
  PROVE  /\ reader' = reader
         /\ \E c : /\ call' = [call EXCEPT ![t] = c]
                   /\ Continuing(c) => \/ Continuing(call[t]) /\ c.obj = call[t].obj
                                       \/ c.obj # 0 /\ c.obj = reader[t].obj
<1>1. ASSUME NEW tool \in Collector, NEW cursor \in BOOLEAN, NEW collect \in BOOLEAN,
             Begin(t, tool, cursor, collect)
      PROVE  /\ reader' = reader
             /\ \E c : /\ call' = [call EXCEPT ![t] = c]
                       /\ Continuing(c) => c.obj # 0 /\ c.obj = reader[t].obj
  <2> DEFINE c == [pc |-> IF collect THEN "carry" ELSE AfterStatus[tool],
                   tool |-> tool, obj |-> current, cursor |-> cursor]
  <2>1. call' = [call EXCEPT ![t] = c] /\ reader' = reader BY <1>1 DEF Begin
  <2>2. c.cursor => c.obj # 0 /\ c.obj = reader[t].obj BY <1>1 DEF Begin
  <2> HIDE DEF c
  <2> QED BY <2>1, <2>2 DEF Continuing
<1>2. ASSUME ReadCarry(t) \/ Drain(t) \/ KeepCarry(t)
             \/ \E misread \in BOOLEAN : Feed(t, misread)
      PROVE  /\ reader' = reader
             /\ \E c : /\ call' = [call EXCEPT ![t] = c]
                       /\ Continuing(c) => Continuing(call[t]) /\ c.obj = call[t].obj
  <2>1. /\ reader' = reader /\ call[t].pc \in {"carry", "drain", "feed", "keep"}
        /\ \E c : /\ call' = [call EXCEPT ![t] = c]
                  /\ c.obj = call[t].obj /\ c.cursor = call[t].cursor
    <3>1. CASE ReadCarry(t)
      <4> DEFINE c == [pc |-> "drain", tool |-> call[t].tool, obj |-> call[t].obj,
                       cursor |-> call[t].cursor, seg |-> sessions[call[t].obj].cseg,
                       carry |-> sessions[call[t].obj].carry, read |-> 0,
                       sealing |-> TRUE]
      <4>1. call' = [call EXCEPT ![t] = c] BY <3>1 DEF ReadCarry, CallsInv
      <4>2. c.obj = call[t].obj /\ c.cursor = call[t].cursor OBVIOUS
      <4> HIDE DEF c
      <4> QED BY <3>1, <4>1, <4>2 DEF ReadCarry
    <3>2. CASE Drain(t)
      <4> DEFINE n == Evict(Sealed(native, call[t].sealing))
                 c == [pc |-> "feed", tool |-> call[t].tool, obj |-> call[t].obj,
                       cursor |-> call[t].cursor, seg |-> call[t].seg,
                       carry |-> call[t].carry, read |-> call[t].read,
                       chunk |-> Drained(n), unread |-> AfterDrain(n).unread,
                       done |-> Drainable(AfterDrain(n)) = {}]
      <4>1. call' = [call EXCEPT ![t] = c] BY <3>2 DEF Drain, CallsInv
      <4>2. c.obj = call[t].obj /\ c.cursor = call[t].cursor OBVIOUS
      <4> HIDE DEF c
      <4> QED BY <3>2, <4>1, <4>2 DEF Drain
    <3>3. CASE KeepCarry(t)
      <4> DEFINE c == [pc |-> AfterStatus[call[t].tool], tool |-> call[t].tool,
                       obj |-> call[t].obj, cursor |-> call[t].cursor]
      <4>1. call' = [call EXCEPT ![t] = c] BY <3>3 DEF KeepCarry, CallsInv
      <4>2. c.obj = call[t].obj /\ c.cursor = call[t].cursor OBVIOUS
      <4> HIDE DEF c
      <4> QED BY <3>3, <4>1, <4>2 DEF KeepCarry
    <3>4. ASSUME NEW misread \in BOOLEAN, Feed(t, misread)
          PROVE  /\ reader' = reader /\ call[t].pc = "feed"
                 /\ \E c : /\ call' = [call EXCEPT ![t] = c]
                           /\ c.obj = call[t].obj /\ c.cursor = call[t].cursor
      <4> DEFINE b == call[t]
                 empty == b.chunk.data = <<>>
                 cut == Cut([seg |-> b.seg, carry |-> b.carry], b.chunk)
                 read == b.read + Len(b.chunk.data)
                 c == [pc |-> IF b.done \/ read >= Budget THEN "keep" ELSE "drain",
                       tool |-> b.tool, obj |-> b.obj, cursor |-> b.cursor,
                       seg |-> IF empty THEN b.seg ELSE b.chunk.seg,
                       carry |-> IF empty THEN b.carry ELSE cut.carry,
                       read |-> read, sealing |-> FALSE]
      <4>1. call' = [call EXCEPT ![t] = c] BY <3>4 DEF Feed
      <4>2. c.obj = call[t].obj /\ c.cursor = call[t].cursor OBVIOUS
      <4> HIDE DEF c
      <4> QED BY <3>4, <4>1, <4>2 DEF Feed
    <3> QED BY <1>2, <3>1, <3>2, <3>3, <3>4 DEF ReadCarry, Drain, KeepCarry
  <2> QED BY <2>1 DEF Continuing
<1>3. ASSUME (\E executed \in BOOLEAN : DrainFails(t, executed)) \/ StatusFails(t)
             \/ Save(t) \/ Snapshot(t)
      PROVE  /\ reader' = reader
             /\ \E c : call' = [call EXCEPT ![t] = c] /\ ~Continuing(c)
  <2> DEFINE idle == [pc |-> "idle"]
             saving == [pc |-> "save", manifest |-> NewManifest(sessions[call[t].obj])]
  <2>1. ~Continuing(idle) /\ ~Continuing(saving) BY DEF Continuing
  <2>2. reader' = reader
        /\ (call' = [call EXCEPT ![t] = idle] \/ call' = [call EXCEPT ![t] = saving])
    BY <1>3 DEF DrainFails, StatusFails, Save, Snapshot, Return, CallsInv
  <2> HIDE DEF idle, saving
  <2> QED BY <2>1, <2>2
<1> QED BY <1>1, <1>2, <1>3 DEF Collect

LEMMA LifecycleDoesNotPage ==
  ASSUME NEW t \in Thread, Lifecycle(t), CallsInv
  PROVE  reader' = reader /\ \E c : call' = [call EXCEPT ![t] = c] /\ ~Continuing(c)
<1>1. reader' = reader
  BY DEF Lifecycle, BeginStart, BeginLoad, EnterScheduler, StartNative, LoadNative,
         CommitStart, CommitStop, CommitLoad, StopNative, NativeFails, Recover, CheckLive,
         Install
<1>2. ASSUME NEW pc \in {"native", "commit", "replace"}, call' = [call EXCEPT ![t].pc = pc]
      PROVE  \E c : call' = [call EXCEPT ![t] = c] /\ ~Continuing(c)
  <2> DEFINE c == [call[t] EXCEPT !.pc = pc]
  <2>1. call[t] \in CallType BY DEF CallsInv
  <2>2. c.pc = pc BY <2>1 DEF CallType, Idle, Plain, Carrying, Feeding, Starting, Loading,
                              Opened, Saving, Recovering
  <2>3. call' = [call EXCEPT ![t] = c] BY <1>2 DEF CallsInv
  <2> HIDE DEF c
  <2>4. ~Continuing(c) BY <2>2 DEF Continuing
  <2> QED BY <2>3, <2>4
<1>3. ASSUME call' = [call EXCEPT ![t] = [pc |-> "idle"]]
      PROVE  \E c : call' = [call EXCEPT ![t] = c] /\ ~Continuing(c)
  <2> DEFINE c == [pc |-> "idle"]
  <2>1. ~Continuing(c) BY DEF Continuing
  <2>2. call' = [call EXCEPT ![t] = c] BY <1>3
  <2> HIDE DEF c
  <2> QED BY <2>1, <2>2
<1>4. ASSUME (\E mode \in Modes : BeginStart(t, mode)) \/ BeginLoad(t) \/ CommitStart(t)
             \/ (\E id \in SessionIds : Recover(t, id))
      PROVE  \E c : call' = [call EXCEPT ![t] = c] /\ ~Continuing(c)
  <2>1. ASSUME NEW mode \in Modes, BeginStart(t, mode)
        PROVE  \E c : call' = [call EXCEPT ![t] = c] /\ c.pc = "sched"
    <3> DEFINE c == [pc |-> "sched", tool |-> "start", id |-> ids + 1, mode |-> mode]
    <3>1. call' = [call EXCEPT ![t] = c] /\ c.pc = "sched" BY <2>1 DEF BeginStart
    <3> HIDE DEF c
    <3> QED BY <3>1
  <2>2. ASSUME BeginLoad(t)
        PROVE  \E c : call' = [call EXCEPT ![t] = c] /\ c.pc = "sched"
    <3> DEFINE c == [pc |-> "sched", tool |-> "load"]
    <3>1. call' = [call EXCEPT ![t] = c] /\ c.pc = "sched" BY <2>2 DEF BeginLoad
    <3> HIDE DEF c
    <3> QED BY <3>1
  <2>3. ASSUME CommitStart(t)
        PROVE  \E c : call' = [call EXCEPT ![t] = c] /\ c.pc = "persist"
    <3> DEFINE c == [pc |-> "persist", tool |-> "start", obj |-> Len(sessions) + 1]
    <3>1. call' = [call EXCEPT ![t] = c] /\ c.pc = "persist" BY <2>3 DEF CommitStart
    <3> HIDE DEF c
    <3> QED BY <3>1
  <2>4. ASSUME NEW id \in SessionIds, Recover(t, id)
        PROVE  \E c : call' = [call EXCEPT ![t] = c] /\ c.pc = "check"
    <3> DEFINE c == [pc |-> "check", manifest |-> manifests[id]]
    <3>1. call' = [call EXCEPT ![t] = c] /\ c.pc = "check" BY <2>4 DEF Recover
    <3> HIDE DEF c
    <3> QED BY <3>1
  <2> QED BY <1>4, <2>1, <2>2, <2>3, <2>4 DEF Continuing
<1>5. CASE EnterScheduler(t) \/ StartNative(t) \/ LoadNative(t) \/ CheckLive(t)
           \/ \E delete \in BOOLEAN : StopNative(t, delete)
  <2>1. \/ call' = [call EXCEPT ![t].pc = "native"]
        \/ call' = [call EXCEPT ![t].pc = "commit"]
        \/ call' = [call EXCEPT ![t].pc = "replace"]
        \/ call' = [call EXCEPT ![t] = [pc |-> "idle"]]
    BY <1>5 DEF EnterScheduler, StartNative, LoadNative, CheckLive, StopNative, Go, Return
  <2> QED BY <1>1, <1>2, <1>3, <2>1
<1>6. CASE CommitStop(t) \/ CommitLoad(t) \/ Install(t)
           \/ \E outcome \in {"unsent", "refused", "lost"} : NativeFails(t, outcome)
  BY <1>3, <1>6 DEF CommitStop, CommitLoad, Install, NativeFails, Return
<1> QED BY <1>1, <1>4, <1>5, <1>6 DEF Lifecycle

AddsUp(e) == e \in ReaderType /\ e.got + e.skipped = e.after - e.start

LEMMA EnumerationGoesOn ==
  ASSUME NEW obj \in Nat \ {0}, NEW start \in Int, NEW got \in Int, NEW skipped \in Int,
         NEW begin \in Nat, NEW returned \in Nat, NEW evicted \in Nat, NEW after \in Nat,
         NEW more \in BOOLEAN, NEW newest \in Nat,
         got + skipped = begin - start, returned + evicted = after - begin
  PROVE  AddsUp([obj |-> obj, start |-> start, got |-> got + returned,
                 skipped |-> skipped + evicted, after |-> after, more |-> more,
                 newest |-> newest])
BY DEF ReaderType, AddsUp

\* A page leaves an enumeration whose counts add up again.
LEMMA PageReads ==
  ASSUME TypeInv, ReadersInv, NEW t \in Thread, Page(t)
  PROVE  /\ \E e : reader' = [reader EXCEPT ![t] = e] /\ ReaderOK(e, sessions)
         /\ \E c : call' = [call EXCEPT ![t] = c] /\ ~Continuing(c)
<1>0. CallsInv /\ ObjectsInv BY DEF TypeInv
<1> DEFINE obj == call[t].obj
           s == sessions[obj]
           cursor == call[t].cursor
           old == reader[t]
           begun == IF cursor THEN old
                    ELSE [obj |-> obj, start |-> Max({0, OldestSequence(s) - 1}), got |-> 0,
                          skipped |-> 0, after |-> Max({0, OldestSequence(s) - 1})]
           page == SelectPage(s, IF cursor THEN old.after ELSE 0)
           evicted == IF cursor /\ OldestSequence(s) > begun.after + 1
                      THEN OldestSequence(s) - begun.after - 1 ELSE 0
           after == IF page.returned = 0 THEN begun.after ELSE page.last
           more == page.remaining > page.returned /\ page.returned > 0
           e == [obj |-> obj, start |-> begun.start, got |-> begun.got + page.returned,
                 skipped |-> begun.skipped + evicted, after |-> after, more |-> more,
                 newest |-> Len(s.fed)]
           c == [call[t] EXCEPT !.pc = "persist"]
<1>1. call[t] \in Plain /\ call[t].pc = "page" /\ obj \in 1 .. Len(sessions)
  BY <1>0, CallKinds DEF Page, CallsInv, CallOK, About
<1>2. cursor \in BOOLEAN /\ obj \in Nat \ {0} /\ Len(sessions) \in Nat
  BY <1>0, <1>1 DEF Plain, ObjectsInv
<1>3. s \in SessionType /\ Ring(s) /\ Len(s.fed) \in Nat
  BY <1>0, <1>1, SessionFields DEF ObjectsInv, ObjectOK
<1>4. reader' = [reader EXCEPT ![t] = e] BY DEF Page, NextCursor
<1>5. \E d : call' = [call EXCEPT ![t] = d] /\ ~Continuing(d)
  <2>1. c.pc = "persist" BY <1>1 DEF Plain
  <2>2. call' = [call EXCEPT ![t] = c] BY <1>0 DEF Page, Go, CallsInv
  <2> HIDE DEF c
  <2> QED BY <2>1, <2>2 DEF Continuing
<1>6. cursor => /\ old.obj = obj /\ old.start \in Int /\ old.got \in Int
                /\ old.skipped \in Int /\ old.after \in Nat /\ old.after <= Len(s.fed)
                /\ old.got + old.skipped = old.after - old.start
  <2>1. ASSUME cursor
        PROVE  /\ old.obj = obj /\ ReaderOK(old, sessions)
    BY <1>1, <2>1 DEF ReadersInv, Continuing
  <2>2. ASSUME cursor PROVE /\ old.start \in Int /\ old.got \in Int /\ old.skipped \in Int
                            /\ old.after \in Int /\ old.newest \in Int
    BY <1>2, <2>1, <2>2, ReaderFields DEF ReaderOK
  <2> HIDE DEF old, s, obj, cursor
  <2>3. ASSUME cursor PROVE old.newest <= Len(s.fed) /\ 0 <= old.after
                            /\ old.after <= old.newest
                            /\ old.got + old.skipped = old.after - old.start
    BY <1>2, <2>1, <2>3 DEF ReaderOK, s
  <2> QED BY <1>3, <2>1, <2>2, <2>3
<1> DEFINE begin == IF cursor THEN old.after ELSE Max({0, OldestSequence(s) - 1})
<1>7. /\ begun.after = begin
      /\ ~cursor => begun.start = begin /\ begun.got = 0 /\ begun.skipped = 0
      /\ cursor => begun = old
  OBVIOUS
<1> HIDE DEF begun, s, obj, cursor, old
<1>8. /\ begin \in Nat /\ page.returned \in Nat /\ evicted \in Nat
      /\ page.remaining \in Nat /\ after \in Nat /\ after <= Len(s.fed)
      /\ page.returned + evicted = after - begin
      /\ ~more => after = Len(s.fed)
  <2>1. /\ begin \in Nat /\ page.returned \in Nat
        /\ (IF cursor /\ OldestSequence(s) > begin + 1
            THEN OldestSequence(s) - begin - 1 ELSE 0) \in Nat
        /\ page.remaining \in Nat
        /\ (IF page.returned = 0 THEN begin ELSE page.last) \in Nat
        /\ (IF page.returned = 0 THEN begin ELSE page.last) <= Len(s.fed)
        /\ page.returned + (IF cursor /\ OldestSequence(s) > begin + 1
                            THEN OldestSequence(s) - begin - 1 ELSE 0)
             = (IF page.returned = 0 THEN begin ELSE page.last) - begin
        /\ ~more => (IF page.returned = 0 THEN begin ELSE page.last) = Len(s.fed)
    BY <1>2, <1>3, <1>6, PageCounts
  <2> QED BY <1>7, <2>1
<1> HIDE DEF page, evicted, after, begin
<1>9. /\ begun.start \in Int /\ begun.got \in Int /\ begun.skipped \in Int
      /\ begun.got + begun.skipped = begin - begun.start
  BY <1>6, <1>7, <1>8 DEF begin
<1>10. more \in BOOLEAN OBVIOUS
<1> HIDE DEF more
<1>12. /\ e.obj = obj /\ e.start = begun.start /\ e.got = begun.got + page.returned
       /\ e.skipped = begun.skipped + evicted /\ e.after = after /\ e.more = more
       /\ e.newest = Len(s.fed)
  OBVIOUS
<1>11. e \in ReaderType /\ e.got + e.skipped = e.after - e.start
  <2>1. page.returned \in Nat /\ evicted \in Nat /\ after \in Nat /\ begin \in Nat
        /\ Len(s.fed) \in Nat /\ page.returned + evicted = after - begin
    BY <1>3, <1>8
  <2>2. AddsUp(e) BY ONLY <1>2, <1>9, <1>10, <2>1, EnumerationGoesOn DEF e
  <2> QED BY <2>2 DEF AddsUp
<1> HIDE DEF e
<1>14. e.obj <= Len(sessions) /\ e.newest <= Len(sessions[e.obj].fed)
  BY <1>1, <1>2, <1>3, <1>12 DEF s
<1>15. ReaderOK(e, sessions) BY <1>3, <1>8, <1>11, <1>12, <1>14 DEF ReaderOK
<1> QED BY <1>4, <1>5, <1>15

LEMMA StepKeepsReaders ==
  ASSUME TypeInv, ReadersInv, [Next]_vars
  PROVE  ReadersInv'
<1>0. ObjectsInv /\ CallsInv BY DEF TypeInv
<1>1. TypeInv' /\ (ServerRestart \/ Grown(sessions, sessions')) BY StepKeepsTypes
<1>2. ObjectsInv' /\ CallsInv' BY <1>1 DEF TypeInv
<1>3. CASE ServerRestart
  <2> DEFINE e == [obj |-> 0]
  <2>1. e \in ReaderType /\ e.obj = 0 BY DEF ReaderType
  <2>2. reader' = [u \in Thread |-> e] /\ call' = [u \in Thread |-> [pc |-> "idle"]]
    BY <1>3 DEF ServerRestart
  <2> HIDE DEF e
  <2>3. \A u \in Thread : ReaderOK(reader'[u], sessions') BY <2>1, <2>2 DEF ReaderOK
  <2>4. \A u \in Thread : ~Continuing(call'[u]) BY <2>2 DEF Continuing
  <2>5. reader' \in [Thread -> ReaderType] BY <2>1, <2>2
  <2> QED BY <2>3, <2>4, <2>5 DEF ReadersInv
<1>4. ASSUME Grown(sessions, sessions'), reader' = reader, call' = call
      PROVE  ReadersInv'
  BY <1>0, <1>2, <1>4, ReaderStands DEF ReadersInv
<1>5. ASSUME Grown(sessions, sessions'), NEW t \in Thread, NEW c, NEW e,
             call' = [call EXCEPT ![t] = c], reader' = [reader EXCEPT ![t] = e],
             ReaderOK(e, sessions), Continuing(c) => e.obj # 0 /\ e.obj = c.obj
      PROVE  ReadersInv'
  <2>1. e \in ReaderType BY <1>5 DEF ReaderOK
  <2>2. reader' \in [Thread -> ReaderType] BY <1>5, <2>1 DEF ReadersInv
  <2>3. ASSUME NEW u \in Thread
        PROVE  /\ ReaderOK(reader'[u], sessions')
               /\ Continuing(call'[u]) => reader'[u].obj # 0 /\ reader'[u].obj = call'[u].obj
    <3>1. CASE u = t
      <4>1. reader'[u] = e /\ call'[u] = c BY <1>0, <1>5, <3>1 DEF ReadersInv, CallsInv
      <4>2. ReaderOK(e, sessions') BY <1>0, <1>2, <1>5, ReaderStands
      <4> QED BY <1>5, <4>1, <4>2
    <3>2. CASE u # t
      <4>1. reader'[u] = reader[u] /\ call'[u] = call[u]
        BY <1>0, <1>5, <3>2 DEF ReadersInv, CallsInv
      <4>2. ReaderOK(reader[u], sessions') BY <1>0, <1>2, <1>5, ReaderStands DEF ReadersInv
      <4> QED BY <4>1, <4>2 DEF ReadersInv
    <3> QED BY <3>1, <3>2
  <2> QED BY <2>2, <2>3 DEF ReadersInv
<1>6. ASSUME NEW t \in Thread, Page(t), Grown(sessions, sessions') PROVE ReadersInv'
  BY <1>5, <1>6, PageReads
<1>7. ASSUME NEW t \in Thread, NEW c, Grown(sessions, sessions'), reader' = reader,
             call' = [call EXCEPT ![t] = c],
             Continuing(c) => \/ Continuing(call[t]) /\ c.obj = call[t].obj
                              \/ c.obj # 0 /\ c.obj = reader[t].obj
      PROVE  ReadersInv'
  <2>1. reader' = [reader EXCEPT ![t] = reader[t]] BY <1>7 DEF ReadersInv
  <2>2. ReaderOK(reader[t], sessions) BY DEF ReadersInv
  <2>3. Continuing(c) => reader[t].obj # 0 /\ reader[t].obj = c.obj BY <1>7 DEF ReadersInv
  <2> QED BY <1>5, <1>7, <2>1, <2>2, <2>3
<1>8. ASSUME NEW t \in Thread, Collect(t), ~Page(t), Grown(sessions, sessions')
      PROVE  ReadersInv'
  BY <1>0, <1>7, <1>8, CollectingContinues
<1>9. ASSUME NEW t \in Thread, Lifecycle(t), Grown(sessions, sessions') PROVE ReadersInv'
  BY <1>0, <1>7, <1>9, LifecycleDoesNotPage
<1>10. CASE Emulator /\ Grown(sessions, sessions')
  <2>1. reader' = reader /\ call' = call
    BY <1>10 DEF Emulator, WriteRecord, Rotate, CloseWindow, FrameLimit, ProcessorGone
  <2> QED BY <1>4, <1>10, <2>1
<1>11. CASE (Quiet \/ UNCHANGED vars) /\ Grown(sessions, sessions')
  BY <1>4, <1>11 DEF Quiet, vars
<1> QED BY <1>1, <1>3, <1>6, <1>8, <1>9, <1>10, <1>11 DEF Next

\* An enumeration of the events by cursor (runTraceSessionEvents) accounts for every
\* event up to its cursor, whatever enters and leaves the ring between its pages.
THEOREM PagesAreHonest == Spec => []PagingHonest
<1>1. Init => TypeInv /\ ReadersInv
  <2> SUFFICES ASSUME Init PROVE TypeInv /\ ReadersInv OBVIOUS
  <2> DEFINE e == [obj |-> 0]
  <2>1. e \in ReaderType /\ e.obj = 0 BY DEF ReaderType
  <2>2. reader = [u \in Thread |-> e] /\ call = [u \in Thread |-> [pc |-> "idle"]]
    BY DEF Init
  <2> HIDE DEF e
  <2>3. \A u \in Thread : ReaderOK(reader[u], sessions) BY <2>1, <2>2 DEF ReaderOK
  <2>4. \A u \in Thread : ~Continuing(call[u]) BY <2>2 DEF Continuing
  <2>5. reader \in [Thread -> ReaderType] BY <2>1, <2>2
  <2> QED BY <2>3, <2>4, <2>5, TypesInitially DEF ReadersInv
<1>2. TypeInv /\ ReadersInv /\ [Next]_vars => TypeInv' /\ ReadersInv'
  BY StepKeepsTypes, StepKeepsReaders
<1>3. ReadersInv => PagingHonest BY DEF ReadersInv, ReaderOK, PagingHonest
<1> QED BY <1>1, <1>2, <1>3, PTL DEF Spec

(***************************************************************************)
(* Drained in order                                                        *)
(*                                                                         *)
(* seg and carry are what a collection holds between two drains. They join *)
(* the cursor when the next chunk goes on where they stop: a cursor inside *)
(* a line has left its beginning in the carry; any other carry is of a     *)
(* segment the cursor has passed, and will be dropped.                     *)
(***************************************************************************)
Joined(n, seg, carry) ==
  IF n.offset % 2 = 1
  THEN seg = n.drain /\ carry = <<2 * (n.segments[Pos(n)].from - 1) + n.offset>>
  ELSE carry = <<>> \/ seg < n.drain

LEMMA FrontierInRange ==
  ASSUME NEW records \in Nat, NEW n, Shape(n, records)
  PROVE  Frontier(n, records) \in Nat /\ Frontier(n, records) \in 1 .. records + 1
<1> DEFINE p == Pos(n)
           len == Len(n.segments)
           segment == n.segments[p]
<1>1. n \in NativeType /\ CursorOK(n) /\ Consecutive(n.segments, n.next, records)
  BY DEF Shape
<1>2. len \in Nat /\ n.offset \in Nat /\ p \in 1 .. len + 1
  BY <1>1, NativeFields DEF CursorOK
<1>3. CASE p = len + 1 BY <1>3 DEF Frontier
<1>4. CASE p # len + 1
  <2>1. p \in 1 .. len BY <1>2, <1>4
  <2>2. /\ segment.from \in Nat /\ segment.to \in Nat /\ 1 <= segment.from
        /\ segment.from <= segment.to + 1 /\ segment.to <= records
    BY <1>1, <2>1, NativeFields DEF Consecutive
  <2>3. n.offset > 0 => n.offset < 2 * (segment.to - segment.from + 1)
    BY <1>1 DEF CursorOK
  <2>4. Frontier(n, records) = segment.from + n.offset \div 2
    BY <1>4 DEF Frontier
  <2> HIDE DEF segment
  <2>5. n.offset \div 2 \in Nat /\ (n.offset > 0 => n.offset \div 2 < segment.to - segment.from + 1)
    <3>1. \A i \in Nat, w \in Int : i \div 2 \in Nat /\ (i < 2 * w => i \div 2 < w) OBVIOUS
    <3> DEFINE w == segment.to - segment.from + 1
               i == n.offset
    <3>2. i \in Nat /\ w \in Int BY <1>2, <2>2
    <3>3. i > 0 => i < 2 * w BY <2>3
    <3> HIDE DEF i, w
    <3>4. i \div 2 \in Nat /\ (i > 0 => i \div 2 < w) BY ONLY <3>1, <3>2, <3>3
    <3> QED BY ONLY <3>4 DEF i, w
  <2>6. n.offset = 0 => n.offset \div 2 = 0 OBVIOUS
  <2> DEFINE h == n.offset \div 2
             f == segment.from
             t == segment.to
  <2>7. h \in Nat /\ (h < t - f + 1 \/ h = 0) BY <1>2, <2>5, <2>6
  <2>8. f \in Nat /\ t \in Nat /\ 1 <= f /\ f <= t + 1 /\ t <= records BY <2>2
  <2>9. Frontier(n, records) = f + h BY <2>4
  <2> HIDE DEF h, f, t
  <2>10. f + h \in Nat /\ f + h \in 1 .. records + 1 BY <2>7, <2>8
  <2> QED BY ONLY <2>9, <2>10
<1> QED BY <1>3, <1>4

LEMMA JoinedAdvances ==
  ASSUME NEW records \in Nat, NEW n, Shape(n, records), NEW z, Shape(z, records),
         NEW lost, Advances(n, z, lost, records),
         NEW seg \in Nat, NEW carry, Joined(n, seg, carry)
  PROVE  Joined(z, seg, carry)
<1>1. n.offset \in Nat /\ n.drain \in Nat /\ z.drain \in Nat
  BY NativeFields DEF Shape
<1>2. CASE z.drain = n.drain /\ z.offset = n.offset
           /\ (n.offset > 0 => z.segments[Pos(z)].from = n.segments[Pos(n)].from)
  <2>1. CASE n.offset % 2 = 1
    <3>1. n.offset > 0
      <4>1. n.offset # 0 BY <2>1
      <4> QED BY <1>1, <4>1
    <3> QED BY <1>2, <2>1, <3>1 DEF Joined
  <2>2. CASE n.offset % 2 # 1 BY <1>2, <2>2 DEF Joined
  <2> QED BY <2>1, <2>2
<1>3. CASE z.drain > n.drain /\ z.offset = 0
  <2>1. z.offset % 2 # 1 BY <1>3
  <2>2. carry = <<>> \/ seg < z.drain
    <3>1. seg = n.drain \/ carry = <<>> \/ seg < n.drain BY DEF Joined
    <3> QED BY <1>1, <1>3, <3>1
  <2> QED BY <2>1, <2>2 DEF Joined
<1> QED BY <1>2, <1>3 DEF Advances

\* What is carried and what the chunk brings are one run of cells.
LEMMA CarriedRun ==
  ASSUME NEW h, NEW c, NEW a \in Nat, NEW e \in {0, 1}, c.data \in Seq(Cell),
         CarriedFor(h, c) = IF e = 1 THEN <<2 * a + 1>> ELSE <<>>,
         e = 1 => 2 * a + 1 \in Cell,
         \A i \in 1 .. Len(c.data) : c.data[i] = 2 * a + e + i
  PROVE  LET raw == CarriedFor(h, c) \o c.data
         IN  RunOf(raw, a) /\ Len(raw) = e + Len(c.data)
<1> DEFINE raw == CarriedFor(h, c) \o c.data
           d == c.data
<1>0. d \in Seq(Cell) /\ Len(d) \in Nat /\ \A i \in 1 .. Len(d) : d[i] = 2 * a + e + i
  OBVIOUS
<1>1. CASE e = 0
  <2>1. raw = d BY <1>0, <1>1
  <2>2. Len(raw) = e + Len(d) /\ \A i \in 1 .. Len(raw) : raw[i] = 2 * a + i
    <3> HIDE DEF d, raw
    <3> QED BY <1>0, <1>1, <2>1
  <2> QED BY <1>0, <2>1, <2>2 DEF RunOf
<1>2. CASE e = 1
  <2> DEFINE x == 2 * a + 1
  <2>1. x \in Cell /\ CarriedFor(h, c) = <<x>> BY <1>2
  <2>2. raw = <<x>> \o d BY <2>1
  <2> HIDE DEF raw, d
  <2>3. <<x>> \in Seq(Cell) /\ Len(<<x>>) = 1 /\ <<x>>[1] = x BY <2>1
  <2>4. /\ raw \in Seq(Cell) /\ Len(raw) = 1 + Len(d)
        /\ \A i \in 1 .. 1 + Len(d) : raw[i] = IF i <= 1 THEN <<x>>[i] ELSE d[i - 1]
    BY <1>0, <2>2, <2>3
  <2>5. ASSUME NEW i \in 1 .. 1 + Len(d) PROVE raw[i] = 2 * a + i
    <3>1. CASE i = 1 BY <2>3, <2>4, <3>1
    <3>2. CASE i # 1
      <4>1. ~(i <= 1) /\ i - 1 \in 1 .. Len(d) BY <1>0, <3>2
      <4>2. raw[i] = 2 * a + e + (i - 1) BY <1>0, <2>4, <4>1
      <4> QED BY <1>0, <1>2, <4>2
    <3> QED BY <3>1, <3>2
  <2>6. RunOf(raw, a) BY <2>4, <2>5 DEF RunOf
  <2> QED BY <1>2, <2>4, <2>6 DEF d, raw
<1> QED BY <1>1, <1>2

\* o is the offset before a chunk of L cells of the segment from .. to, after q whole
\* lines and e cells of the next; the chunk completes m lines and leaves odd cells.
LEMMA ChunkNumbers ==
  ASSUME NEW q \in Nat, NEW m \in Nat, NEW e \in {0, 1}, NEW odd \in {0, 1},
         NEW from \in Nat, NEW to \in Nat, NEW o \in Nat, NEW L \in Nat,
         o = 2 * q + e, e + L = 2 * m + odd, o + L <= 2 * (to - from + 1)
  PROVE  /\ o + L >= 2 * (to - from + 1) => odd = 0 /\ from - 1 + q + m = to
         /\ from - 1 + q + m <= to
         /\ (o + L) \div 2 = q + m /\ (o + L) % 2 = odd
<1>1. o + L = 2 * (q + m) + odd /\ q + m \in Nat OBVIOUS
<1> DEFINE k == q + m
           w == to - from + 1
<1>2. k \in Nat /\ w \in Int /\ o + L = 2 * k + odd /\ o + L <= 2 * w BY <1>1
<1>3. (o + L >= 2 * w => odd = 0 /\ k = w) /\ k <= w
  <2> HIDE DEF k, w
  <2> QED BY <1>2
<1>4. (o + L) \div 2 = k /\ (o + L) % 2 = odd
  <2> HIDE DEF k
  <2>1. (2 * k + odd) \div 2 = k /\ (2 * k + odd) % 2 = odd BY <1>2
  <2> QED BY <1>2, <2>1
<1> QED BY <1>3, <1>4

\* A collection that holds seg and carry is given data.
Gives(n, seg, carry, records) ==
  /\ records \in Nat /\ records <= MaxRecords /\ Shape(n, records)
  /\ seg \in Nat /\ carry \in Seq(Cell) /\ Joined(n, seg, carry)
  /\ Drained(n).data # <<>>

\* It continues the line the carry began: what is cut from it are the whole lines of
\* a + 1 .. a + m, from the old frontier to the new one.
Joins(n, seg, carry, records, a, m) ==
  LET cut == Cut([seg |-> seg, carry |-> carry], Drained(n))
  IN  /\ Joined(AfterDrain(n), Drained(n).seg, cut.carry)
      /\ Frontier(n, records) = a + 1 /\ Frontier(AfterDrain(n), records) = a + m + 1
      /\ a + m <= records
      /\ cut.whole = Cells(a + 1, a + m)
      /\ \A r \in a + 1 .. a + m :
           r \in n.segments[Pos(n)].from .. n.segments[Pos(n)].to

LEMMA DrainedJoins ==
  ASSUME NEW records, NEW n, NEW seg, NEW carry, Gives(n, seg, carry, records)
  PROVE  \E a, m \in Nat : Joins(n, seg, carry, records, a, m)
<1> USE DEF Gives
<1> DEFINE c == Drained(n)
           z == AfterDrain(n)
           p == Pos(n)
           from == n.segments[p].from
           to == n.segments[p].to
           h == [seg |-> seg, carry |-> carry]
           raw == CarriedFor(h, c) \o c.data
           o == n.offset
           L == Len(c.data)
           q == o \div 2
           e == o % 2
           a == from - 1 + q
<1>1. Drainable(n) # {} BY DrainedChunk
<1>2. /\ p \in 1 .. Len(n.segments) /\ c.seg = n.drain /\ c.offset = o /\ ChunkOK(c)
      /\ c.size = 2 * (to - from + 1)
      /\ o + L <= c.size
      /\ \A i \in 1 .. L : c.data[i] = 2 * (from - 1) + o + i
  BY <1>1, DrainedChunk
<1>3. /\ Shape(z, records) /\ z.segments = n.segments
      /\ IF o + L >= c.size
         THEN z.drain = n.drain + 1 /\ z.offset = 0 /\ Frontier(z, records) = to + 1
         ELSE /\ z.drain = n.drain /\ z.offset = o + L
              /\ Pos(z) = p /\ Frontier(z, records) = from + z.offset \div 2
  BY <1>1, <1>2, DrainingKeepsTheShape
<1>4. /\ from \in Nat /\ to \in Nat /\ 1 <= from /\ from <= to + 1 /\ to <= records
      /\ o \in Nat /\ n.drain \in Nat
  BY <1>2, NativeFields DEF Shape, Consecutive
<1>5. Frontier(n, records) = from + q
  <2>1. p # Len(n.segments) + 1 BY <1>2, NativeFields DEF Shape
  <2> QED BY <2>1 DEF Frontier
<1>6. c.data \in Seq(Cell) /\ L \in Nat BY <1>2 DEF ChunkOK
<1>7. q \in Nat /\ e \in {0, 1} /\ o = 2 * q + e BY <1>4, Halves
<1>8. CarriedFor(h, c) = (IF e = 1 THEN <<2 * (from - 1) + o>> ELSE <<>>)
      /\ (e = 1 => 2 * (from - 1) + o \in Cell)
  <2>1. h.seg = seg /\ h.carry = carry OBVIOUS
  <2>2. CASE e = 1
    <3>1. seg = n.drain /\ carry = <<2 * (from - 1) + o>> BY <2>2 DEF Joined
    <3>2. 1 \in 1 .. Len(carry) /\ carry[1] = 2 * (from - 1) + o BY <3>1
    <3>3. carry[1] \in Cell BY <3>2
    <3> QED BY <1>2, <2>1, <2>2, <3>1, <3>2, <3>3 DEF CarriedFor
  <2>3. CASE e # 1
    <3>1. carry = <<>> \/ seg < n.drain BY <2>3 DEF Joined
    <3>2. ~(n.drain < n.drain) BY <1>4
    <3> QED BY <1>2, <2>1, <2>3, <3>1, <3>2 DEF CarriedFor
  <2> QED BY <2>2, <2>3
<1> HIDE DEF c, z, p, from, to, h, o, L, q, e, raw, a
<1>9. a \in Nat /\ a = from - 1 + q /\ 2 * (from - 1) + o = 2 * a + e
  BY ONLY <1>4, <1>7 DEF a
<1>10. RunOf(raw, a) /\ Len(raw) = e + L
  <2>1. CarriedFor(h, c) = IF e = 1 THEN <<2 * a + 1>> ELSE <<>> BY <1>8, <1>9
  <2>2. e = 1 => 2 * a + 1 \in Cell BY <1>8, <1>9
  <2>3. \A i \in 1 .. Len(c.data) : c.data[i] = 2 * a + e + i BY <1>2, <1>9 DEF L
  <2>4. a \in Nat /\ e \in {0, 1} /\ c.data \in Seq(Cell) BY <1>6, <1>7, <1>9
  <2>5. RunOf(CarriedFor(h, c) \o c.data, a)
        /\ Len(CarriedFor(h, c) \o c.data) = e + Len(c.data)
    BY ONLY <2>1, <2>2, <2>3, <2>4, CarriedRun
  <2> QED BY ONLY <2>5 DEF raw, L
<1> DEFINE len == Len(raw)
           m == len \div 2
           odd == len % 2
<1>11. len \in Nat /\ m \in Nat /\ odd \in {0, 1} /\ len = 2 * m + odd
  <2>1. len \in Nat BY <1>10 DEF RunOf
  <2> HIDE DEF len
  <2> QED BY <2>1, Halves
<1>12. len = e + L BY <1>10
<1>a. m = Len(raw) \div 2 /\ odd = Len(raw) % 2 /\ len = Len(raw) OBVIOUS
<1> HIDE DEF len, m, odd
<1>13. /\ o + L >= c.size => odd = 0 /\ from - 1 + q + m = to
       /\ from - 1 + q + m <= to
       /\ (o + L) \div 2 = q + m /\ (o + L) % 2 = odd
  <2>1. e + L = 2 * m + odd /\ o + L <= 2 * (to - from + 1) BY <1>2, <1>11, <1>12
  <2>2. /\ q \in Nat /\ m \in Nat /\ e \in {0, 1} /\ odd \in {0, 1} /\ from \in Nat
        /\ to \in Nat /\ o \in Nat /\ L \in Nat /\ o = 2 * q + e
    BY <1>4, <1>6, <1>7, <1>11
  <2>3. /\ o + L >= 2 * (to - from + 1) => odd = 0 /\ from - 1 + q + m = to
        /\ from - 1 + q + m <= to
        /\ (o + L) \div 2 = q + m /\ (o + L) % 2 = odd
    BY ONLY <2>1, <2>2, ChunkNumbers
  <2>4. c.size = 2 * (to - from + 1) BY <1>2
  <2> QED BY ONLY <2>3, <2>4
<1>14. /\ Cut(h, c).whole = Cells(a + 1, a + m)
       /\ Cut(h, c).carry = IF odd = 0 THEN <<>> ELSE <<2 * a + len>>
  <2>1. c.offset + Len(c.data) >= c.size => Len(CarriedFor(h, c) \o c.data) % 2 = 0
    BY <1>2, <1>13, <1>a DEF L, raw
  <2>2. RunOf(CarriedFor(h, c) \o c.data, a) BY <1>10 DEF raw
  <2>3. a \in Nat BY <1>9
  <2>4. LET k == Len(CarriedFor(h, c) \o c.data)
        IN  /\ Cut(h, c).whole = Cells(a + 1, a + k \div 2)
            /\ Cut(h, c).carry = IF k % 2 = 0 THEN <<>> ELSE <<2 * a + k>>
    BY ONLY <2>1, <2>2, <2>3, CutOfARun
  <2> QED BY <1>a, <2>4 DEF raw
<1>15. Frontier(n, records) = a + 1 /\ Frontier(z, records) = a + m + 1
  <2>1. Frontier(n, records) = a + 1 BY <1>4, <1>5, <1>7, <1>9
  <2>2. CASE o + L >= c.size
    <3>1. Frontier(z, records) = to + 1 BY <1>3, <2>2
    <3>2. a + m = to BY ONLY <1>4, <1>7, <1>9, <1>11, <1>13, <2>2
    <3> QED BY <2>1, <3>1, <3>2
  <2>3. CASE ~(o + L >= c.size)
    <3>1. Frontier(z, records) = from + (q + m) BY <1>3, <1>13, <2>3
    <3>2. from + (q + m) = a + m + 1 BY ONLY <1>4, <1>7, <1>9, <1>11
    <3> QED BY <2>1, <3>1, <3>2
  <2> QED BY <2>1, <2>2, <2>3
<1>16. a + m <= to BY <1>4, <1>7, <1>9, <1>11, <1>13
<1>17. ASSUME NEW r \in a + 1 .. a + m PROVE r \in from .. to
  BY <1>4, <1>7, <1>9, <1>11, <1>16
<1>18. Joined(z, c.seg, Cut(h, c).carry)
  <2>1. CASE o + L >= c.size
    <3>1. Cut(h, c).carry = <<>> BY <1>13, <1>14, <2>1
    <3>2. z.offset % 2 # 1 BY <1>3, <2>1
    <3> QED BY <3>1, <3>2 DEF Joined
  <2>2. CASE ~(o + L >= c.size)
    <3>1. z.offset = o + L /\ z.drain = n.drain /\ Pos(z) = p BY <1>3, <2>2
    <3>2. CASE odd = 0
      <4>1. z.offset % 2 # 1 BY <1>13, <3>1, <3>2
      <4> QED BY <1>14, <3>2, <4>1 DEF Joined
    <3>3. CASE odd # 0
      <4>1. z.offset % 2 = 1 BY <1>11, <1>13, <3>1, <3>3
      <4>2. 2 * a + len = 2 * (from - 1) + z.offset
        BY <1>4, <1>6, <1>7, <1>9, <1>12, <3>1
      <4>3. z.segments[Pos(z)].from = from BY <1>3, <3>1 DEF from
      <4>4. Cut(h, c).carry = <<2 * (z.segments[Pos(z)].from - 1) + z.offset>>
        BY <1>14, <3>3, <4>2, <4>3
      <4> QED BY <1>2, <3>1, <4>1, <4>4 DEF Joined
    <3> QED BY <3>2, <3>3
  <2> QED BY <2>1, <2>2
<1>19. a + m <= records BY <1>4, <1>9, <1>11, <1>16
<1>20. Joins(n, seg, carry, records, a, m)
  BY <1>14, <1>15, <1>17, <1>18, <1>19 DEF c, z, p, from, to, h, Joins
<1> QED BY <1>9, <1>11, <1>20

(***************************************************************************)
(* What a session object s has of its native session, when the plugin is   *)
(* in state n, the records are owned by o and those in g are lost.         *)
(*                                                                         *)
(* Standing: between two drains everything below the frontier is fed or    *)
(* lost. Flying: a chunk has been drained and not been fed yet; it holds   *)
(* the lines of the records a + 1 .. a + m, and the frontier is past them. *)
(***************************************************************************)
Mine(s, o) == {r \in DOMAIN o : o[r] = s.id}

Covered(s, reach, o, g) ==
  /\ s.last < reach
  /\ \A r \in Mine(s, o) : r < reach => r \in FedSet(s) \cup g

Live(id, n) == n.id = id /\ Len(n.segments) > 0

Standing(s, seg, carry, n, o, g) ==
  Live(s.id, n) => Joined(n, seg, carry) /\ Covered(s, Frontier(n, Len(o)), o, g)

Passed(s, c, a, m, n, o, g) ==
  /\ Joined(n, c.chunk.seg, Cut([seg |-> c.seg, carry |-> c.carry], c.chunk).carry)
  /\ a + m < Frontier(n, Len(o))
  /\ \A r \in Mine(s, o) : a + m < r /\ r < Frontier(n, Len(o)) => r \in g

FlyingFrom(s, c, a, m, n, o, g) ==
  /\ a + m <= Len(o)
  /\ Cut([seg |-> c.seg, carry |-> c.carry], c.chunk).whole = Cells(a + 1, a + m)
  /\ \A r \in a + 1 .. a + m : r \in Mine(s, o)
  /\ Covered(s, a + 1, o, g)
  /\ s.fed = <<>> /\ (\E r \in Mine(s, o) : r <= a) => c.unread > 0
  /\ Live(s.id, n) => Passed(s, c, a, m, n, o, g)

Flying(s, c, n, o, g) == \E a, m \in Nat : FlyingFrom(s, c, a, m, n, o, g)

\* What has been fed is right; gaps and unread own up to what has not.
FedRight(s, o, g) ==
  /\ s.malformed = 0
  /\ \A j \in 1 .. Len(s.fed) : s.fed[j] \in Mine(s, o)
  /\ \A j, k \in 1 .. Len(s.fed) : j < k => s.fed[j] < s.fed[k]
  /\ s.last = IF Len(s.fed) = 0 THEN 0 ELSE s.fed[Len(s.fed)]
  /\ \A r \in Mine(s, o) : r < s.last => r \in FedSet(s) \cup g
  /\ Len(s.fed) > 0 => /\ s.gaps = Cardinality((s.fed[1] .. s.last) \ FedSet(s))
                       /\ (\E r \in Mine(s, o) : r < s.fed[1]) => s.unread > 0
  /\ Len(s.fed) = 0 => s.gaps = 0

(***************************************************************************)
(* A step of the plugin that gives no data to the object of session id:    *)
(* the frontier of a live session moves over lost records only.            *)
(***************************************************************************)
Evolves(id, n, o, g, z, q, h) ==
  /\ Len(o) <= Len(q)
  /\ \A r \in 1 .. Len(o) : q[r] = o[r]
  /\ g \subseteq h
  /\ Live(id, z) =>
       /\ Live(id, n)
       /\ Frontier(n, Len(o)) <= Frontier(z, Len(q))
       /\ \A r \in Nat : Frontier(n, Len(o)) <= r /\ r < Frontier(z, Len(q)) => r \in h
       /\ \A seg \in Nat, carry \in Seq(Cell) : Joined(n, seg, carry) => Joined(z, seg, carry)

LEMMA MineEvolves ==
  ASSUME NEW s, NEW n, NEW o \in Seq(Nat), NEW g, NEW z, NEW q \in Seq(Nat), NEW h,
         Evolves(s.id, n, o, g, z, q, h)
  PROVE  /\ Mine(s, o) \subseteq Mine(s, q)
         /\ \A r \in Mine(s, o) : r \in 1 .. Len(o)
         /\ \A r \in Mine(s, q) : r \in Nat \ {0} /\ (r <= Len(o) => r \in Mine(s, o))
<1>1. /\ DOMAIN o = 1 .. Len(o) /\ DOMAIN q = 1 .. Len(q)
      /\ Len(o) \in Nat /\ Len(q) \in Nat
  OBVIOUS
<1>2. Len(o) <= Len(q) /\ \A r \in 1 .. Len(o) : q[r] = o[r] BY DEF Evolves
<1> QED BY ONLY <1>1, <1>2 DEF Mine

LEMMA FedStaysRight ==
  ASSUME NEW s \in SessionType, NEW n, NEW o \in Seq(Nat), NEW g,
         NEW z, NEW q \in Seq(Nat), NEW h,
         Evolves(s.id, n, o, g, z, q, h), FedRight(s, o, g)
  PROVE  FedRight(s, q, h) /\ s.last <= Len(o)
<1>1. /\ Mine(s, o) \subseteq Mine(s, q)
      /\ \A r \in Mine(s, o) : r \in 1 .. Len(o)
      /\ \A r \in Mine(s, q) : r \in Nat \ {0} /\ (r <= Len(o) => r \in Mine(s, o))
  BY MineEvolves
<1>2. Len(s.fed) \in Nat /\ Len(o) \in Nat BY SessionFields
<1>3. s.last \in Nat /\ s.last <= Len(o)
  <2>1. CASE Len(s.fed) = 0 BY <1>2, <2>1 DEF FedRight
  <2>2. CASE Len(s.fed) # 0
    <3>1. Len(s.fed) \in 1 .. Len(s.fed) BY <1>2, <2>2
    <3>2. s.last = s.fed[Len(s.fed)] /\ s.last \in Mine(s, o)
      BY <2>2, <3>1 DEF FedRight
    <3> QED BY <1>1, <1>2, <3>2
  <2> QED BY <2>1, <2>2
<1>4. ASSUME NEW r \in Mine(s, q), NEW x \in Nat, x <= Len(o), r < x PROVE r \in Mine(s, o)
  BY <1>1, <1>2, <1>4
<1>5. g \subseteq h BY DEF Evolves
<1>6. \A r \in Mine(s, q) : r < s.last => r \in FedSet(s) \cup h
  BY <1>3, <1>4, <1>5 DEF FedRight
<1>7. ASSUME Len(s.fed) > 0, NEW r \in Mine(s, q), r < s.fed[1] PROVE s.unread > 0
  <2>1. 1 \in 1 .. Len(s.fed) BY <1>2, <1>7
  <2>2. s.fed[1] \in 1 .. Len(o) BY <1>1, <2>1 DEF FedRight
  <2>3. r \in Mine(s, o) BY <1>2, <1>4, <1>7, <2>2
  <2> QED BY <1>7, <2>3 DEF FedRight
<1>8. \A j \in 1 .. Len(s.fed) : s.fed[j] \in Mine(s, q) BY <1>1 DEF FedRight
<1> QED BY <1>3, <1>6, <1>7, <1>8 DEF FedRight

LEMMA CoveredStays ==
  ASSUME NEW s \in SessionType, NEW n, NEW o \in Seq(Nat), NEW g,
         NEW z, NEW q \in Seq(Nat), NEW h, Evolves(s.id, n, o, g, z, q, h),
         NEW reach \in Nat, reach <= Len(o) + 1, Covered(s, reach, o, g)
  PROVE  Covered(s, reach, q, h)
<1>1. \A r \in Mine(s, q) : r \in Nat \ {0} /\ (r <= Len(o) => r \in Mine(s, o))
  BY MineEvolves
<1>2. g \subseteq h /\ Len(o) \in Nat BY DEF Evolves
<1>3. ASSUME NEW r \in Mine(s, q), r < reach PROVE r \in FedSet(s) \cup h
  <2>1. r \in Mine(s, o) BY <1>1, <1>2, <1>3
  <2> QED BY <1>2, <1>3, <2>1 DEF Covered
<1> QED BY <1>3 DEF Covered

LEMMA StandingStays ==
  ASSUME NEW s \in SessionType, NEW n, NEW o \in Seq(Nat), NEW g,
         NEW z, NEW q \in Seq(Nat), NEW h, Evolves(s.id, n, o, g, z, q, h),
         Shape(n, Len(o)), Shape(z, Len(q)),
         NEW seg \in Nat, NEW carry \in Seq(Cell), Standing(s, seg, carry, n, o, g)
  PROVE  Standing(s, seg, carry, z, q, h)
<1> SUFFICES ASSUME Live(s.id, z)
             PROVE  Joined(z, seg, carry) /\ Covered(s, Frontier(z, Len(q)), q, h)
  BY DEF Standing
<1> DEFINE f == Frontier(n, Len(o))
           w == Frontier(z, Len(q))
<1>1. Live(s.id, n) /\ Joined(z, seg, carry) /\ Covered(s, f, o, g)
  BY DEF Evolves, Standing
<1>2. /\ f <= w /\ \A r \in Nat : f <= r /\ r < w => r \in h
  BY DEF Evolves
<1>3. Len(o) \in Nat /\ Len(q) \in Nat OBVIOUS
<1>4. f \in Nat /\ f <= Len(o) + 1
  <2>1. f \in Nat /\ f \in 1 .. Len(o) + 1 BY <1>3, FrontierInRange
  <2> QED BY <1>3, <2>1
<1>5. w \in Nat BY <1>3, FrontierInRange
<1> HIDE DEF f, w
<1>6. Covered(s, f, q, h) BY <1>1, <1>4, CoveredStays
<1>7. s.last \in Nat BY SessionFields DEF RecordNo
<1>8. ASSUME NEW r \in Mine(s, q), r < w PROVE r \in FedSet(s) \cup h
  <2>1. r \in Nat BY MineEvolves
  <2> QED BY <1>2, <1>4, <1>6, <1>8, <2>1 DEF Covered
<1>9. s.last < w BY <1>2, <1>4, <1>5, <1>6, <1>7 DEF Covered
<1> QED BY <1>1, <1>8, <1>9 DEF Covered, w

LEMMA FlyingStays ==
  ASSUME NEW s \in SessionType, NEW n, NEW o \in Seq(Nat), NEW g,
         NEW z, NEW q \in Seq(Nat), NEW h, Evolves(s.id, n, o, g, z, q, h),
         Shape(n, Len(o)), Shape(z, Len(q)),
         NEW c, c.chunk.seg \in Nat,
         Cut([seg |-> c.seg, carry |-> c.carry], c.chunk).carry \in Seq(Cell),
         Flying(s, c, n, o, g)
  PROVE  Flying(s, c, z, q, h)
<1> DEFINE cut == Cut([seg |-> c.seg, carry |-> c.carry], c.chunk)
<1>1. PICK a \in Nat, m \in Nat : FlyingFrom(s, c, a, m, n, o, g) BY DEF Flying
<1>2. /\ Mine(s, o) \subseteq Mine(s, q)
      /\ \A r \in Mine(s, q) : r \in Nat \ {0} /\ (r <= Len(o) => r \in Mine(s, o))
  BY MineEvolves
<1>3. Len(o) \in Nat /\ Len(q) \in Nat /\ Len(o) <= Len(q) /\ g \subseteq h BY DEF Evolves
<1>4. a + m <= Len(o) /\ a + m <= Len(q) /\ a + 1 \in Nat /\ a + 1 <= Len(o) + 1
      /\ a <= Len(o)
  <2>1. a + m <= Len(o) BY <1>1 DEF FlyingFrom
  <2> QED BY <1>3, <2>1
<1>5. cut.whole = Cells(a + 1, a + m) /\ \A r \in a + 1 .. a + m : r \in Mine(s, q)
  BY <1>1, <1>2 DEF FlyingFrom
<1>6. Covered(s, a + 1, q, h)
  <2>1. Covered(s, a + 1, o, g) BY <1>1 DEF FlyingFrom
  <2> QED BY <1>4, <2>1, CoveredStays
<1>7. ASSUME s.fed = <<>>, NEW r \in Mine(s, q), r <= a PROVE c.unread > 0
  <2>1. r \in Mine(s, o) BY <1>2, <1>3, <1>4, <1>7
  <2> QED BY <1>1, <1>7, <2>1 DEF FlyingFrom
<1>8. ASSUME Live(s.id, z) PROVE Passed(s, c, a, m, z, q, h)
  <2> DEFINE f == Frontier(n, Len(o))
             w == Frontier(z, Len(q))
  <2>1. Live(s.id, n) BY <1>8 DEF Evolves
  <2>2. /\ Joined(n, c.chunk.seg, cut.carry) /\ a + m < f
        /\ \A r \in Mine(s, o) : a + m < r /\ r < f => r \in g
    BY <1>1, <2>1 DEF FlyingFrom, Passed
  <2>3. f <= w /\ \A r \in Nat : f <= r /\ r < w => r \in h BY <1>8 DEF Evolves
  <2>4. Joined(z, c.chunk.seg, cut.carry) BY <1>8, <2>2 DEF Evolves
  <2>5. f \in Nat /\ w \in Nat /\ f <= Len(o) + 1
    <3>1. f \in Nat /\ w \in Nat /\ f \in 1 .. Len(o) + 1 BY <1>3, FrontierInRange
    <3> QED BY <1>3, <3>1
  <2> HIDE DEF f, w, cut
  <2>6. a + m < w BY <2>2, <2>3, <2>5
  <2>7. ASSUME NEW r \in Mine(s, q), a + m < r, r < w PROVE r \in h
    <3>1. CASE r < f
      <4>1. r \in Mine(s, o) BY <1>2, <1>3, <2>5, <3>1
      <4> QED BY <1>3, <2>2, <2>7, <3>1, <4>1
    <3>2. CASE ~(r < f) BY <1>2, <2>3, <2>5, <2>7, <3>2
    <3> QED BY <3>1, <3>2
  <2> QED BY <2>4, <2>6, <2>7 DEF Passed, w, cut
<1> HIDE DEF cut
<1>9. FlyingFrom(s, c, a, m, z, q, h)
  BY <1>4, <1>5, <1>6, <1>7, <1>8 DEF FlyingFrom, cut
<1> QED BY <1>9 DEF Flying

\* The same, of another object that was fed the same.
SameFed(s, z) ==
  /\ z.id = s.id /\ z.fed = s.fed /\ z.last = s.last /\ z.gaps = s.gaps
  /\ z.malformed = s.malformed /\ s.unread <= z.unread

LEMMA SameFedIsRight ==
  ASSUME NEW s \in SessionType, NEW z \in SessionType, SameFed(s, z),
         NEW n, NEW o, NEW g
  PROVE  /\ FedRight(s, o, g) => FedRight(z, o, g)
         /\ \A seg, carry : Standing(s, seg, carry, n, o, g) => Standing(z, seg, carry, n, o, g)
         /\ \A c : Flying(s, c, n, o, g) => Flying(z, c, n, o, g)
<1>1. /\ z.id = s.id /\ z.fed = s.fed /\ z.last = s.last /\ z.gaps = s.gaps
      /\ z.malformed = s.malformed /\ s.unread <= z.unread
  BY DEF SameFed
<1>2. Mine(z, o) = Mine(s, o) /\ FedSet(z) = FedSet(s) BY <1>1 DEF Mine, FedSet
<1>3. s.unread > 0 => z.unread > 0
  <2>1. s.unread \in Nat /\ z.unread \in Nat BY SessionFields
  <2> QED BY <1>1, <2>1
<1>4. \A reach : Covered(s, reach, o, g) => Covered(z, reach, o, g)
  BY <1>1, <1>2 DEF Covered
<1>5. ASSUME FedRight(s, o, g) PROVE FedRight(z, o, g)
  BY <1>1, <1>2, <1>3, <1>5 DEF FedRight
<1>6. ASSUME NEW c, Flying(s, c, n, o, g) PROVE Flying(z, c, n, o, g)
  <2>1. PICK a \in Nat, m \in Nat : FlyingFrom(s, c, a, m, n, o, g) BY <1>6 DEF Flying
  <2>2. Live(s.id, n) => Passed(z, c, a, m, n, o, g)
    BY <1>1, <1>2, <2>1 DEF FlyingFrom, Passed
  <2>3. FlyingFrom(z, c, a, m, n, o, g)
    BY <1>1, <1>2, <1>4, <2>1, <2>2 DEF FlyingFrom
  <2> QED BY <2>3 DEF Flying
<1> QED BY <1>1, <1>4, <1>5, <1>6 DEF Standing

(***************************************************************************)
(* Object i, with the calls in C and the data given out in D: while its    *)
(* collections do not overlap, what one of them carries is right, and what *)
(* the object keeps when there is none.                                    *)
(***************************************************************************)
In(c, i) == c.pc \in InCollection /\ c.obj = i

Alone(i, C) == \A t, u \in Thread : In(C[t], i) /\ In(C[u], i) => t = u

Fresh(i, s, C) ==
  \A t \in Thread : In(C[t], i) /\ C[t].pc = "drain" /\ C[t].sealing =>
                      C[t].seg = s.cseg /\ C[t].carry = s.carry

Taps(i, id, D) == \A d \in D : d[1] = i <=> d[2] = id

InFlight(c) == c.pc = "feed" /\ c.chunk.data # <<>>

CallRight(s, c, n, o, g) ==
  IF InFlight(c) THEN Flying(s, c, n, o, g) ELSE Standing(s, c.seg, c.carry, n, o, g)

KeptRight(i, s, C, n, o, g) ==
  (\A t \in Thread : ~In(C[t], i)) => Standing(s, s.cseg, s.carry, n, o, g)

Right(i, s, C, D, n, o, g) ==
  s.clean => /\ Alone(i, C) /\ Fresh(i, s, C)
             /\ Taps(i, s.id, D) =>
                  /\ FedRight(s, o, g)
                  /\ KeptRight(i, s, C, n, o, g)
                  /\ \A t \in Thread : In(C[t], i) => CallRight(s, C[t], n, o, g)

LEMMA CollectingCall ==
  ASSUME NEW c \in CallType, c.pc \in InCollection
  PROVE  /\ c.seg \in Nat /\ c.carry \in Seq(Cell)
         /\ InFlight(c) =>
              /\ c.chunk.seg \in Nat
              /\ Cut([seg |-> c.seg, carry |-> c.carry], c.chunk).carry \in Seq(Cell)
<1>1. c \in Carrying \/ c \in Feeding BY CallKinds DEF InCollection
<1>2. c.seg \in Nat /\ c.carry \in Seq(Cell) BY <1>1 DEF Carrying, Feeding
<1>3. ASSUME InFlight(c)
      PROVE  /\ c.chunk.seg \in Nat
             /\ Cut([seg |-> c.seg, carry |-> c.carry], c.chunk).carry \in Seq(Cell)
  <2> DEFINE h == [seg |-> c.seg, carry |-> c.carry]
  <2>1. c \in Feeding BY <1>3, CallKinds DEF InFlight
  <2>2. c.chunk \in ChunkType /\ c.chunk.data # <<>> BY <1>3, <2>1 DEF Feeding, InFlight
  <2>3. c.chunk.seg \in Nat /\ ChunkOK(c.chunk) BY <2>2 DEF ChunkType
  <2>4. h.carry \in Seq(Cell) BY <1>2
  <2> HIDE DEF h
  <2>5. Cut(h, c.chunk).carry \in Seq(Cell) BY <2>2, <2>3, <2>4, CutIsTyped
  <2> QED BY <2>3, <2>5 DEF h
<1> QED BY <1>2, <1>3

LEMMA CallStaysRight ==
  ASSUME NEW s \in SessionType, NEW y \in SessionType, SameFed(s, y),
         NEW n, NEW o \in Seq(Nat), NEW g, NEW z, NEW q \in Seq(Nat), NEW h,
         Evolves(s.id, n, o, g, z, q, h), Shape(n, Len(o)), Shape(z, Len(q)),
         NEW c \in CallType, c.pc \in InCollection, CallRight(s, c, n, o, g)
  PROVE  CallRight(y, c, z, q, h)
<1>1. c.seg \in Nat /\ c.carry \in Seq(Cell) BY CollectingCall
<1>2. CASE InFlight(c)
  <2>1. /\ c.chunk.seg \in Nat
        /\ Cut([seg |-> c.seg, carry |-> c.carry], c.chunk).carry \in Seq(Cell)
    BY <1>2, CollectingCall
  <2>2. Flying(s, c, n, o, g) BY <1>2 DEF CallRight
  <2>3. Flying(s, c, z, q, h) BY <2>1, <2>2, FlyingStays
  <2>4. Flying(y, c, z, q, h) BY <2>3, SameFedIsRight
  <2> QED BY <1>2, <2>4 DEF CallRight
<1>3. CASE ~InFlight(c)
  <2>1. Standing(s, c.seg, c.carry, n, o, g) BY <1>3 DEF CallRight
  <2>2. Standing(s, c.seg, c.carry, z, q, h) BY <1>1, <2>1, StandingStays
  <2>3. Standing(y, c.seg, c.carry, z, q, h) BY <2>2, SameFedIsRight
  <2> QED BY <1>3, <2>3 DEF CallRight
<1> QED BY <1>2, <1>3

\* A step in which no collection of object i takes part, and that gives it no data.
LEMMA RightStays ==
  ASSUME NEW i, NEW s \in SessionType, NEW y \in SessionType, SameFed(s, y),
         y.clean => s.clean, y.cseg = s.cseg, y.carry = s.carry,
         NEW C \in [Thread -> CallType], NEW E \in [Thread -> CallType],
         \A t \in Thread : E[t] = C[t] \/ (~In(C[t], i) /\ ~In(E[t], i)),
         NEW n, NEW o \in Seq(Nat), NEW g, NEW z, NEW q \in Seq(Nat), NEW h,
         NEW D, NEW F, s.clean /\ Taps(i, s.id, F) => /\ Taps(i, s.id, D)
                                                      /\ Evolves(s.id, n, o, g, z, q, h),
         Shape(n, Len(o)), Shape(z, Len(q)),
         Right(i, s, C, D, n, o, g)
  PROVE  Right(i, y, E, F, z, q, h)
<1> SUFFICES ASSUME y.clean
             PROVE  /\ Alone(i, E) /\ Fresh(i, y, E)
                    /\ Taps(i, y.id, F) =>
                         /\ FedRight(y, q, h)
                         /\ KeptRight(i, y, E, z, q, h)
                         /\ \A t \in Thread : In(E[t], i) => CallRight(y, E[t], z, q, h)
  BY DEF Right
<1>1. s.clean /\ y.id = s.id BY DEF SameFed
<1>2. ASSUME NEW t \in Thread
      PROVE  /\ In(E[t], i) => E[t] = C[t]
             /\ In(E[t], i) <=> In(C[t], i)
  BY <1>2
<1>3. Alone(i, E) BY <1>1, <1>2 DEF Right, Alone
<1>4. Fresh(i, y, E) BY <1>1, <1>2 DEF Right, Fresh
<1>5. ASSUME Taps(i, y.id, F)
      PROVE  /\ FedRight(y, q, h)
             /\ KeptRight(i, y, E, z, q, h)
             /\ \A t \in Thread : In(E[t], i) => CallRight(y, E[t], z, q, h)
  <2>1. Taps(i, s.id, D) /\ Evolves(s.id, n, o, g, z, q, h) BY <1>1, <1>5
  <2>2. /\ FedRight(s, o, g) /\ KeptRight(i, s, C, n, o, g)
        /\ \A t \in Thread : In(C[t], i) => CallRight(s, C[t], n, o, g)
    BY <1>1, <2>1 DEF Right
  <2>3. FedRight(y, q, h)
    <3>1. FedRight(s, q, h) BY <2>1, <2>2, FedStaysRight
    <3> QED BY <3>1, SameFedIsRight
  <2>4. KeptRight(i, y, E, z, q, h)
    <3>1. ASSUME \A t \in Thread : ~In(E[t], i) PROVE Standing(y, s.cseg, s.carry, z, q, h)
      <4>1. Standing(s, s.cseg, s.carry, n, o, g) BY <1>2, <2>2, <3>1 DEF KeptRight
      <4>2. s.cseg \in Nat /\ s.carry \in Seq(Cell) BY SessionFields
      <4>3. Standing(s, s.cseg, s.carry, z, q, h) BY <2>1, <4>1, <4>2, StandingStays
      <4> QED BY <4>3, SameFedIsRight
    <3> QED BY <3>1 DEF KeptRight
  <2>5. ASSUME NEW t \in Thread, In(E[t], i) PROVE CallRight(y, E[t], z, q, h)
    <3>1. E[t] = C[t] /\ In(C[t], i) BY <1>2, <2>5
    <3>2. CallRight(s, C[t], n, o, g) /\ C[t] \in CallType /\ C[t].pc \in InCollection
      BY <2>2, <3>1 DEF In
    <3>3. CallRight(y, C[t], z, q, h) BY <2>1, <3>2, CallStaysRight
    <3> QED BY <3>1, <3>3
  <2> QED BY <2>3, <2>4, <2>5
<1> QED BY <1>3, <1>4, <1>5

(***************************************************************************)
(* Feeding                                                                 *)
(***************************************************************************)
\* The run a + 1 .. b comes after F, which begins at f and ends at last.
NextRun(f, last, a, b, F) ==
  /\ f \in Nat /\ last \in Nat /\ a \in Nat /\ b \in Nat
  /\ f <= last /\ last <= a /\ a < b /\ F \subseteq f .. last

LEMMA HolesGrow ==
  ASSUME NEW f, NEW last, NEW a, NEW b, NEW F, NextRun(f, last, a, b, F)
  PROVE  Cardinality((f .. b) \ (F \cup (a + 1 .. b)))
           = Cardinality((f .. last) \ F) + (a - last)
<1> DEFINE G == F \cup (a + 1 .. b)
           S == (f .. last) \ F
           T == last + 1 .. a
<1> USE DEF NextRun
<1>1. (f .. b) \ G = S \cup T
  <2>1. ASSUME NEW r \in f .. b, r \notin G PROVE r \in S \cup T
    <3>1. r \notin F /\ ~(a + 1 <= r) BY <2>1
    <3> QED BY <3>1
  <2>2. ASSUME NEW r \in S PROVE r \in f .. b /\ r \notin G BY <2>2
  <2>3. ASSUME NEW r \in T PROVE r \in f .. b /\ r \notin G
    <3>1. r \notin f .. last BY <2>3
    <3> QED BY <2>3, <3>1
  <2> HIDE DEF S, T
  <2> QED BY <2>1, <2>2, <2>3
<1>2. S \cap T = {}
  <2>1. ASSUME NEW r \in S, r \in T PROVE FALSE BY <2>1
  <2> HIDE DEF S, T
  <2> QED BY <2>1
<1>3. IsFiniteSet(S)
  <2>1. IsFiniteSet(f .. last) BY FS_Interval
  <2> QED BY <2>1, FS_Difference
<1>4. IsFiniteSet(T) /\ Cardinality(T) = a - last
  <2>1. last + 1 \in Int /\ a \in Int OBVIOUS
  <2>2. IsFiniteSet(T) /\ Cardinality(T) = IF last + 1 > a THEN 0 ELSE a - (last + 1) + 1
    BY <2>1, FS_Interval
  <2> HIDE DEF T
  <2> QED BY <2>2
<1>5. Cardinality(S) \in Nat BY <1>3, FS_CardinalityType
<1> HIDE DEF S, T
<1>6. Cardinality(S \cup T) = Cardinality(S) + Cardinality(T) - Cardinality({})
  BY ONLY <1>2, <1>3, <1>4, FS_Union
<1>7. Cardinality({}) = 0 BY FS_EmptySet
<1>8. Cardinality(S \cup T) = Cardinality(S) + (a - last) BY <1>4, <1>5, <1>6, <1>7
<1> QED BY <1>1, <1>8 DEF S

\* z is s after the run a + 1 .. a + m was added.
AfterRun(s, z, a, m) ==
  /\ z.id = s.id /\ z.malformed = s.malformed /\ s.unread <= z.unread
  /\ Len(z.fed) = Len(s.fed) + m
  /\ \A j \in 1 .. Len(s.fed) : z.fed[j] = s.fed[j]
  /\ \A j \in 1 .. m : z.fed[Len(s.fed) + j] = a + j
  /\ z.last = IF m = 0 THEN s.last ELSE a + m
  /\ z.gaps = s.gaps + IF m = 0 THEN 0 ELSE NewGap(s, a + 1)

\* What a session has been fed, and its gaps, after one more run of records.
LEMMA FeedingARun ==
  ASSUME NEW s \in SessionType, Ring(s), NEW z \in SessionType,
         NEW o \in Seq(Nat), NEW g, NEW a \in Nat, NEW m \in Nat,
         FedRight(s, o, g), Covered(s, a + 1, o, g),
         \A r \in a + 1 .. a + m : r \in Mine(s, o),
         s.fed = <<>> /\ (\E r \in Mine(s, o) : r <= a) => z.unread > 0,
         AfterRun(s, z, a, m)
  PROVE  /\ FedRight(z, o, g)
         /\ FedSet(z) = FedSet(s) \cup (a + 1 .. a + m)
<1> USE DEF AfterRun
<1> DEFINE l == Len(s.fed)
<1>0. \A k \in 1 .. m : a + k \in a + 1 .. a + m OBVIOUS
<1>1. /\ s.fed \in Seq(RecordNo) /\ z.fed \in Seq(RecordNo) /\ l \in Nat
      /\ DOMAIN s.fed = 1 .. l /\ DOMAIN z.fed = 1 .. Len(z.fed)
      /\ s.last \in Nat /\ s.unread \in Nat /\ z.unread \in Nat /\ s.gaps \in Nat
  BY SessionFields DEF RecordNo
<1>2. s.last <= a
  <2>1. s.last < a + 1 BY DEF Covered
  <2> QED BY <1>1, <2>1
<1>3. Mine(z, o) = Mine(s, o) BY DEF Mine
<1>4. \A r \in Mine(s, o) : r \in Nat \ {0}
  <2>1. DOMAIN o = 1 .. Len(o) OBVIOUS
  <2> QED BY <2>1 DEF Mine
<1>5. ASSUME NEW j \in 1 .. Len(z.fed)
      PROVE  \/ j \in 1 .. l /\ z.fed[j] = s.fed[j]
             \/ j - l \in 1 .. m /\ z.fed[j] = a + (j - l) /\ j > l
  <2>1. CASE j \in 1 .. l BY <2>1
  <2>2. CASE j \notin 1 .. l
    <3>1. j - l \in 1 .. m /\ l + (j - l) = j /\ j > l
      <4> HIDE DEF l
      <4> QED BY <1>1, <2>2
    <3> QED BY <3>1
  <2> QED BY <2>1, <2>2
<1>6. ASSUME NEW j \in 1 .. l PROVE s.fed[j] \in Mine(s, o) /\ s.fed[j] \in Nat /\ s.fed[j] <= s.last
  <2>1. s.fed[j] \in Mine(s, o) BY <1>6 DEF FedRight
  <2>2. l \in 1 .. l /\ l # 0 BY <1>1
  <2>3. s.last = s.fed[l] BY <2>2 DEF FedRight
  <2>4. s.fed[j] \in Nat BY <1>4, <2>1
  <2>5. CASE j = l BY <1>1, <2>1, <2>3, <2>4, <2>5
  <2>6. CASE j # l
    <3>1. j < l BY <1>1, <2>6
    <3>2. s.fed[j] < s.fed[l] BY <2>2, <3>1 DEF FedRight
    <3> QED BY <1>1, <2>1, <2>3, <2>4, <3>2
  <2> QED BY <2>5, <2>6
<1>7. FedSet(z) = FedSet(s) \cup (a + 1 .. a + m)
  <2>1. ASSUME NEW j \in 1 .. Len(z.fed) PROVE z.fed[j] \in FedSet(s) \cup (a + 1 .. a + m)
    <3>1. CASE j \in 1 .. l /\ z.fed[j] = s.fed[j] BY <1>1, <3>1 DEF FedSet
    <3>2. CASE j - l \in 1 .. m /\ z.fed[j] = a + (j - l)
      <4>1. a + (j - l) \in a + 1 .. a + m BY <1>0, <3>2
      <4> QED BY <3>2, <4>1
    <3> QED BY <1>5, <3>1, <3>2
  <2>2. ASSUME NEW j \in 1 .. l PROVE s.fed[j] \in FedSet(z)
    <3>1. j \in 1 .. Len(z.fed) /\ z.fed[j] = s.fed[j] BY <1>1
    <3> QED BY <1>1, <3>1 DEF FedSet
  <2>3. ASSUME NEW r \in a + 1 .. a + m PROVE r \in FedSet(z)
    <3>1. r - a \in 1 .. m /\ a + (r - a) = r BY <2>3
    <3>2. z.fed[l + (r - a)] = r BY <3>1
    <3>3. l + (r - a) \in 1 .. Len(z.fed)
      <4>1. Len(z.fed) = l + m OBVIOUS
      <4> HIDE DEF l
      <4> QED BY <1>1, <2>3, <3>1, <4>1
    <3> QED BY <1>1, <3>2, <3>3 DEF FedSet
  <2>4. FedSet(z) = {z.fed[j] : j \in 1 .. Len(z.fed)} /\ FedSet(s) = {s.fed[j] : j \in 1 .. l}
    BY <1>1 DEF FedSet
  <2>5. FedSet(z) \subseteq FedSet(s) \cup (a + 1 .. a + m) BY ONLY <2>1, <2>4
  <2>6. FedSet(s) \cup (a + 1 .. a + m) \subseteq FedSet(z)
    <3>1. FedSet(s) \subseteq FedSet(z) BY ONLY <2>2, <2>4
    <3>2. a + 1 .. a + m \subseteq FedSet(z) BY ONLY <2>3
    <3> QED BY <3>1, <3>2
  <2> QED BY <2>5, <2>6
<1> HIDE DEF l
<1>8. \A j \in 1 .. Len(z.fed) : z.fed[j] \in Mine(z, o)
  <2>1. \A k \in 1 .. m : a + k \in a + 1 .. a + m OBVIOUS
  <2> QED BY <1>3, <1>5, <1>6, <2>1
<1>9. ASSUME NEW j \in 1 .. Len(z.fed), NEW k \in 1 .. Len(z.fed), j < k
      PROVE  z.fed[j] < z.fed[k]
  <2>1. CASE k \in 1 .. l /\ z.fed[k] = s.fed[k]
    <3>1. j \in 1 .. l BY <1>1, <1>9, <2>1
    <3>2. z.fed[j] = s.fed[j] BY <1>5, <3>1 DEF l
    <3> QED BY <1>9, <2>1, <3>1, <3>2 DEF FedRight, l
  <2>2. CASE k - l \in 1 .. m /\ z.fed[k] = a + (k - l)
    <3>1. CASE j \in 1 .. l /\ z.fed[j] = s.fed[j]
      <4>1. z.fed[j] \in Nat /\ z.fed[j] <= s.last BY <1>6, <3>1
      <4>2. k - l \in Int /\ 1 <= k - l BY <1>1, <2>2
      <4>3. a < a + (k - l) BY <4>2
      <4>4. z.fed[j] <= a BY <1>1, <1>2, <4>1
      <4>5. z.fed[k] = a + (k - l) BY <2>2
      <4> QED BY ONLY <4>1, <4>2, <4>3, <4>4, <4>5, a \in Nat
    <3>2. CASE j - l \in 1 .. m /\ z.fed[j] = a + (j - l) BY <1>1, <1>9, <2>2, <3>2
    <3> QED BY <1>5, <3>1, <3>2
  <2> QED BY <1>5, <2>1, <2>2
<1>10. z.last = IF Len(z.fed) = 0 THEN 0 ELSE z.fed[Len(z.fed)]
  <2>1. CASE m = 0
    <3>1. Len(z.fed) = l /\ (l # 0 => l \in 1 .. l) BY <1>1, <2>1 DEF l
    <3> QED BY <2>1, <3>1 DEF FedRight, l
  <2>2. CASE m # 0
    <3>1. m \in 1 .. m /\ l + m # 0 BY <1>1, <2>2
    <3> QED BY <2>2, <3>1 DEF l
  <2> QED BY <2>1, <2>2
<1>11. ASSUME NEW r \in Mine(z, o), r < z.last PROVE r \in FedSet(z) \cup g
  <2>1. r \in Nat /\ r \in Mine(s, o) BY <1>3, <1>4
  <2>2. r < a + 1 \/ r \in a + 1 .. a + m BY <1>1, <1>2, <1>11, <2>1
  <2> QED BY <1>7, <2>1, <2>2 DEF Covered
<1>12. CASE l = 0
  <2>1. s.last = 0 /\ s.gaps = 0 /\ FedSet(s) = {} /\ s.fed = <<>>
    <3>1. FedSet(s) = {} BY <1>1, <1>12 DEF FedSet
    <3> QED BY <1>1, <1>12, <3>1 DEF FedRight, l
  <2>2. z.gaps = 0 BY <2>1 DEF NewGap
  <2>3. CASE m = 0
    <3>1. Len(z.fed) = 0 BY <1>12, <2>3 DEF l
    <3> QED BY <1>1, <1>8, <1>9, <1>10, <1>11, <1>7, <2>2, <3>1 DEF FedRight
  <2>4. CASE m # 0
    <3>1. 1 \in 1 .. m /\ 0 + 1 = 1 BY <2>4
    <3>2. z.fed[1] = a + 1 BY <1>12, <3>1 DEF l
    <3>3. (z.fed[1] .. z.last) \ FedSet(z) = {} BY <1>7, <2>4, <3>2
    <3>4. z.gaps = Cardinality((z.fed[1] .. z.last) \ FedSet(z))
      BY <2>2, <3>3, FS_EmptySet
    <3>5. ASSUME NEW r \in Mine(z, o), r < z.fed[1] PROVE z.unread > 0
      <4>1. r \in Mine(s, o) /\ r <= a BY <1>3, <1>4, <3>2, <3>5
      <4> QED BY <2>1, <4>1
    <3>6. ~(Len(z.fed) = 0) BY <1>1, <2>4 DEF l
    <3>7. z.malformed = 0 BY DEF FedRight
    <3> QED BY <1>7, <1>8, <1>9, <1>10, <1>11, <3>4, <3>5, <3>6, <3>7 DEF FedRight
  <2> QED BY <2>3, <2>4
<1>13. CASE l # 0
  <2>1. 1 \in 1 .. l /\ l \in 1 .. l /\ l > 0 BY <1>1, <1>13
  <2>2. z.fed[1] = s.fed[1] /\ z.malformed = 0 BY <2>1 DEF l, FedRight
  <2>3. /\ s.gaps = Cardinality((s.fed[1] .. s.last) \ FedSet(s))
        /\ (\E r \in Mine(s, o) : r < s.fed[1]) => s.unread > 0
    BY <2>1 DEF FedRight, l
  <2>4. s.last # 0 /\ s.fed[1] \in Nat /\ s.fed[1] <= s.last
    <3>1. s.fed[1] \in Nat \ {0} /\ s.fed[1] <= s.last BY <1>4, <1>6, <2>1
    <3> QED BY <1>1, <3>1
  <2>5. z.gaps = Cardinality((z.fed[1] .. z.last) \ FedSet(z))
    <3>1. CASE m = 0
      <4>1. a + 1 .. a + m = {} BY <3>1
      <4>2. FedSet(z) = FedSet(s) BY <1>7, <4>1
      <4>3. z.gaps = s.gaps /\ z.last = s.last BY <1>1, <3>1
      <4> QED BY <2>2, <2>3, <4>2, <4>3
    <3>2. CASE m # 0
      <4> DEFINE f == s.fed[1]
                 p == s.last
      <4>1. FedSet(s) \subseteq f .. p
        <5>1. ASSUME NEW j \in 1 .. l PROVE s.fed[j] \in f .. p
          <6>1. s.fed[j] \in Nat /\ s.fed[j] <= p BY <1>6
          <6>2. f <= s.fed[j]
            <7>1. CASE j = 1 BY <2>4, <7>1
            <7>2. CASE j # 1
              <8>1. 1 < j BY <1>1, <7>2
              <8>2. f < s.fed[j] BY <2>1, <8>1 DEF FedRight, l
              <8> QED BY <2>4, <6>1, <8>2
            <7> QED BY <7>1, <7>2
          <6> QED BY <1>1, <2>4, <6>1, <6>2
        <5> QED BY <1>1, <5>1 DEF FedSet
      <4>2. f \in Nat /\ p \in Nat /\ f <= p /\ p <= a /\ m \in Nat \ {0}
        BY <1>1, <1>2, <2>4, <3>2
      <4>a. NewGap(s, a + 1) = IF a + 1 > p + 1 /\ p # 0 THEN (a + 1) - p - 1 ELSE 0
        BY DEF NewGap
      <4>b. z.last = a + m BY <3>2
      <4> HIDE DEF f, p
      <4>3. Cardinality((f .. z.last) \ FedSet(z))
              = Cardinality((f .. p) \ FedSet(s)) + (a - p)
        <5>1. FedSet(z) = FedSet(s) \cup (a + 1 .. z.last) BY <1>7, <4>b
        <5>2. z.last \in Nat /\ a < z.last BY <4>2, <4>b
        <5>3. Cardinality((f .. z.last) \ (FedSet(s) \cup (a + 1 .. z.last)))
                = Cardinality((f .. p) \ FedSet(s)) + (a - p)
          <6> DEFINE b == z.last
                     F == FedSet(s)
          <6>1. b \in Nat /\ a < b /\ F \subseteq f .. p BY <4>1, <5>2
          <6>a. NextRun(f, p, a, b, F) BY <4>2, <6>1 DEF NextRun
          <6> HIDE DEF b, F
          <6>2. Cardinality((f .. b) \ (F \cup (a + 1 .. b)))
                  = Cardinality((f .. p) \ F) + (a - p)
            BY ONLY <6>a, HolesGrow
          <6> QED BY <6>2 DEF b, F
        <5> QED BY <5>1, <5>3
      <4>4. NewGap(s, a + 1) = a - p
        <5>1. p # 0 BY <2>4 DEF p
        <5> QED BY <4>2, <4>a, <5>1
      <4> QED BY <2>2, <2>3, <3>2, <4>3, <4>4 DEF f, p
    <3> QED BY <3>1, <3>2
  <2>6. ASSUME NEW r \in Mine(z, o), r < z.fed[1] PROVE z.unread > 0
    <3>1. s.unread > 0 BY <1>3, <2>2, <2>3, <2>6
    <3> QED BY <1>1, <3>1
  <2>7. Len(z.fed) # 0 BY <1>1, <1>13 DEF l
  <2> QED BY <1>7, <1>8, <1>9, <1>10, <1>11, <2>2, <2>5, <2>6, <2>7 DEF FedRight
<1> QED BY <1>12, <1>13

\* AddAccessLoss after a run of whole lines.
LEMMA FedFields ==
  ASSUME NEW s, ObjectOK(s), NEW a \in Nat, NEW m \in Nat, a + m <= MaxRecords,
         s.last <= a, NEW unread \in Nat
  PROVE  LET y == AddAccessEvents(s, Run(a, m))
             z == AddAccessLoss(AddAccessParseStats(y, 0), unread)
         IN  /\ z \in SessionType /\ z.clean = s.clean /\ unread <= z.unread
             /\ AfterRun(s, z, a, m)
<1> DEFINE y == AddAccessEvents(s, Run(a, m))
           u == Max({y.unread, unread})
           z == [y EXCEPT !.malformed = y.malformed, !.unread = u]
<1>1. s \in SessionType /\ Ring(s) BY DEF ObjectOK
<1>2. Run(a, m) \in Seq(RecordNo)
  <2>1. Run(a, m) = [j \in 1 .. m |-> a + j] BY DEF Run
  <2>2. \A j \in 1 .. m : a + j \in RecordNo
    <3>1. MaxRecords \in Nat BY SessionAssumption
    <3> QED BY <3>1 DEF RecordNo
  <2> QED BY <2>1, <2>2
<1>3. y \in SessionType /\ SameBut(s, y) BY <1>1, <1>2, AddingKeepsTheRing
<1>4. /\ Len(y.fed) = Len(s.fed) + m
      /\ \A j \in 1 .. Len(s.fed) : y.fed[j] = s.fed[j]
      /\ \A j \in 1 .. m : y.fed[Len(s.fed) + j] = a + j
      /\ y.last = IF m = 0 THEN s.last ELSE a + m
      /\ y.gaps = s.gaps + IF m = 0 THEN 0 ELSE NewGap(s, a + 1)
  BY ZenonT(60), <1>1, AddingARun
<1>5. AddAccessLoss(AddAccessParseStats(y, 0), unread) = z
  <2>1. y.malformed \in Nat /\ y.malformed + 0 = y.malformed BY <1>3, SessionFields
  <2> HIDE DEF y
  <2>2. AddAccessParseStats(y, 0) = [y EXCEPT !.malformed = y.malformed]
    BY <2>1 DEF AddAccessParseStats
  <2>3. [y EXCEPT !.malformed = y.malformed].unread = y.unread BY <1>3 DEF SessionType
  <2> QED BY <2>2, <2>3 DEF AddAccessLoss
<1> HIDE DEF y
<1>6. y.unread = s.unread /\ y.unread \in Nat /\ y.malformed = s.malformed
      /\ y.id = s.id /\ y.clean = s.clean /\ y.malformed \in Nat
  BY <1>3, SessionFields DEF SameBut
<1>7. u \in Nat /\ y.unread <= u /\ unread <= u BY <1>6, MaxOfTwo
<1> HIDE DEF u
<1>8. /\ z \in SessionType /\ z.fed = y.fed /\ z.last = y.last /\ z.gaps = y.gaps
      /\ z.malformed = y.malformed /\ z.unread = u /\ z.id = y.id /\ z.clean = y.clean
  BY <1>3, <1>6, <1>7 DEF SessionType
<1> HIDE DEF z
<1>9. /\ z \in SessionType
      /\ z.id = s.id /\ z.malformed = s.malformed /\ z.clean = s.clean
      /\ s.unread <= z.unread /\ unread <= z.unread
  BY <1>6, <1>7, <1>8
<1>10. /\ Len(z.fed) = Len(s.fed) + m
       /\ \A j \in 1 .. Len(s.fed) : z.fed[j] = s.fed[j]
       /\ \A j \in 1 .. m : z.fed[Len(s.fed) + j] = a + j
       /\ z.last = IF m = 0 THEN s.last ELSE a + m
       /\ z.gaps = s.gaps + IF m = 0 THEN 0 ELSE NewGap(s, a + 1)
  BY ONLY <1>4, <1>8
<1> QED BY <1>5, <1>9, <1>10 DEF y, AfterRun

\* The chunk of a call in flight is fed: its object has everything up to the frontier.
LEMMA FeedingAChunk ==
  ASSUME NEW s, ObjectOK(s), NEW n, NEW o \in Seq(Nat), Len(o) <= MaxRecords, NEW g,
         Shape(n, Len(o)), FedRight(s, o, g),
         NEW c, c.unread \in Nat, Flying(s, c, n, o, g), NEW misread
  PROVE  LET cut == Cut([seg |-> c.seg, carry |-> c.carry], c.chunk)
             parsed == ParseAccessSegment(cut.whole, misread)
             z == AddAccessLoss(AddAccessParseStats(AddAccessEvents(s, parsed.events),
                                                    parsed.malformed), c.unread)
         IN  /\ z \in SessionType /\ z.id = s.id /\ z.clean = s.clean
             /\ FedRight(z, o, g)
             /\ Standing(z, c.chunk.seg, cut.carry, n, o, g)
<1> DEFINE cut == Cut([seg |-> c.seg, carry |-> c.carry], c.chunk)
           parsed == ParseAccessSegment(cut.whole, misread)
           z == AddAccessLoss(AddAccessParseStats(AddAccessEvents(s, parsed.events),
                                                  parsed.malformed), c.unread)
<1>1. PICK a \in Nat, m \in Nat : FlyingFrom(s, c, a, m, n, o, g) BY DEF Flying
<1>2. /\ a + m <= Len(o) /\ cut.whole = Cells(a + 1, a + m)
      /\ \A r \in a + 1 .. a + m : r \in Mine(s, o)
      /\ Covered(s, a + 1, o, g)
      /\ s.fed = <<>> /\ (\E r \in Mine(s, o) : r <= a) => c.unread > 0
      /\ Live(s.id, n) => Passed(s, c, a, m, n, o, g)
  BY <1>1 DEF FlyingFrom
<1>3. parsed = [line |-> <<>>, events |-> Run(a, m), malformed |-> 0]
  BY <1>2, ParsingWholeLines
<1>4. parsed.events = Run(a, m) /\ parsed.malformed = 0
  <2> HIDE DEF parsed
  <2> QED BY <1>3
<1>5. /\ s \in SessionType /\ Ring(s) /\ s.last \in Nat /\ Len(o) \in Nat
      /\ MaxRecords \in Nat
  BY SessionFields, SessionAssumption DEF ObjectOK, RecordNo
<1>6. s.last <= a
  <2>1. s.last < a + 1 BY <1>2 DEF Covered
  <2> QED BY <1>5, <2>1
<1>7. a + m <= MaxRecords BY <1>2, <1>5
<1>8. z = AddAccessLoss(AddAccessParseStats(AddAccessEvents(s, Run(a, m)), 0), c.unread)
  BY <1>4
<1> HIDE DEF z, parsed, cut
<1>a. /\ z \in SessionType /\ z.clean = s.clean /\ c.unread <= z.unread
      /\ AfterRun(s, z, a, m)
  BY ONLY SMTT(60), <1>6, <1>7, <1>8, ObjectOK(s), c.unread \in Nat, a \in Nat, m \in Nat, FedFields
<1>9. /\ z \in SessionType /\ z.clean = s.clean /\ c.unread <= z.unread /\ z.id = s.id
      /\ z.last = IF m = 0 THEN s.last ELSE a + m
  BY <1>a DEF AfterRun
<1>10. FedRight(z, o, g) /\ FedSet(z) = FedSet(s) \cup (a + 1 .. a + m)
  <2>1. c.unread > 0 => z.unread > 0
    <3>1. z.unread \in Nat BY <1>9, SessionFields
    <3> QED BY <1>9, <3>1
  <2>2. s.fed = <<>> /\ (\E r \in Mine(s, o) : r <= a) => z.unread > 0 BY <1>2, <2>1
  <2> QED BY <1>2, <1>5, <1>a, <2>2, FeedingARun
<1>11. Standing(z, c.chunk.seg, cut.carry, n, o, g)
  <2> SUFFICES ASSUME Live(z.id, n)
               PROVE  Joined(n, c.chunk.seg, cut.carry)
                      /\ Covered(z, Frontier(n, Len(o)), o, g)
    BY DEF Standing
  <2> DEFINE f == Frontier(n, Len(o))
  <2>1. /\ Joined(n, c.chunk.seg, cut.carry) /\ a + m < f
        /\ \A r \in Mine(s, o) : a + m < r /\ r < f => r \in g
    BY <1>2, <1>9 DEF Passed, cut
  <2>2. f \in Nat BY <1>5, FrontierInRange
  <2> HIDE DEF f
  <2>3. z.last < f BY <1>5, <1>6, <1>9, <2>1, <2>2
  <2>4. ASSUME NEW r \in Mine(z, o), r < f PROVE r \in FedSet(z) \cup g
    <3>1. r \in Mine(s, o) BY <1>9 DEF Mine
    <3>2. r \in Nat
      <4>1. DOMAIN o = 1 .. Len(o) OBVIOUS
      <4> QED BY <3>1, <4>1 DEF Mine
    <3>3. r < a + 1 \/ r \in a + 1 .. a + m \/ a + m < r BY <3>2
    <3>4. r < a + 1 => r \in FedSet(s) \cup g BY <1>2, <3>1 DEF Covered
    <3> QED BY <1>10, <2>1, <2>4, <3>1, <3>3, <3>4
  <2> QED BY <2>1, <2>3, <2>4 DEF Covered, f
<1> QED BY <1>9, <1>10, <1>11 DEF z, parsed, cut

(***************************************************************************)
(* The plugin without a reader: sealing, opening, evicting and finishing   *)
(* lose records, take no data, and leave the session what it was.          *)
(***************************************************************************)
Drift(n, z, lost, records) ==
  /\ Shape(z, records) /\ Advances(n, z, lost, records)
  /\ z.active => n.active
  /\ Len(z.segments) > 0 <=> Len(n.segments) > 0
  /\ Len(n.segments) > 0 => n.segments[1].from <= z.segments[1].from

LEMMA FirstSegment ==
  ASSUME NEW records \in Nat, NEW n, Shape(n, records), Len(n.segments) > 0
  PROVE  /\ 1 \in 1 .. Len(n.segments) /\ n.segments[1].from \in Nat
         /\ \A k \in 1 .. Len(n.segments) : n.segments[1].from <= n.segments[k].from
<1>1. /\ Len(n.segments) \in Nat
      /\ \A k \in 1 .. Len(n.segments) : n.segments[k].from \in Nat /\ n.segments[k].to \in Nat
  BY NativeFields DEF Shape
<1>2. 1 \in 1 .. Len(n.segments) BY <1>1
<1>3. ASSUME NEW k \in 1 .. Len(n.segments) PROVE n.segments[1].from <= n.segments[k].from
  <2>1. CASE k = 1 BY <1>1, <1>2, <2>1
  <2>2. CASE k # 1
    <3>1. 1 < k BY <1>1, <2>2
    <3>2. n.segments[1].to < n.segments[k].from /\ n.segments[1].from <= n.segments[1].to + 1
      BY <1>2, <3>1 DEF Shape, Consecutive
    <3> QED BY <1>1, <1>2, <3>2
  <2> QED BY <2>1, <2>2
<1> QED BY <1>1, <1>2, <1>3

LEMMA DriftIsTransitive ==
  ASSUME NEW records \in Nat, NEW n, Shape(n, records),
         NEW y, NEW some, Drift(n, y, some, records),
         NEW z, NEW more, Drift(y, z, more, records)
  PROVE  Drift(n, z, some \cup more, records)
<1>1. /\ n.unread \in Nat /\ y.unread \in Nat /\ z.unread \in Nat
      /\ n.drain \in Nat /\ y.drain \in Nat /\ z.drain \in Nat
      /\ Shape(y, records) /\ Shape(z, records)
  BY NativeFields DEF Drift, Shape
<1>2. /\ Frontier(n, records) \in Nat /\ Frontier(y, records) \in Nat
      /\ Frontier(z, records) \in Nat
  BY <1>1, FrontierInRange
<1>3. Advances(n, y, some, records) /\ Advances(y, z, more, records) BY DEF Drift
<1>4. z.id = n.id /\ n.unread <= z.unread /\ Frontier(n, records) <= Frontier(z, records)
  BY <1>1, <1>2, <1>3 DEF Advances
<1>5. ASSUME NEW r \in Nat, Frontier(n, records) <= r, r < Frontier(z, records)
      PROVE  r \in some \cup more
  <2>1. r < Frontier(y, records) \/ Frontier(y, records) <= r BY <1>2
  <2> QED BY <1>3, <1>5, <2>1 DEF Advances
<1>6. ASSUME some \cup more # {} PROVE z.unread > 0
  <2>1. CASE some # {}
    <3>1. y.unread > 0 /\ y.unread <= z.unread BY <1>3, <2>1 DEF Advances
    <3> QED BY <1>1, <3>1
  <2>2. CASE some = {} BY <1>3, <1>6, <2>2 DEF Advances
  <2> QED BY <2>1, <2>2
<1>7. \/ /\ z.drain = n.drain /\ z.offset = n.offset
         /\ n.offset > 0 => z.segments[Pos(z)].from = n.segments[Pos(n)].from
      \/ z.drain > n.drain /\ z.offset = 0
  <2>1. \/ /\ y.drain = n.drain /\ y.offset = n.offset
           /\ n.offset > 0 => y.segments[Pos(y)].from = n.segments[Pos(n)].from
        \/ y.drain > n.drain /\ y.offset = 0
    BY <1>3 DEF Advances
  <2>2. \/ /\ z.drain = y.drain /\ z.offset = y.offset
           /\ y.offset > 0 => z.segments[Pos(z)].from = y.segments[Pos(y)].from
        \/ z.drain > y.drain /\ z.offset = 0
    BY <1>3 DEF Advances
  <2> QED BY <1>1, <2>1, <2>2
<1>8. Advances(n, z, some \cup more, records)
  BY <1>4, <1>5, <1>6, <1>7 DEF Advances
<1>9. Len(n.segments) > 0 => n.segments[1].from <= z.segments[1].from
  <2>1. SUFFICES ASSUME Len(n.segments) > 0 PROVE n.segments[1].from <= z.segments[1].from
    OBVIOUS
  <2>2. Len(y.segments) > 0 /\ Len(z.segments) > 0 BY <2>1 DEF Drift
  <2>3. n.segments[1].from \in Nat /\ y.segments[1].from \in Nat /\ z.segments[1].from \in Nat
    BY <1>1, <2>1, <2>2, FirstSegment
  <2>4. n.segments[1].from <= y.segments[1].from /\ y.segments[1].from <= z.segments[1].from
    BY <2>1, <2>2 DEF Drift
  <2> QED BY <2>3, <2>4
<1> QED BY <1>1, <1>8, <1>9 DEF Drift

LEMMA SealingDrifts ==
  ASSUME NEW records \in Nat, NEW n, Shape(n, records)
  PROVE  Drift(n, SealSegment(n), {}, records) /\ Drift(n, Finish(n), {}, records)
<1>1. Len(n.segments) \in Nat BY NativeFields DEF Shape
<1>2. ASSUME NEW z, Len(z.segments) = Len(n.segments),
             \A k \in 1 .. Len(n.segments) : z.segments[k].from = n.segments[k].from
      PROVE  Len(n.segments) > 0 => n.segments[1].from <= z.segments[1].from
  <2>1. Len(n.segments) > 0 => 1 \in 1 .. Len(n.segments) /\ n.segments[1].from \in Nat
    BY FirstSegment
  <2> QED BY <1>2, <2>1
<1>3. Drift(n, SealSegment(n), {}, records)
  <2> DEFINE z == SealSegment(n)
  <2>1. /\ Shape(z, records) /\ Advances(n, z, {}, records) /\ z.active = n.active
        /\ Len(z.segments) = Len(n.segments)
        /\ \A k \in 1 .. Len(n.segments) : z.segments[k].from = n.segments[k].from
    BY SealingKeepsTheShape
  <2> HIDE DEF z
  <2>2. Len(n.segments) > 0 => n.segments[1].from <= z.segments[1].from BY <1>2, <2>1
  <2> QED BY <2>1, <2>2 DEF Drift, z
<1>4. Drift(n, Finish(n), {}, records)
  <2> DEFINE z == Finish(n)
  <2>1. /\ Shape(z, records) /\ Advances(n, z, {}, records) /\ ~z.active
        /\ Len(z.segments) = Len(n.segments)
        /\ \A k \in 1 .. Len(n.segments) : z.segments[k].from = n.segments[k].from
    BY FinishingKeepsTheShape
  <2> HIDE DEF z
  <2>2. Len(n.segments) > 0 => n.segments[1].from <= z.segments[1].from BY <1>2, <2>1
  <2> QED BY <2>1, <2>2 DEF Drift, z
<1> QED BY <1>3, <1>4

LEMMA OpeningDrifts ==
  ASSUME NEW records \in Nat, NEW n, Shape(n, records), Len(n.segments) > 0
  PROVE  Drift(n, OpenSegment(n, records), {}, records)
<1> DEFINE z == OpenSegment(n, records)
<1>1. /\ Shape(z, records) /\ Advances(n, z, {}, records) /\ z.active = n.active
      /\ Len(z.segments) = Len(n.segments) + 1
      /\ z.segments[1].from = IF Len(n.segments) = 0 THEN records + 1
                              ELSE n.segments[1].from
  BY OpeningKeepsTheShape
<1>2. Len(n.segments) \in Nat /\ n.segments[1].from \in Nat
  BY NativeFields, FirstSegment DEF Shape
<1> HIDE DEF z
<1>3. Len(z.segments) > 0 /\ n.segments[1].from <= z.segments[1].from BY <1>1, <1>2
<1> QED BY <1>1, <1>3 DEF Drift, z

LEMMA EvictionDrifts ==
  ASSUME NEW records \in Nat, NEW n, Shape(n, records)
  PROVE  Drift(n, Evict(n), Unreached(n), records)
<1> DEFINE z == Evict(n)
<1>1. /\ Shape(z, records) /\ Advances(n, z, Unreached(n), records)
      /\ z.active = n.active
      /\ Len(n.segments) > 0 => Len(z.segments) > 0
      /\ Len(z.segments) > 0 => z.segments[1].from >= n.segments[1].from
  BY EvictionKeepsTheShape
<1>2. Len(n.segments) \in Nat BY NativeFields DEF Shape
<1>3. CASE Len(n.segments) = 0
  <2>1. Victims(n) = {} BY <1>2, <1>3, VictimsAreAPrefix
  <2>2. z = n BY <2>1 DEF Evict
  <2> QED BY <1>1, <1>3, <2>2 DEF Drift
<1>4. CASE Len(n.segments) # 0
  <2>1. Len(n.segments) > 0 /\ Len(z.segments) > 0 BY <1>1, <1>2, <1>4
  <2>2. n.segments[1].from \in Nat /\ z.segments[1].from \in Nat
    BY <1>1, <2>1, FirstSegment
  <2> HIDE DEF z
  <2>3. n.segments[1].from <= z.segments[1].from BY <1>1, <2>1, <2>2
  <2> QED BY <1>1, <2>1, <2>3 DEF Drift, z
<1> QED BY <1>3, <1>4

LEMMA StandingStillDrifts ==
  ASSUME NEW records \in Nat, NEW n, Shape(n, records)
  PROVE  Drift(n, n, {}, records)
<1>1. n.unread \in Nat /\ Frontier(n, records) \in Nat
  BY FrontierInRange, NativeFields DEF Shape
<1>2. Advances(n, n, {}, records) BY <1>1 DEF Advances
<1>3. Len(n.segments) > 0 => n.segments[1].from <= n.segments[1].from BY FirstSegment
<1> QED BY <1>2, <1>3 DEF Drift

\* Sealed seals or rotates, and Evict follows.
LEMMA SealedDrifts ==
  ASSUME NEW n, Shape(n, Len(owner)), Len(owner) \in Nat, NEW sealing
  PROVE  Drift(n, Sealed(n, sealing), {}, Len(owner))
<1>1. CASE ~(sealing /\ Capturing(n)) BY <1>1, StandingStillDrifts DEF Sealed
<1>2. CASE sealing /\ Capturing(n)
  <2>1. Len(n.segments) > 0
    <3>1. n.segments \in Seq(SegmentType) /\ n.segments # <<>>
      BY <1>2, NativeFields DEF Shape, Capturing
    <3> QED BY <3>1
  <2> QED BY <1>2, <2>1, SealingDrifts, OpeningDrifts DEF Sealed, RotateSegment
<1> QED BY <1>1, <1>2

LEMMA EmptyDrainDrifts ==
  ASSUME NEW records \in Nat, records <= MaxRecords, NEW n, Shape(n, records),
         Drained(n).data = <<>>
  PROVE  Drift(n, AfterDrain(n), {}, records)
<1> DEFINE z == AfterDrain(n)
<1>1. /\ Shape(z, records) /\ z.active = n.active /\ z.segments = n.segments
      /\ Advances(n, z, {}, records)
  BY DrainingKeepsTheShape
<1>2. Len(n.segments) > 0 => n.segments[1].from <= n.segments[1].from BY FirstSegment
<1> HIDE DEF z
<1> QED BY <1>1, <1>2 DEF Drift, z

\* To every object a plugin without a reader evolves.
LEMMA DriftEvolves ==
  ASSUME NEW id, NEW n, NEW o \in Seq(Nat), NEW g, Shape(n, Len(o)),
         NEW z, NEW lost, Drift(n, z, lost, Len(o))
  PROVE  Evolves(id, n, o, g, z, o, g \cup lost)
<1>1. Len(o) \in Nat /\ Len(o) <= Len(o) OBVIOUS
<1>2. Advances(n, z, lost, Len(o)) /\ Shape(z, Len(o)) BY DEF Drift
<1>3. \A seg \in Nat, carry \in Seq(Cell) : Joined(n, seg, carry) => Joined(z, seg, carry)
  BY <1>1, <1>2, JoinedAdvances
<1>4. Live(id, z) => Live(id, n) BY <1>2 DEF Drift, Live, Advances
<1> QED BY <1>1, <1>2, <1>3, <1>4 DEF Evolves, Advances

LEMMA NothingEvolves ==
  ASSUME NEW id, NEW n, NEW o \in Seq(Nat), NEW g, NEW z, NEW h, g \subseteq h,
         ~Live(id, z)
  PROVE  Evolves(id, n, o, g, z, o, h)
BY DEF Evolves

(***************************************************************************)
(* Who wrote what: a native session's records follow one another, from the *)
(* first of its segments on they are its own, and a session that lost one  *)
(* of them says so.                                                        *)
(***************************************************************************)
OwnersOK(n, o, g, given) ==
  /\ \A r \in 1 .. Len(o) : o[r] \in 1 .. given
  /\ n.active => n.id > 0
  /\ \A p, r \in 1 .. Len(o) : p < r /\ o[p] = n.id => o[r] = n.id
  /\ \A p, q, r \in 1 .. Len(o) : p < q /\ q < r /\ o[p] = o[r] => o[q] = o[p]
  /\ Len(n.segments) > 0 =>
       \A r \in 1 .. Len(o) : n.segments[1].from <= r => o[r] = n.id
  /\ \A r \in g : o[r] = n.id => n.unread > 0

LEMMA OwnersDrift ==
  ASSUME NEW n, NEW o \in Seq(Nat), NEW g, NEW given, Shape(n, Len(o)),
         OwnersOK(n, o, g, given), NEW z, NEW lost, Drift(n, z, lost, Len(o))
  PROVE  OwnersOK(z, o, g \cup lost, given)
<1>1. /\ z.id = n.id /\ n.unread <= z.unread /\ Shape(z, Len(o))
      /\ lost # {} => z.unread > 0
  BY DEF Drift, Advances
<1>2. n.unread \in Nat /\ z.unread \in Nat /\ Len(o) \in Nat
  BY <1>1, NativeFields DEF Shape
<1>3. ASSUME Len(z.segments) > 0, NEW r \in 1 .. Len(o), z.segments[1].from <= r
      PROVE  o[r] = z.id
  <2>1. Len(n.segments) > 0 BY <1>3 DEF Drift
  <2>2. n.segments[1].from \in Nat /\ z.segments[1].from \in Nat
    BY <1>1, <1>2, <1>3, <2>1, FirstSegment
  <2>3. n.segments[1].from <= r
    <3>1. n.segments[1].from <= z.segments[1].from BY <2>1 DEF Drift
    <3> QED BY <1>3, <2>2, <3>1
  <2> QED BY <1>1, <2>1, <2>3 DEF OwnersOK
<1>4. ASSUME NEW r \in g \cup lost, o[r] = z.id PROVE z.unread > 0
  <2>1. CASE lost # {} BY <1>1, <2>1
  <2>2. CASE lost = {}
    <3>1. n.unread > 0 BY <1>1, <1>4, <2>2 DEF OwnersOK
    <3> QED BY <1>1, <1>2, <3>1
  <2> QED BY <2>1, <2>2
<1>5. z.active => z.id > 0 BY <1>1 DEF OwnersOK, Drift
<1> QED BY <1>1, <1>3, <1>4, <1>5 DEF OwnersOK

\* The same after a drain with data: of the cursor nothing is said.
LEMMA OwnersDrained ==
  ASSUME NEW n, NEW o \in Seq(Nat), Len(o) <= MaxRecords, NEW g, NEW given,
         Shape(n, Len(o)), OwnersOK(n, o, g, given)
  PROVE  OwnersOK(AfterDrain(n), o, g, given)
<1> DEFINE z == AfterDrain(n)
<1>1. /\ z.id = n.id /\ z.unread = n.unread /\ z.active = n.active
      /\ z.segments = n.segments
  BY DrainingKeepsTheShape
<1> HIDE DEF z
<1> QED BY <1>1 DEF OwnersOK, z

\* The session that starts is new: no record is its own yet.
LEMMA OwnersStarted ==
  ASSUME NEW n, NEW o \in Seq(Nat), NEW g, NEW given \in Nat, OwnersOK(n, o, g, given),
         g \subseteq 1 .. Len(o), NEW id \in Nat, id > 0,
         \A r \in 1 .. Len(o) : o[r] # id,
         NEW z, z.id = id, Len(z.segments) > 0 => z.segments[1].from = Len(o) + 1
  PROVE  OwnersOK(z, o, g, given)
<1>1. Len(o) \in Nat OBVIOUS
<1>2. \A r \in 1 .. Len(o) : ~(Len(o) + 1 <= r) BY <1>1
<1> QED BY <1>2 DEF OwnersOK

\* A session that goes away, by its own end or with its machine.
LEMMA OwnersBlank ==
  ASSUME NEW n, NEW o \in Seq(Nat), NEW g, NEW given \in Nat, OwnersOK(n, o, g, given),
         g \subseteq 1 .. Len(o), NEW z \in NativeType, Blank(z),
         \/ z.id = n.id /\ n.unread <= z.unread /\ n \in NativeType
         \/ z.id = 0
  PROVE  OwnersOK(z, o, g, given)
<1>1. ~(Len(z.segments) > 0) /\ ~z.active BY DEF Blank
<1>2. CASE z.id = n.id /\ n.unread <= z.unread /\ n \in NativeType
  <2>1. n.unread \in Nat /\ z.unread \in Nat BY <1>2, NativeFields
  <2>2. n.unread > 0 => z.unread > 0 BY <1>2, <2>1
  <2> QED BY <1>1, <1>2, <2>2 DEF OwnersOK
<1>3. CASE z.id = 0
  <2>1. \A r \in 1 .. Len(o) : o[r] # 0 BY DEF OwnersOK
  <2> QED BY <1>1, <1>3, <2>1 DEF OwnersOK
<1> QED BY <1>2, <1>3

(***************************************************************************)
(* A chunk taken                                                           *)
(***************************************************************************)
LEMMA DrainingFlies ==
  ASSUME NEW s \in SessionType, NEW n, NEW o \in Seq(Nat), Len(o) <= MaxRecords, NEW g,
         NEW given, Shape(n, Len(o)), OwnersOK(n, o, g, given), g \subseteq 1 .. Len(o),
         n.id = s.id, Drained(n).data # <<>>,
         NEW c, c.seg \in Nat, c.carry \in Seq(Cell), c.chunk = Drained(n),
         c.unread = AfterDrain(n).unread,
         Standing(s, c.seg, c.carry, n, o, g)
  PROVE  Flying(s, c, AfterDrain(n), o, g)
<1> DEFINE z == AfterDrain(n)
           p == Pos(n)
           cut == Cut([seg |-> c.seg, carry |-> c.carry], c.chunk)
<1>1. Len(o) \in Nat /\ Len(n.segments) \in Nat BY NativeFields DEF Shape
<1>2. p \in 1 .. Len(n.segments)
  <2>1. Drainable(n) # {} BY <1>1, DrainedChunk
  <2> QED BY <1>1, <2>1, DrainedChunk
<1>3. Len(n.segments) > 0 BY <1>1, <1>2
<1>4. Joined(n, c.seg, c.carry) /\ Covered(s, Frontier(n, Len(o)), o, g)
  BY <1>3 DEF Standing, Live
<1>5. Gives(n, c.seg, c.carry, Len(o)) BY <1>1, <1>4 DEF Gives
<1>a. PICK a \in Nat, m \in Nat : Joins(n, c.seg, c.carry, Len(o), a, m)
  BY <1>5, DrainedJoins
<1>6. /\ Joined(z, c.chunk.seg, cut.carry)
      /\ Frontier(n, Len(o)) = a + 1 /\ Frontier(z, Len(o)) = a + m + 1
      /\ a + m <= Len(o)
      /\ cut.whole = Cells(a + 1, a + m)
      /\ \A r \in a + 1 .. a + m : r \in n.segments[p].from .. n.segments[p].to
  BY <1>a DEF Joins
<1>7. z.id = n.id /\ z.unread = n.unread /\ z.segments = n.segments
  BY <1>1, DrainingKeepsTheShape
<1> HIDE DEF z, cut
<1>8. ASSUME NEW r \in a + 1 .. a + m PROVE r \in Mine(s, o)
  <2>1. r \in 1 .. Len(o) BY <1>1, <1>6
  <2>2. n.segments[1].from \in Nat /\ n.segments[1].from <= n.segments[p].from
        /\ n.segments[p].from \in Nat
    BY <1>1, <1>2, <1>3, FirstSegment, NativeFields DEF Shape
  <2>3. n.segments[p].from <= r BY <1>6, <2>1
  <2>4. n.segments[1].from <= r BY <2>1, <2>2, <2>3
  <2>5. o[r] = s.id BY <1>3, <2>1, <2>4 DEF OwnersOK
  <2> QED BY <2>1, <2>5 DEF Mine
<1>9. ASSUME s.fed = <<>>, NEW r \in Mine(s, o), r <= a PROVE c.unread > 0
  <2>1. r \in Nat /\ o[r] = n.id BY DEF Mine
  <2>2. FedSet(s) = {}
    <3>1. DOMAIN s.fed = {} BY <1>9
    <3> QED BY <3>1 DEF FedSet
  <2>3. r < a + 1 BY <1>9, <2>1
  <2>4. r \in g BY <1>4, <1>6, <2>2, <2>3 DEF Covered
  <2>5. n.unread > 0 BY <2>1, <2>4 DEF OwnersOK
  <2> QED BY <1>7, <2>5 DEF z
<1>10. Passed(s, c, a, m, z, o, g)
  <2>1. a + m < Frontier(z, Len(o)) BY <1>6
  <2>2. ASSUME NEW r \in Mine(s, o), a + m < r, r < Frontier(z, Len(o)) PROVE r \in g
    <3>1. r \in Nat BY DEF Mine
    <3> QED BY <1>6, <2>2, <3>1
  <2> QED BY <1>6, <2>1, <2>2 DEF Passed, cut
<1>11. FlyingFrom(s, c, a, m, z, o, g)
  BY <1>4, <1>6, <1>8, <1>9, <1>10 DEF FlyingFrom, cut
<1> QED BY <1>11 DEF Flying, z

(***************************************************************************)
(* A record written, and a processor gone                                  *)
(***************************************************************************)
LEMMA OwnersWritten ==
  ASSUME NEW n, NEW o \in Seq(Nat), NEW g, NEW given \in Nat, OwnersOK(n, o, g, given),
         g \subseteq 1 .. Len(o), n.active, n.id \in Nat, n.id <= given,
         NEW z, z.id = n.id, z.unread = n.unread, z.active = n.active,
         Len(z.segments) = Len(n.segments),
         Len(n.segments) > 0 => z.segments[1].from = n.segments[1].from
  PROVE  OwnersOK(z, Append(o, n.id), g, given)
<1> DEFINE q == Append(o, n.id)
           len == Len(o)
<1>1. /\ len \in Nat /\ Len(q) = len + 1 /\ q[len + 1] = n.id
      /\ \A r \in 1 .. len : q[r] = o[r]
  OBVIOUS
<1> HIDE DEF q, len
<1>2. \A r \in 1 .. len + 1 : r \in 1 .. len \/ r = len + 1 BY <1>1
<1>3. n.id \in 1 .. given BY DEF OwnersOK
<1>a. OwnersOK(n, o, g, given) /\ len = Len(o) BY DEF len
<1>4. \A r \in 1 .. len + 1 : q[r] \in 1 .. given
  BY <1>1, <1>2, <1>3, <1>a DEF OwnersOK
<1>5. ASSUME NEW p \in 1 .. len + 1, NEW r \in 1 .. len + 1, p < r, q[p] = n.id
      PROVE  q[r] = n.id
  <2>1. p \in 1 .. len BY <1>1, <1>5
  <2> QED BY <1>1, <1>2, <1>5, <1>a, <2>1 DEF OwnersOK
<1>6. ASSUME NEW p \in 1 .. len + 1, NEW m \in 1 .. len + 1, NEW r \in 1 .. len + 1,
             p < m, m < r, q[p] = q[r]
      PROVE  q[m] = q[p]
  <2>1. p \in 1 .. len /\ m \in 1 .. len BY <1>1, <1>6
  <2>2. CASE r = len + 1 BY <1>1, <1>5, <1>6, <2>2
  <2>3. CASE r \in 1 .. len BY <1>1, <1>6, <1>a, <2>1, <2>3 DEF OwnersOK
  <2> QED BY <1>2, <2>2, <2>3
<1>7. ASSUME Len(z.segments) > 0, NEW r \in 1 .. len + 1, z.segments[1].from <= r
      PROVE  q[r] = n.id
  BY <1>1, <1>2, <1>7, <1>a DEF OwnersOK
<1>8. ASSUME NEW r \in g, q[r] = n.id PROVE z.unread > 0
  <2>1. r \in 1 .. len BY <1>a
  <2> QED BY <1>1, <1>8, <2>1, <1>a DEF OwnersOK
<1>9. z.active => z.id > 0 BY <1>3
<1>10. z.id = n.id /\ Len(q) = len + 1 BY <1>1
<1>11. OwnersOK(z, q, g, given)
  BY ONLY <1>4, <1>5, <1>6, <1>7, <1>8, <1>9, <1>10 DEF OwnersOK
<1> QED BY <1>11 DEF q

LEMMA WritingEvolves ==
  ASSUME NEW id, NEW n, NEW o \in Seq(Nat), NEW g, Shape(n, Len(o)), Capturing(n),
         NEW writer \in Nat
  PROVE  Evolves(id, n, o, g, [n EXCEPT !.segments[Len(n.segments)].to = @ + 1],
                 Append(o, writer), g)
<1> DEFINE z == [n EXCEPT !.segments[Len(n.segments)].to = @ + 1]
           q == Append(o, writer)
<1>1. Len(o) \in Nat /\ Len(q) = Len(o) + 1 /\ \A r \in 1 .. Len(o) : q[r] = o[r]
  OBVIOUS
<1>2. /\ z.id = n.id /\ z.drain = n.drain /\ z.offset = n.offset
      /\ Frontier(z, Len(o) + 1) = Frontier(n, Len(o))
      /\ Len(z.segments) = Len(n.segments)
      /\ \A k \in 1 .. Len(n.segments) : z.segments[k].from = n.segments[k].from
  BY <1>1, WritingKeepsTheShape
<1>3. z.next = n.next BY DEF Shape, NativeType
<1> HIDE DEF z, q
<1>4. Pos(z) = Pos(n) BY <1>2, <1>3 DEF Pos
<1>5. n.offset > 0 => Pos(n) \in 1 .. Len(n.segments)
  BY NativeFields DEF Shape, CursorOK
<1>6. n.offset \in Nat /\ Frontier(n, Len(o)) \in Nat
  BY <1>1, NativeFields, FrontierInRange DEF Shape
<1>7. ASSUME NEW seg \in Nat, NEW carry \in Seq(Cell), Joined(n, seg, carry)
      PROVE  Joined(z, seg, carry)
  <2>1. CASE n.offset % 2 = 1
    <3>1. n.offset > 0
      <4>1. n.offset # 0 BY <2>1
      <4> QED BY <1>6, <4>1
    <3>2. z.segments[Pos(z)].from = n.segments[Pos(n)].from BY <1>2, <1>4, <1>5, <3>1
    <3> QED BY <1>2, <1>7, <3>2 DEF Joined
  <2>2. CASE n.offset % 2 # 1 BY <1>2, <1>7, <2>2 DEF Joined
  <2> QED BY <2>1, <2>2
<1>8. ASSUME Live(id, z)
      PROVE  /\ Live(id, n) /\ Frontier(n, Len(o)) <= Frontier(z, Len(q))
             /\ \A r \in Nat : Frontier(n, Len(o)) <= r /\ r < Frontier(z, Len(q)) => r \in g
  <2>1. Live(id, n) BY <1>2, <1>8 DEF Live
  <2>2. Frontier(z, Len(q)) = Frontier(n, Len(o)) BY <1>1, <1>2
  <2> QED BY <1>6, <2>1, <2>2
<1>9. Len(o) <= Len(q) BY <1>1
<1> QED BY <1>1, <1>7, <1>8, <1>9 DEF Evolves, z, q

LEMMA LosingTheProcessorDrifts ==
  ASSUME NEW records \in Nat, NEW n, Shape(n, records)
  PROVE  Drift(n, [n EXCEPT !.active = FALSE], {}, records)
<1> DEFINE z == [n EXCEPT !.active = FALSE]
<1>1. /\ z \in NativeType /\ z.segments = n.segments /\ z.next = n.next
      /\ z.drain = n.drain /\ z.offset = n.offset /\ ~z.active
      /\ z.id = n.id /\ z.unread = n.unread
  BY DEF Shape, NativeType
<1> HIDE DEF z
<1>2. Pos(z) = Pos(n) BY <1>1 DEF Pos
<1>3. Shape(z, records) BY <1>1, <1>2 DEF Shape, CursorOK
<1>4. Frontier(z, records) = Frontier(n, records) BY <1>1, <1>2 DEF Frontier
<1>5. n.unread \in Nat /\ Frontier(n, records) \in Nat
  BY NativeFields, FrontierInRange DEF Shape
<1>6. Advances(n, z, {}, records) BY <1>1, <1>2, <1>4, <1>5 DEF Advances
<1>7. Len(n.segments) > 0 => n.segments[1].from <= n.segments[1].from BY FirstSegment
<1> QED BY <1>1, <1>3, <1>6, <1>7 DEF Drift, z

(***************************************************************************)
(* The steps of the plugin, to the session objects                         *)
(***************************************************************************)
OwnersInv == OwnersOK(native, owner, gone, ids)

Evolved(id) == Evolves(id, native, owner, gone, native', owner', gone')

\* A step that gives nobody data.
Undrained == OwnersInv' /\ drains' = drains /\ \A id : Evolved(id)

\* The same native session, still with files; what is written is its own.
SameSession(n, z, o, q) ==
  /\ z.id = n.id
  /\ Len(n.segments) > 0 => Len(z.segments) > 0
  /\ \A r \in 1 .. Len(q) : (r \in 1 .. Len(o) /\ q[r] = o[r]) \/ q[r] = n.id

LEMMA NativeFacts ==
  ASSUME NativeInv
  PROVE  /\ owner \in Seq(Nat) /\ Len(owner) \in Nat /\ Len(owner) <= MaxRecords
         /\ Shape(native, Len(owner)) /\ native \in NativeType
         /\ native.id \in Nat /\ native.id <= ids /\ ids \in Nat
         /\ gone \subseteq 1 .. Len(owner)
BY NativeFields DEF NativeInv, Shape

LEMMA Drifting ==
  ASSUME NativeInv, OwnersInv, owner' = owner, drains' = drains, ids' = ids,
         NEW lost, gone' = gone \cup lost, Drift(native, native', lost, Len(owner))
  PROVE  Undrained /\ SameSession(native, native', owner, owner')
<1>1. /\ owner \in Seq(Nat) /\ Shape(native, Len(owner)) BY NativeFacts
<1>2. OwnersOK(native', owner, gone \cup lost, ids) BY <1>1, OwnersDrift DEF OwnersInv
<1>3. \A id : Evolves(id, native, owner, gone, native', owner, gone \cup lost)
  BY <1>1, DriftEvolves
<1>4. SameSession(native, native', owner, owner') BY DEF SameSession, Drift, Advances
<1> QED BY <1>2, <1>3, <1>4 DEF Undrained, OwnersInv, Evolved

LEMMA NothingNative ==
  ASSUME NativeInv, OwnersInv, UNCHANGED <<native, owner, gone, drains>>,
         ids' \in Nat, ids <= ids'
  PROVE  Undrained
<1>1. /\ owner \in Seq(Nat) /\ Shape(native, Len(owner)) /\ Len(owner) \in Nat
      /\ ids \in Nat
  BY NativeFacts
<1>2. Drift(native, native, {}, Len(owner)) BY <1>1, StandingStillDrifts
<1>3. \A id : Evolves(id, native, owner, gone, native, owner, gone \cup {})
  BY <1>1, <1>2, DriftEvolves
<1>4. gone \cup {} = gone OBVIOUS
<1>5. \A id : Evolved(id) BY <1>3, <1>4 DEF Evolved
<1>6. \A x : x \in 1 .. ids => x \in 1 .. ids' BY <1>1
<1>7. OwnersOK(native, owner, gone, ids') BY <1>6 DEF OwnersInv, OwnersOK
<1> QED BY <1>5, <1>7 DEF Undrained, OwnersInv

LEMMA Blanking ==
  ASSUME NativeInv, OwnersInv, owner' = owner, drains' = drains, ids' = ids,
         gone \subseteq gone', gone' \subseteq 1 .. Len(owner),
         native' \in NativeType, Blank(native'), OwnersOK(native', owner, gone', ids)
  PROVE  Undrained
<1>1. owner \in Seq(Nat) BY NativeFacts
<1>2. ~(Len(native'.segments) > 0) BY DEF Blank
<1>3. \A id : Evolved(id) BY <1>1, <1>2, NothingEvolves DEF Evolved, Live
<1> QED BY <1>3 DEF Undrained, OwnersInv

LEMMA EmulatorGivesNothing ==
  ASSUME NativeInv, OwnersInv, Emulator
  PROVE  Undrained /\ SameSession(native, native', owner, owner')
<1>1. /\ owner \in Seq(Nat) /\ Len(owner) \in Nat /\ Shape(native, Len(owner))
      /\ native.id \in Nat /\ native.id <= ids /\ ids \in Nat
      /\ gone \subseteq 1 .. Len(owner) /\ native \in NativeType
  BY NativeFacts
<1>2. drains' = drains /\ ids' = ids
  BY DEF Emulator, WriteRecord, Rotate, CloseWindow, FrameLimit, ProcessorGone, boundVars
<1>3. ASSUME NEW n, Drift(native, n, {}, Len(owner)), Evicting(n), owner' = owner
      PROVE  Undrained /\ SameSession(native, native', owner, owner')
  <2>1. Shape(n, Len(owner)) BY <1>3 DEF Drift
  <2>2. Drift(n, Evict(n), Unreached(n), Len(owner)) BY <1>1, <2>1, EvictionDrifts
  <2>3. Drift(native, Evict(n), {} \cup Unreached(n), Len(owner))
    BY <1>1, <1>3, <2>2, DriftIsTransitive
  <2>4. {} \cup Unreached(n) = Unreached(n) OBVIOUS
  <2> QED BY <1>2, <1>3, <2>3, <2>4, Drifting DEF Evicting
<1>4. CASE WriteRecord
  <2> DEFINE z == [native EXCEPT !.segments[Len(native.segments)].to = @ + 1]
  <2>1. /\ Capturing(native) /\ native' = z /\ owner' = Append(owner, native.id)
        /\ gone' = gone
    BY <1>4 DEF WriteRecord
  <2>2. \A id : Evolved(id) BY <1>1, <2>1, WritingEvolves DEF Evolved
  <2>3. /\ z.id = native.id /\ z.unread = native.unread /\ z.active = native.active
        /\ Len(z.segments) = Len(native.segments)
        /\ \A k \in 1 .. Len(native.segments) : z.segments[k].from = native.segments[k].from
    BY <1>1, <2>1, WritingKeepsTheShape
  <2> HIDE DEF z
  <2>4. Len(native.segments) > 0 => z.segments[1].from = native.segments[1].from
    BY <1>1, <2>3, FirstSegment
  <2>5. native.active BY <2>1 DEF Capturing
  <2>6. OwnersOK(z, Append(owner, native.id), gone, ids)
    BY <1>1, <2>3, <2>4, <2>5, OwnersWritten DEF OwnersInv
  <2>7. \A r \in 1 .. Len(owner') : (r \in 1 .. Len(owner) /\ owner'[r] = owner[r])
                                      \/ owner'[r] = native.id
    BY <1>1, <2>1
  <2>8. SameSession(native, native', owner, owner') BY <2>1, <2>3, <2>7 DEF SameSession
  <2> QED BY <1>2, <2>1, <2>2, <2>6, <2>8 DEF Undrained, OwnersInv
<1>5. CASE Rotate
  <2>1. native.active /\ Evicting(RotateSegment(native)) /\ owner' = owner
    BY <1>5 DEF Rotate
  <2>2. Len(native.segments) > 0 BY <1>1, <2>1 DEF Shape
  <2>3. Drift(native, RotateSegment(native), {}, Len(owner))
    BY <1>1, <2>2, OpeningDrifts DEF RotateSegment
  <2> QED BY <1>3, <2>1, <2>3
<1>6. CASE CloseWindow
  <2>1. Evicting(SealSegment(native)) /\ owner' = owner BY <1>6 DEF CloseWindow
  <2>2. Drift(native, SealSegment(native), {}, Len(owner)) BY <1>1, SealingDrifts
  <2> QED BY <1>3, <2>1, <2>2
<1>7. CASE FrameLimit
  <2>1. Evicting(Finish(native)) /\ owner' = owner BY <1>7 DEF FrameLimit
  <2>2. Drift(native, Finish(native), {}, Len(owner)) BY <1>1, SealingDrifts
  <2> QED BY <1>3, <2>1, <2>2
<1>8. CASE ProcessorGone
  <2>1. /\ native' = [native EXCEPT !.active = FALSE] /\ owner' = owner
        /\ gone' = gone \cup {}
    BY <1>8 DEF ProcessorGone
  <2>2. Drift(native, native', {}, Len(owner)) BY <1>1, <2>1, LosingTheProcessorDrifts
  <2> QED BY <1>2, <2>1, <2>2, Drifting
<1> QED BY <1>4, <1>5, <1>6, <1>7, <1>8 DEF Emulator

\* A session that ends and loses its files.
LEMMA RetiringKeepsOwners ==
  ASSUME NativeInv, OwnersInv
  PROVE  /\ Retired(native) \in NativeType /\ Blank(Retired(native))
         /\ OwnersOK(Retired(native), owner, gone, ids)
         /\ ShutDown(native) \in NativeType /\ Blank(ShutDown(native))
         /\ OwnersOK(ShutDown(native), owner, gone, ids)
<1>1. /\ owner \in Seq(Nat) /\ Len(owner) \in Nat /\ Shape(native, Len(owner))
      /\ ids \in Nat /\ gone \subseteq 1 .. Len(owner) /\ native \in NativeType
  BY NativeFacts
<1>2. /\ Retired(native) \in NativeType /\ Blank(Retired(native))
      /\ Retired(native).id = native.id
      /\ ShutDown(native) \in NativeType /\ Blank(ShutDown(native)) /\ ShutDown(native).id = 0
  BY <1>1, RetiringLeavesABlank
<1> DEFINE y == Finish(native)
           z == Evict(y)
<1>3. Drift(native, y, {}, Len(owner)) BY <1>1, SealingDrifts
<1>4. Shape(y, Len(owner)) BY <1>3 DEF Drift
<1>5. ~y.active BY <1>1, FinishingKeepsTheShape
<1> HIDE DEF y
<1>6. Drift(y, z, Unreached(y), Len(owner)) /\ Shape(z, Len(owner))
  BY <1>1, <1>4, EvictionDrifts DEF Drift
<1> HIDE DEF z
<1>7. native.unread <= z.unread /\ ~z.active /\ z \in NativeType
  <2>1. native.unread <= y.unread /\ y.unread <= z.unread
    BY <1>3, <1>6 DEF Drift, Advances
  <2>2. native.unread \in Nat /\ y.unread \in Nat /\ z.unread \in Nat
    BY <1>1, <1>4, <1>6, NativeFields DEF Shape
  <2>3. ~z.active BY <1>5, <1>6 DEF Drift
  <2> QED BY <1>6, <2>1, <2>2, <2>3 DEF Shape
<1>8. Retired(native).unread = z.unread
  <2>1. Retired(native) = DeleteFiles(z) BY DEF Retired, y, z
  <2> QED BY <1>7, <2>1, DeletingLeavesABlank
<1>9. OwnersOK(Retired(native), owner, gone, ids)
  BY <1>1, <1>2, <1>7, <1>8, OwnersBlank DEF OwnersInv
<1>10. OwnersOK(ShutDown(native), owner, gone, ids)
  BY <1>1, <1>2, OwnersBlank DEF OwnersInv
<1> QED BY <1>2, <1>9, <1>10

LEMMA EndingGivesNothing ==
  ASSUME NativeInv, OwnersInv, NEW t \in Thread,
         \/ LoadNative(t)
         \/ \E delete \in BOOLEAN : StopNative(t, delete)
         \/ \E outcome \in {"unsent", "refused", "lost"} :
              NativeFails(t, outcome) /\ ~(outcome = "lost" /\ call[t].tool = "start")
  PROVE  Undrained
<1>1. /\ owner \in Seq(Nat) /\ Len(owner) \in Nat /\ Shape(native, Len(owner))
      /\ ids \in Nat /\ gone \subseteq 1 .. Len(owner) /\ native \in NativeType
  BY NativeFacts
<1>2. owner' = owner /\ drains' = drains /\ ids' = ids
  BY DEF LoadNative, StopNative, NativeFails, boundVars
<1>3. ASSUME native' = Retired(native) \/ native' = ShutDown(native), gone' = gone
      PROVE  Undrained
  BY <1>1, <1>2, <1>3, RetiringKeepsOwners, Blanking
<1>4. CASE LoadNative(t)
  <2>1. native' = ShutDown(native) /\ gone' = gone BY <1>4 DEF LoadNative
  <2> QED BY <1>3, <2>1
<1>5. ASSUME NEW delete \in BOOLEAN, StopNative(t, delete) PROVE Undrained
  <2> DEFINE y == Finish(native)
             z == Evict(y)
  <2>1. Drift(native, y, {}, Len(owner)) BY <1>1, SealingDrifts
  <2>2. Shape(y, Len(owner)) BY <2>1 DEF Drift
  <2>3. /\ native' = (IF delete THEN DeleteFiles(z) ELSE z)
        /\ gone' = gone \cup Unreached(y)
    BY <1>5 DEF StopNative
  <2>4. ~y.active BY <1>1, FinishingKeepsTheShape
  <2> HIDE DEF y
  <2>5. Drift(y, z, Unreached(y), Len(owner)) BY <1>1, <2>2, EvictionDrifts
  <2>6. Drift(native, z, {} \cup Unreached(y), Len(owner))
    BY <1>1, <2>1, <2>5, DriftIsTransitive
  <2>7. {} \cup Unreached(y) = Unreached(y) OBVIOUS
  <2> HIDE DEF z
  <2>8. Drift(native, z, Unreached(y), Len(owner)) BY <2>6, <2>7
  <2>9. CASE ~delete
    <3>1. native' = z BY <2>3, <2>9
    <3> QED BY <1>2, <2>3, <2>8, <3>1, Drifting
  <2>10. CASE delete
    <3>1. native' = DeleteFiles(z) BY <2>3, <2>10
    <3>2. z \in NativeType /\ ~z.active BY <2>4, <2>5 DEF Drift, Shape
    <3>3. /\ DeleteFiles(z) \in NativeType /\ Blank(DeleteFiles(z))
          /\ DeleteFiles(z).id = z.id /\ DeleteFiles(z).unread = z.unread
      BY <3>2, DeletingLeavesABlank
    <3>4. Unreached(y) \subseteq 1 .. Len(owner) BY <1>1, <2>2, UnreachedIsWritten
    <3>5. OwnersOK(z, owner, gone \cup Unreached(y), ids)
      BY <1>1, <2>8, OwnersDrift DEF OwnersInv
    <3>6. z.unread \in Nat /\ z.unread <= z.unread BY <3>2, NativeFields
    <3> DEFINE x == DeleteFiles(z)
               g == gone \cup Unreached(y)
    <3> HIDE DEF x, g
    <3>7. g \subseteq 1 .. Len(owner) /\ gone \subseteq g BY <1>1, <3>4 DEF g
    <3>8. x \in NativeType /\ Blank(x) /\ x.id = z.id /\ z.unread <= x.unread
      BY <3>3, <3>6 DEF x
    <3>9. OwnersOK(z, owner, g, ids) BY <3>5 DEF g
    <3>10. OwnersOK(x, owner, g, ids) BY <1>1, <3>2, <3>7, <3>8, <3>9, OwnersBlank
    <3>11. native' = x /\ gone' = g BY <2>3, <3>1 DEF x, g
    <3> QED BY <1>2, <3>7, <3>8, <3>10, <3>11, Blanking
  <2> QED BY <2>9, <2>10
<1>6. ASSUME NEW outcome \in {"unsent", "refused", "lost"}, NativeFails(t, outcome),
             ~(outcome = "lost" /\ call[t].tool = "start")
      PROVE  Undrained
  <2>1. /\ native' = native \/ native' = ShutDown(native) \/ native' = Retired(native)
        /\ gone' = gone
    BY <1>6 DEF NativeFails
  <2>2. CASE native' = native
    <3>1. ids <= ids BY <1>1
    <3> QED BY <1>1, <1>2, <2>1, <2>2, <3>1, NothingNative
  <2> QED BY <1>3, <2>1, <2>2
<1> QED BY <1>4, <1>5, <1>6

\* A session of that id starts: to the others there is none.
LEMMA StartingGivesNothing ==
  ASSUME NativeInv, OwnersInv, NEW id \in 1 .. ids, NEW mode \in Mode,
         \A r \in 1 .. Len(owner) : owner[r] # id,
         native' = Started(native, id, mode), UNCHANGED <<owner, gone, drains, ids>>
  PROVE  /\ OwnersInv' /\ \A x : x # id => Evolved(x)
         /\ native'.id = id /\ Len(native'.segments) > 0
<1>1. /\ owner \in Seq(Nat) /\ Len(owner) \in Nat /\ ids \in Nat
      /\ gone \subseteq 1 .. Len(owner) /\ id \in Nat /\ id > 0
  BY NativeFacts
<1>2. /\ native'.id = id /\ Len(native'.segments) = 1
      /\ native'.segments[1].from = Len(owner) + 1
  BY <1>1, StartingHasTheShape DEF Mode
<1>3. OwnersOK(native', owner, gone, ids) BY <1>1, <1>2, OwnersStarted DEF OwnersInv
<1>4. ASSUME NEW x, x # id PROVE Evolved(x)
  <2>1. ~Live(x, native') BY <1>2, <1>4 DEF Live
  <2>2. Evolves(x, native, owner, gone, native', owner, gone) BY <1>1, <2>1, NothingEvolves
  <2> QED BY <2>2 DEF Evolved
<1> QED BY <1>2, <1>3, <1>4 DEF OwnersInv

\* A drain moves the cursor: an empty one is no more than that; the data of another
\* one are for the object it was asked for.
LEMMA DrainGives ==
  ASSUME NativeInv, OwnersInv, NEW sealing, NEW obj, NEW evicted,
         evicted = Evict(Sealed(native, sealing)), native' = AfterDrain(evicted),
         gone' = gone \cup Unreached(Sealed(native, sealing)),
         drains' = Tapped(obj, evicted), owner' = owner, ids' = ids
  PROVE  /\ OwnersInv' /\ OwnersOK(evicted, owner, gone', ids)
         /\ Shape(evicted, Len(owner)) /\ evicted.id = native.id
         /\ \A id : Evolves(id, native, owner, gone, evicted, owner, gone')
         /\ SameSession(native, native', owner, owner')
         /\ Drained(evicted).data = <<>> => Undrained
         /\ Drained(evicted).data # <<>> => /\ drains' = drains \cup {<<obj, native.id>>}
                                            /\ \A id : id # native.id => Evolved(id)
<1> DEFINE sealed == Sealed(native, sealing)
           lost == Unreached(sealed)
<1>1. /\ owner \in Seq(Nat) /\ Len(owner) \in Nat /\ Shape(native, Len(owner))
      /\ Len(owner) <= MaxRecords
  BY NativeFacts
<1>2. Drift(native, sealed, {}, Len(owner)) BY <1>1, SealedDrifts
<1>a. evicted = Evict(sealed) /\ gone' = gone \cup lost OBVIOUS
<1> HIDE DEF sealed
<1>3. Shape(sealed, Len(owner)) BY <1>2 DEF Drift
<1>4. Drift(sealed, evicted, lost, Len(owner)) BY <1>1, <1>3, <1>a, EvictionDrifts
<1>5. Drift(native, evicted, {} \cup lost, Len(owner))
  BY <1>1, <1>2, <1>4, DriftIsTransitive
<1> HIDE DEF lost
<1>6. Drift(native, evicted, lost, Len(owner))
  <2>1. {} \cup lost = lost OBVIOUS
  <2> QED BY <1>5, <2>1
<1>7. Shape(evicted, Len(owner)) /\ evicted.id = native.id BY <1>6 DEF Drift, Advances
<1>8. OwnersOK(evicted, owner, gone', ids)
  BY <1>1, <1>6, <1>a, OwnersDrift DEF OwnersInv
<1>9. \A id : Evolves(id, native, owner, gone, evicted, owner, gone')
  BY <1>1, <1>6, <1>a, DriftEvolves
<1>10. OwnersInv'
  <2>1. OwnersOK(AfterDrain(evicted), owner, gone', ids)
    BY <1>1, <1>7, <1>8, OwnersDrained
  <2> QED BY <2>1 DEF OwnersInv
<1>11. ASSUME Drained(evicted).data = <<>> PROVE Undrained
  <2>1. Drift(evicted, AfterDrain(evicted), {}, Len(owner))
    BY <1>1, <1>7, <1>11, EmptyDrainDrifts
  <2>2. Drift(native, AfterDrain(evicted), lost \cup {}, Len(owner))
    BY <1>1, <1>6, <2>1, DriftIsTransitive
  <2>3. lost \cup {} = lost OBVIOUS
  <2>4. Drift(native, native', lost, Len(owner)) BY <2>2, <2>3
  <2>5. drains' = drains BY <1>11 DEF Tapped
  <2> QED BY <1>a, <2>4, <2>5, Drifting
<1>12. ASSUME Drained(evicted).data # <<>>, NEW id, id # native.id PROVE Evolved(id)
  <2>1. AfterDrain(evicted).id = evicted.id BY <1>1, <1>7, DrainingKeepsTheShape
  <2>2. ~Live(id, native') BY <1>7, <1>12, <2>1 DEF Live
  <2>3. Evolves(id, native, owner, gone, native', owner, gone')
    BY <1>1, <1>a, <2>2, NothingEvolves
  <2> QED BY <2>3 DEF Evolved
<1>13. ASSUME Drained(evicted).data # <<>> PROVE drains' = drains \cup {<<obj, native.id>>}
  BY <1>7, <1>13 DEF Tapped
<1>14. SameSession(native, native', owner, owner')
  <2>1. native'.id = evicted.id /\ native'.segments = evicted.segments
    BY <1>1, <1>7, DrainingKeepsTheShape
  <2>2. Len(native.segments) > 0 => Len(evicted.segments) > 0 BY <1>6 DEF Drift
  <2> QED BY <1>7, <2>1, <2>2 DEF SameSession
<1> QED BY <1>7, <1>8, <1>9, <1>10, <1>11, <1>12, <1>13, <1>14

(***************************************************************************)
(* Starts under way                                                        *)
(***************************************************************************)
Pending(c) == c.pc \in {"sched", "native", "commit"} /\ c.tool = "start"

\* Before its native command a start's id is unused; after it the session is native,
\* and until somebody drains it the session object to come has missed nothing.
StartOK(c, S, n, o, g, D) ==
  Pending(c) =>
    IF c.pc = "commit"
    THEN /\ n.id = c.id /\ Len(n.segments) > 0
         /\ (\A d \in D : d[2] # c.id) => Standing(NewSession(c.id, c.mode), 0, <<>>, n, o, g)
    ELSE /\ n.id # c.id /\ \A r \in 1 .. Len(o) : o[r] # c.id
         /\ \A i \in 1 .. Len(S) : S[i].clean => S[i].id # c.id

Holding(c, t, holder) == c.pc \in {"native", "commit"} => holder = t

StartsInv ==
  /\ \A t \in Thread : /\ StartOK(call[t], sessions, native, owner, gone, drains)
                       /\ Holding(call[t], t, sched)
  /\ \A t, u \in Thread :
       t # u /\ Pending(call[t]) /\ Pending(call[u]) => call[t].id # call[u].id
  /\ \A i \in 1 .. Len(sessions) : sessions[i].clean => sessions[i].id \in 1 .. ids
  /\ \A d \in drains : d[1] \in 1 .. Len(sessions)

\* Neither starts a session nor holds schedulerMu.
Calm(c) == ~Pending(c) /\ c.pc \notin {"native", "commit"}

LEMMA CollectingIsCalm ==
  ASSUME CallsInv, NEW t \in Thread, Collect(t)
  PROVE  /\ Calm(call[t]) /\ sched' = sched /\ ids' = ids
         /\ \E c : call' = [call EXCEPT ![t] = c] /\ Calm(c)
<1>0. call \in [Thread -> CallType] /\ call[t] \in CallType BY DEF CallsInv
<1>1. ASSUME NEW tool \in Collector, NEW cursor \in BOOLEAN, NEW collect \in BOOLEAN,
             Begin(t, tool, cursor, collect)
      PROVE  /\ Calm(call[t]) /\ sched' = sched /\ ids' = ids
             /\ \E c : call' = [call EXCEPT ![t] = c] /\ Calm(c)
  <2> DEFINE c == [pc |-> IF collect THEN "carry" ELSE AfterStatus[tool],
                   tool |-> tool, obj |-> current, cursor |-> cursor]
  <2>1. call' = [call EXCEPT ![t] = c] /\ call[t].pc = "idle" BY <1>1 DEF Begin
  <2>2. c.pc \in {"carry", "persist", "page", "sched"} /\ c.tool = tool
    BY DEF AfterStatus, Collector
  <2> HIDE DEF c
  <2>3. Calm(c) BY <2>2 DEF Calm, Pending, Collector
  <2> QED BY <1>1, <2>1, <2>3 DEF Begin, serverVars, Calm, Pending
<1>2. ASSUME NEW pc, NEW c, c.pc = pc, call' = [call EXCEPT ![t] = c],
             pc \in {"idle", "drain", "feed", "keep", "persist", "save"}
      PROVE  \E x : call' = [call EXCEPT ![t] = x] /\ Calm(x)
  <2>1. Calm(c) BY <1>2 DEF Calm, Pending
  <2> QED BY <1>2, <2>1
<1>3. CASE ReadCarry(t)
  <2> DEFINE c == [pc |-> "drain", tool |-> call[t].tool, obj |-> call[t].obj,
                   cursor |-> call[t].cursor, seg |-> sessions[call[t].obj].cseg,
                   carry |-> sessions[call[t].obj].carry, read |-> 0, sealing |-> TRUE]
  <2>1. call' = [call EXCEPT ![t] = c] /\ c.pc = "drain" BY <1>0, <1>3 DEF ReadCarry
  <2> HIDE DEF c
  <2>2. \E x : call' = [call EXCEPT ![t] = x] /\ Calm(x) BY <1>2, <2>1
  <2> QED BY <1>3, <2>2 DEF ReadCarry, boundVars, Calm, Pending
<1>4. CASE Drain(t)
  <2> DEFINE n == Evict(Sealed(native, call[t].sealing))
             c == [pc |-> "feed", tool |-> call[t].tool, obj |-> call[t].obj,
                   cursor |-> call[t].cursor, seg |-> call[t].seg,
                   carry |-> call[t].carry, read |-> call[t].read,
                   chunk |-> Drained(n), unread |-> AfterDrain(n).unread,
                   done |-> Drainable(AfterDrain(n)) = {}]
  <2>1. call' = [call EXCEPT ![t] = c] /\ c.pc = "feed" BY <1>0, <1>4 DEF Drain
  <2> HIDE DEF c
  <2>2. \E x : call' = [call EXCEPT ![t] = x] /\ Calm(x) BY <1>2, <2>1
  <2> QED BY <1>4, <2>2 DEF Drain, serverVars, boundVars, Calm, Pending
<1>5. CASE KeepCarry(t)
  <2> DEFINE c == [pc |-> AfterStatus[call[t].tool], tool |-> call[t].tool,
                   obj |-> call[t].obj, cursor |-> call[t].cursor]
  <2>1. call' = [call EXCEPT ![t] = c] /\ call[t].pc = "keep" BY <1>0, <1>5 DEF KeepCarry
  <2>2. call[t].tool \in Collector
    <3>1. call[t] \in Carrying BY <1>0, <2>1, CallKinds
    <3> QED BY <3>1 DEF Carrying
  <2>3. c.tool \in Collector BY <2>2
  <2>4. c.pc \in {"persist", "page", "sched"} BY <2>2 DEF AfterStatus, Collector
  <2> HIDE DEF c
  <2>5. Calm(c) BY <2>3, <2>4 DEF Calm, Pending, Collector
  <2> QED BY <1>5, <2>1, <2>5 DEF KeepCarry, boundVars, Calm, Pending
<1>6. ASSUME NEW misread \in BOOLEAN, Feed(t, misread)
      PROVE  /\ Calm(call[t]) /\ sched' = sched /\ ids' = ids
             /\ \E c : call' = [call EXCEPT ![t] = c] /\ Calm(c)
  <2> DEFINE b == call[t]
             empty == b.chunk.data = <<>>
             cut == Cut([seg |-> b.seg, carry |-> b.carry], b.chunk)
             read == b.read + Len(b.chunk.data)
             c == [pc |-> IF b.done \/ read >= Budget THEN "keep" ELSE "drain",
                   tool |-> b.tool, obj |-> b.obj, cursor |-> b.cursor,
                   seg |-> IF empty THEN b.seg ELSE b.chunk.seg,
                   carry |-> IF empty THEN b.carry ELSE cut.carry,
                   read |-> read, sealing |-> FALSE]
  <2>1. call' = [call EXCEPT ![t] = c] BY <1>6 DEF Feed
  <2>2. c.pc \in {"keep", "drain"} OBVIOUS
  <2> HIDE DEF c
  <2>3. \E x : call' = [call EXCEPT ![t] = x] /\ Calm(x) BY <1>2, <2>1, <2>2
  <2> QED BY <1>6, <2>3 DEF Feed, boundVars, Calm, Pending
<1>7. ASSUME (\E executed \in BOOLEAN : DrainFails(t, executed)) \/ StatusFails(t)
             \/ Save(t) \/ Snapshot(t)
      PROVE  /\ Calm(call[t]) /\ sched' = sched /\ ids' = ids
             /\ \E c : call' = [call EXCEPT ![t] = c] /\ Calm(c)
  <2> DEFINE idle == [pc |-> "idle"]
             saving == [pc |-> "save", manifest |-> NewManifest(sessions[call[t].obj])]
  <2>1. Calm(idle) /\ Calm(saving) BY DEF Calm, Pending
  <2>2. call' = [call EXCEPT ![t] = idle] \/ call' = [call EXCEPT ![t] = saving]
    BY <1>7 DEF DrainFails, StatusFails, Save, Snapshot, Return
  <2> HIDE DEF idle, saving
  <2>3. Calm(call[t]) /\ sched' = sched /\ ids' = ids
    BY <1>7 DEF DrainFails, StatusFails, Save, Snapshot, serverVars, boundVars, Calm, Pending
  <2> QED BY <2>1, <2>2, <2>3
<1>8. CASE Page(t)
  <2> DEFINE c == [call[t] EXCEPT !.pc = "persist"]
  <2>1. call[t] \in Plain BY <1>0, <1>8, CallKinds DEF Page
  <2>2. c.pc = "persist" BY <2>1 DEF Plain
  <2>3. call' = [call EXCEPT ![t] = c] BY <1>0, <1>8 DEF Page, Go
  <2> HIDE DEF c
  <2>4. \E x : call' = [call EXCEPT ![t] = x] /\ Calm(x) BY <1>2, <2>2, <2>3
  <2> QED BY <1>8, <2>4 DEF Page, serverVars, boundVars, Calm, Pending
<1> QED BY <1>1, <1>3, <1>4, <1>5, <1>6, <1>7, <1>8 DEF Collect

\* Another start, of x if there is one, and who writes, are no part of the call c.
Apart(c, S, T, n, o, z, q, x) ==
  /\ Pending(c) => c.id # x /\ c.id # 0
  /\ z.id = n.id \/ z.id = 0 \/ z.id = x
  /\ \A r \in 1 .. Len(q) : (r \in 1 .. Len(o) /\ q[r] = o[r]) \/ q[r] = n.id
  /\ \A i \in 1 .. Len(T) : T[i].clean =>
       T[i].id = x \/ \E j \in 1 .. Len(S) : S[j].clean /\ S[j].id = T[i].id

\* To a start about to commit.
Kindly(c, D, F, n, o, g, z, q, h) ==
  Pending(c) /\ c.pc = "commit" =>
    /\ z.id = n.id
    /\ Len(n.segments) > 0 => Len(z.segments) > 0
    /\ (\A d \in F : d[2] # c.id) => /\ \A d \in D : d[2] # c.id
                                     /\ Evolves(c.id, n, o, g, z, q, h)

LEMMA StartStays ==
  ASSUME NEW c \in CallType, NEW S, NEW T, NEW D, NEW F,
         NEW n, NEW o \in Seq(Nat), NEW g, NEW z, NEW q \in Seq(Nat), NEW h,
         Shape(n, Len(o)), Shape(z, Len(q)), StartOK(c, S, n, o, g, D),
         NEW x, Apart(c, S, T, n, o, z, q, x), Kindly(c, D, F, n, o, g, z, q, h)
  PROVE  StartOK(c, T, z, q, h, F)
<1> USE DEF Apart, Kindly
<1> SUFFICES ASSUME Pending(c)
             PROVE  IF c.pc = "commit"
                    THEN /\ z.id = c.id /\ Len(z.segments) > 0
                         /\ (\A d \in F : d[2] # c.id) =>
                              Standing(NewSession(c.id, c.mode), 0, <<>>, z, q, h)
                    ELSE /\ z.id # c.id /\ \A r \in 1 .. Len(q) : q[r] # c.id
                         /\ \A i \in 1 .. Len(T) : T[i].clean => T[i].id # c.id
  BY DEF StartOK
<1>1. CASE c.pc # "commit"
  <2>1. /\ n.id # c.id /\ \A r \in 1 .. Len(o) : o[r] # c.id
        /\ \A i \in 1 .. Len(S) : S[i].clean => S[i].id # c.id
    BY <1>1 DEF StartOK
  <2> QED BY <1>1, <2>1
<1>2. CASE c.pc = "commit"
  <2>1. n.id = c.id /\ Len(n.segments) > 0 BY <1>2 DEF StartOK
  <2>2. z.id = c.id /\ Len(z.segments) > 0 BY <1>2, <2>1
  <2>3. ASSUME \A d \in F : d[2] # c.id
        PROVE  Standing(NewSession(c.id, c.mode), 0, <<>>, z, q, h)
    <3> DEFINE s == NewSession(c.id, c.mode)
    <3>1. (\A d \in D : d[2] # c.id) /\ Evolves(c.id, n, o, g, z, q, h) BY <1>2, <2>3
    <3>2. Standing(s, 0, <<>>, n, o, g) BY <1>2, <3>1 DEF StartOK
    <3>3. c \in Starting BY <1>2, CallKinds DEF Pending, Collector
    <3>4. c.id \in Nat /\ c.mode \in Mode BY <3>3 DEF Starting
    <3>5. s \in SessionType BY <3>4, NewObject DEF ObjectOK
    <3>6. s.id = c.id BY DEF NewSession
    <3>7. 0 \in Nat /\ <<>> \in Seq(Cell) OBVIOUS
    <3> HIDE DEF s
    <3>8. Standing(s, 0, <<>>, z, q, h) BY <3>1, <3>2, <3>5, <3>6, <3>7, StandingStays
    <3> QED BY <3>8 DEF s
  <2> QED BY <1>2, <2>2, <2>3
<1> QED BY <1>1, <1>2

\* No clean object is added, and none becomes another's.
Cleaner(S, T) ==
  /\ Len(S) <= Len(T)
  /\ \A i \in 1 .. Len(T) : T[i].clean => i \in 1 .. Len(S) /\ S[i].clean /\ S[i].id = T[i].id

\* What the step of a start may do to it and to the native sessions.
StartsMove(t, c) ==
  /\ call' = [call EXCEPT ![t] = c]
  /\ StartOK(c, sessions', native', owner', gone', drains') /\ Holding(c, t, sched')
  /\ \/ sched' = sched
     \/ sched = None /\ sched' = t
     \/ call[t].pc \in {"native", "commit"} /\ sched' = None
  /\ \A u \in Thread : u # t =>
       /\ StartOK(call[u], sessions', native', owner', gone', drains')
       /\ Pending(c) /\ Pending(call[u]) => c.id # call[u].id
  /\ \A i \in 1 .. Len(sessions') : sessions'[i].clean => sessions'[i].id \in 1 .. ids'
  /\ \A d \in drains' : d[1] \in 1 .. Len(sessions')

LEMMA StartsMoved ==
  ASSUME TypeInv, TypeInv', StartsInv, NEW t \in Thread, NEW c, StartsMove(t, c)
  PROVE  StartsInv'
<1> USE DEF StartsMove
<1>1. ASSUME NEW u \in Thread
      PROVE  call'[u] = IF u = t THEN c ELSE call[u]
  BY DEF TypeInv, CallsInv
<1>2. \A u \in Thread : u # None BY SessionAssumption
<1>3. ASSUME NEW u \in Thread PROVE Holding(call'[u], u, sched')
  <2>1. CASE u = t BY <1>1, <2>1
  <2>2. CASE u # t
    <3>1. call'[u] = call[u] BY <1>1, <2>2
    <3>2. Holding(call[u], u, sched) /\ Holding(call[t], t, sched) BY DEF StartsInv
    <3> QED BY <1>2, <2>2, <3>1, <3>2 DEF Holding
  <2> QED BY <2>1, <2>2
<1>4. ASSUME NEW u \in Thread
      PROVE  StartOK(call'[u], sessions', native', owner', gone', drains')
  BY <1>1
<1>5. ASSUME NEW u \in Thread, NEW v \in Thread, u # v, Pending(call'[u]), Pending(call'[v])
      PROVE  call'[u].id # call'[v].id
  BY <1>1, <1>5 DEF StartsInv
<1> QED BY <1>3, <1>4, <1>5 DEF StartsInv

LEMMA StartsStep ==
  ASSUME TypeInv, TypeInv', StartsInv, NEW t \in Thread, NEW c, call' = [call EXCEPT ![t] = c],
         StartOK(c, sessions', native', owner', gone', drains'), Holding(c, t, sched'),
         \/ sched' = sched
         \/ sched = None /\ sched' = t
         \/ call[t].pc \in {"native", "commit"} /\ sched' = None,
         \A u \in Thread : u # t =>
           /\ StartOK(call[u], sessions', native', owner', gone', drains')
           /\ Pending(c) /\ Pending(call[u]) => c.id # call[u].id,
         \A i \in 1 .. Len(sessions') : sessions'[i].clean => sessions'[i].id \in 1 .. ids',
         \A d \in drains' : d[1] \in 1 .. Len(sessions')
  PROVE  StartsInv'
<1>1. StartsMove(t, c) BY DEF StartsMove
<1> QED BY <1>1, StartsMoved

\* The ids of pending starts and clean objects were given out before.
LEMMA StillStarts ==
  ASSUME TypeInv, StartsInv, UNCHANGED <<native, owner, gone, drains>>,
         Cleaner(sessions, sessions'), Len(sessions') \in Nat, ids' \in Nat, ids <= ids'
  PROVE  /\ \A u \in Thread : StartOK(call[u], sessions', native', owner', gone', drains')
         /\ \A i \in 1 .. Len(sessions') : sessions'[i].clean => sessions'[i].id \in 1 .. ids'
         /\ \A d \in drains' : d[1] \in 1 .. Len(sessions')
<1>1. \A u \in Thread : StartOK(call[u], sessions, native, owner, gone, drains)
  BY DEF StartsInv
<1>2. \A u \in Thread : StartOK(call[u], sessions', native', owner', gone', drains')
  BY <1>1 DEF StartOK, Cleaner
<1>3. Len(sessions) \in Nat /\ ids \in Nat BY DEF TypeInv, ObjectsInv, NativeInv
<1>4. \A x : x \in 1 .. ids => x \in 1 .. ids' BY <1>3
<1>5. \A x : x \in 1 .. Len(sessions) => x \in 1 .. Len(sessions') BY <1>3 DEF Cleaner
<1> QED BY <1>2, <1>4, <1>5 DEF StartsInv, Cleaner

LEMMA NothingCleaner ==
  ASSUME ObjectsInv, sessions' = sessions
  PROVE  Cleaner(sessions, sessions')
<1>1. Len(sessions) \in Nat /\ Len(sessions) <= Len(sessions) BY DEF ObjectsInv
<1> QED BY <1>1 DEF Cleaner

LEMMA OneCleaner ==
  ASSUME ObjectsInv, NEW i \in 1 .. Len(sessions), NEW z,
         sessions' = [sessions EXCEPT ![i] = z],
         z.id = sessions[i].id, z.clean => sessions[i].clean
  PROVE  Cleaner(sessions, sessions')
<1>1. /\ Len(sessions) \in Nat /\ Len(sessions) <= Len(sessions) /\ Len(sessions') = Len(sessions)
      /\ sessions'[i] = z
      /\ \A j \in 1 .. Len(sessions) : j # i => sessions'[j] = sessions[j]
  BY DEF ObjectsInv
<1> QED BY <1>1 DEF Cleaner

\* What a step of a collection does to its object.
Touched(i) ==
  /\ i \in 1 .. Len(sessions)
  /\ \E z : /\ sessions' = [sessions EXCEPT ![i] = z] /\ ObjectOK(z)
            /\ z.id = sessions[i].id /\ (z.clean => sessions[i].clean)

LEMMA CollectingTouches ==
  ASSUME TypeInv, NEW t \in Thread, Collect(t)
  PROVE  \/ sessions' = sessions
         \/ Touched(call[t].obj) /\ call[t].pc \in InCollection \cup {"carry"}
<1>0. ObjectsInv /\ CallsInv /\ CallOK(call[t], Len(sessions), ids)
      /\ sessions \in Seq(SessionType) /\ Len(sessions) \in Nat
      /\ \A j \in 1 .. Len(sessions) : ObjectOK(sessions[j])
  BY DEF TypeInv, CallsInv, ObjectsInv
<1> DEFINE b == call[t]
           i == b.obj
           s == sessions[i]
<1>1. ASSUME b.pc \in InCollection \cup {"carry"}
      PROVE  i \in 1 .. Len(sessions) /\ ObjectOK(s) /\ s.clean \in BOOLEAN
             /\ (b.pc # "carry" => b.carry \in Seq(Cell) /\ Len(b.carry) < 2 /\ b.seg \in Nat)
             /\ (b.pc = "feed" => b.chunk \in ChunkType /\ b.unread \in Nat)
  <2>1. i \in 1 .. Len(sessions) BY <1>0, <1>1 DEF CallOK, About, InCollection
  <2>2. ObjectOK(s) BY <1>0, <2>1
  <2>3. b \in CallType BY <1>0 DEF CallOK
  <2>4. b.pc # "carry" => b.carry \in Seq(Cell) /\ b.seg \in Nat
    BY <1>1, <2>3, CollectingCall
  <2>5. b.pc # "carry" => Len(b.carry) < 2 BY <1>0, <1>1 DEF CallOK, InCollection
  <2>6. b.pc = "feed" => b.chunk \in ChunkType /\ b.unread \in Nat
    BY <2>3, CallKinds DEF Feeding
  <2>7. s.clean \in BOOLEAN BY <2>2, SessionFields DEF ObjectOK
  <2> QED BY <2>1, <2>2, <2>4, <2>5, <2>6, <2>7
<1>2. ASSUME NEW clean \in BOOLEAN, b.pc \in InCollection \cup {"carry"},
             sessions' = [sessions EXCEPT ![i].clean = clean], clean => s.clean
      PROVE  Touched(i)
  <2> DEFINE z == [s EXCEPT !.clean = clean]
  <2>1. sessions' = [sessions EXCEPT ![i] = z] BY <1>2
  <2>2. ObjectOK(z) BY <1>1, <1>2, ObjectUpdates
  <2>3. z.id = s.id /\ z.clean = clean BY <1>1, <1>2 DEF ObjectOK, SessionType
  <2> HIDE DEF z
  <2> QED BY <1>1, <1>2, <2>1, <2>2, <2>3 DEF Touched
<1>3. CASE ReadCarry(t)
  <2> DEFINE overlaps == \E u \in Thread \ {t} : call[u].pc \in InCollection /\ call[u].obj = i
             clean == s.clean /\ ~overlaps
  <2>1. b.pc = "carry" BY <1>3 DEF ReadCarry
  <2>2. i \in 1 .. Len(sessions) /\ s.clean \in BOOLEAN BY <1>1, <2>1
  <2>3. sessions' = [sessions EXCEPT ![i].clean = @ /\ ~overlaps] BY <1>3 DEF ReadCarry
  <2>4. sessions' = [sessions EXCEPT ![i].clean = clean] BY <2>3
  <2>5. clean \in BOOLEAN /\ (clean => s.clean) OBVIOUS
  <2> HIDE DEF clean
  <2> QED BY <1>2, <2>1, <2>4, <2>5
<1>4. ASSUME NEW executed \in BOOLEAN, DrainFails(t, executed)
      PROVE  Touched(i) /\ b.pc = "drain"
  <2> DEFINE clean == s.clean /\ ~executed /\ b.sealing
  <2>1. b.pc = "drain" BY <1>4 DEF DrainFails
  <2>2. sessions' = [sessions EXCEPT ![i].clean = @ /\ ~executed /\ b.sealing]
    BY <1>4 DEF DrainFails
  <2>3. sessions' = [sessions EXCEPT ![i].clean = clean] BY <2>2
  <2>4. clean \in BOOLEAN /\ (clean => s.clean) OBVIOUS
  <2> HIDE DEF clean
  <2> QED BY <1>2, <2>1, <2>3, <2>4 DEF InCollection
<1>5. CASE KeepCarry(t) \/ StatusFails(t)
  <2> DEFINE z == [s EXCEPT !.cseg = b.seg, !.carry = b.carry]
  <2>1. b.pc = "keep" /\ Kept(t) BY <1>5 DEF KeepCarry, StatusFails
  <2>2. /\ i \in 1 .. Len(sessions) /\ ObjectOK(s) /\ b.seg \in Nat
        /\ b.carry \in Seq(Cell) /\ Len(b.carry) < 2
    BY <1>1, <2>1 DEF InCollection
  <2>3. sessions' = [sessions EXCEPT ![i] = z] BY <1>0, <2>1, <2>2 DEF Kept
  <2>4. ObjectOK(z) BY <2>2, ObjectUpdates
  <2>5. z.id = s.id /\ z.clean = s.clean BY <2>2 DEF ObjectOK, SessionType
  <2> HIDE DEF z
  <2>6. Touched(i) BY <2>2, <2>3, <2>4, <2>5 DEF Touched
  <2> QED BY <2>1, <2>6 DEF InCollection
<1>6. ASSUME NEW misread \in BOOLEAN, Feed(t, misread)
      PROVE  Touched(i) /\ b.pc = "feed"
  <2> DEFINE h == [seg |-> b.seg, carry |-> b.carry]
             parsed == ParseAccessSegment(Cut(h, b.chunk).whole, misread)
             fed == IF b.chunk.data = <<>> THEN s
                    ELSE AddAccessParseStats(AddAccessEvents(s, parsed.events),
                                             parsed.malformed)
             z == AddAccessLoss(fed, b.unread)
  <2>1. b.pc = "feed" /\ sessions' = [sessions EXCEPT ![i] = z] BY <1>6 DEF Feed
  <2>2. /\ i \in 1 .. Len(sessions) /\ ObjectOK(s) /\ b.carry \in Seq(Cell)
        /\ b.chunk \in ChunkType /\ b.unread \in Nat
    BY <1>1, <2>1 DEF InCollection
  <2>3. ObjectOK(z) /\ z.id = s.id /\ z.clean = s.clean
    <3> DEFINE chunk == b.chunk
               unread == b.unread
    <3>1. h.carry \in Seq(Cell) /\ ObjectOK(s) /\ chunk \in ChunkType /\ unread \in Nat
      BY <2>2
    <3> HIDE DEF h, s, chunk, unread
    <3>2. LET cells == ParseAccessSegment(Cut(h, chunk).whole, misread)
              y == IF chunk.data = <<>> THEN s
                   ELSE AddAccessParseStats(AddAccessEvents(s, cells.events),
                                            cells.malformed)
              x == AddAccessLoss(y, unread)
          IN  /\ ObjectOK(x) /\ Later(s, x) /\ x.id = s.id /\ x.clean = s.clean
              /\ chunk.data # <<>> => Cut(h, chunk).carry \in Seq(Cell)
                                      /\ Len(Cut(h, chunk).carry) < 2
      BY <3>1, FedObject
    <3> QED BY <3>2 DEF chunk, unread
  <2> HIDE DEF z
  <2> QED BY <2>1, <2>2, <2>3 DEF Touched
<1>7. ASSUME Drain(t) \/ Page(t) \/ Snapshot(t) \/ Save(t)
             \/ \E tool \in Collector, cursor, collect \in BOOLEAN :
                  Begin(t, tool, cursor, collect)
      PROVE  sessions' = sessions
  BY <1>7 DEF Drain, Page, Snapshot, Save, Begin, serverVars
<1>8. CASE ReadCarry(t)
  <2>1. b.pc = "carry" BY <1>8 DEF ReadCarry
  <2> QED BY <1>3, <1>8, <2>1
<1>9. "drain" \in InCollection /\ "feed" \in InCollection BY DEF InCollection
<1>10. ASSUME NEW executed \in BOOLEAN, DrainFails(t, executed)
       PROVE  Touched(i) /\ b.pc \in InCollection
  BY <1>4, <1>9, <1>10
<1>11. ASSUME NEW misread \in BOOLEAN, Feed(t, misread)
       PROVE  Touched(i) /\ b.pc \in InCollection
  BY <1>6, <1>9, <1>11
<1> QED BY <1>5, <1>7, <1>8, <1>10, <1>11 DEF Collect

LEMMA CollectingCleans ==
  ASSUME TypeInv, NEW t \in Thread, Collect(t)
  PROVE  Cleaner(sessions, sessions')
<1>1. ObjectsInv BY DEF TypeInv
<1>2. sessions' = sessions \/ Touched(call[t].obj) BY CollectingTouches
<1> QED BY <1>1, <1>2, NothingCleaner, OneCleaner DEF Touched

LEMMA LifecycleCleans ==
  ASSUME TypeInv, NEW t \in Thread, Lifecycle(t), ~CommitStart(t)
  PROVE  Cleaner(sessions, sessions')
<1>0. ObjectsInv /\ CallsInv /\ CallOK(call[t], Len(sessions), ids)
      /\ sessions \in Seq(SessionType) /\ Len(sessions) \in Nat
      /\ \A j \in 1 .. Len(sessions) : ObjectOK(sessions[j])
  BY DEF TypeInv, CallsInv, ObjectsInv
<1>1. ASSUME NEW i \in 1 .. Len(sessions), sessions' = [sessions EXCEPT ![i] = MarkStopped(@)]
      PROVE  Cleaner(sessions, sessions')
  <2> DEFINE z == MarkStopped(sessions[i])
  <2>1. sessions' = [sessions EXCEPT ![i] = z] BY <1>1
  <2>2. z.id = sessions[i].id /\ z.clean = sessions[i].clean
    BY <1>0 DEF ObjectOK, SessionType, MarkStopped
  <2> HIDE DEF z
  <2> QED BY <1>0, <2>1, <2>2, OneCleaner
<1>2. CASE CommitStop(t)
  <2>1. call[t].obj \in 1 .. Len(sessions) BY <1>0, <1>2 DEF CommitStop, CallOK, About
  <2>2. sessions' = [sessions EXCEPT ![call[t].obj] = MarkStopped(@)]
    BY <1>2 DEF CommitStop
  <2> QED BY <1>1, <2>1, <2>2
<1>3. CASE CommitLoad(t)
  <2>1. current # 0 => current \in 1 .. Len(sessions) BY <1>0 DEF ObjectsInv
  <2> QED BY <1>0, <1>1, <1>3, <2>1, NothingCleaner DEF CommitLoad
<1>4. CASE Install(t)
  <2> DEFINE z == RestoreSession(call[t].manifest)
  <2>1. call[t] \in Recovering BY <1>0, <1>4, CallKinds DEF CallOK, Install
  <2>2. call[t].manifest \in ManifestType BY <2>1 DEF Recovering
  <2>3. ObjectOK(z) /\ ~z.clean BY <2>2, RestoredObject
  <2>4. sessions' = Append(sessions, z) BY <1>4 DEF Install
  <2> HIDE DEF z
  <2>5. z \in SessionType BY <2>3 DEF ObjectOK
  <2>6. /\ Len(sessions') = Len(sessions) + 1 /\ sessions'[Len(sessions) + 1] = z
        /\ \A j \in 1 .. Len(sessions) : sessions'[j] = sessions[j]
    BY <1>0, <2>4, <2>5
  <2>7. \A j \in 1 .. Len(sessions) + 1 : j \in 1 .. Len(sessions) \/ j = Len(sessions) + 1
    BY <1>0
  <2>8. Len(sessions) <= Len(sessions) + 1 BY <1>0
  <2> QED BY <2>3, <2>6, <2>7, <2>8 DEF Cleaner
<1>5. ASSUME ~CommitStop(t), ~CommitLoad(t), ~Install(t) PROVE sessions' = sessions
  BY <1>5 DEF Lifecycle, BeginStart, BeginLoad, EnterScheduler, StartNative, LoadNative,
              StopNative, NativeFails, Recover, CheckLive, serverVars
<1> QED BY <1>0, <1>2, <1>3, <1>4, <1>5, NothingCleaner

\* Starts under way while the plugin goes on with the same session.
LEMMA StartsGoOn ==
  ASSUME TypeInv, TypeInv', StartsInv, Cleaner(sessions, sessions'), ids' = ids,
         SameSession(native, native', owner, owner'),
         \/ Undrained
         \/ \E obj \in 1 .. Len(sessions) : drains' = drains \cup {<<obj, native.id>>}
  PROVE  /\ \A u \in Thread : StartOK(call[u], sessions', native', owner', gone', drains')
         /\ \A i \in 1 .. Len(sessions') : sessions'[i].clean => sessions'[i].id \in 1 .. ids'
         /\ \A d \in drains' : d[1] \in 1 .. Len(sessions')
<1>0. /\ owner \in Seq(Nat) /\ Shape(native, Len(owner)) /\ Len(sessions) \in Nat
      /\ owner' \in Seq(Nat) /\ Shape(native', Len(owner')) /\ Len(sessions') \in Nat
      /\ CallsInv
  BY DEF TypeInv, NativeInv, ObjectsInv
<1>1. ASSUME NEW u \in Thread
      PROVE  StartOK(call[u], sessions', native', owner', gone', drains')
  <2>1. call[u] \in CallType /\ CallOK(call[u], Len(sessions), ids) BY <1>0 DEF CallsInv
  <2>2. Pending(call[u]) => call[u].id # 0
    <3>1. 0 \notin 1 .. ids OBVIOUS
    <3> QED BY <2>1, <3>1 DEF Pending, CallOK
  <2>3. StartOK(call[u], sessions, native, owner, gone, drains) BY DEF StartsInv
  <2>4. \A i \in 1 .. Len(sessions') : sessions'[i].clean =>
          sessions'[i].id = 0
          \/ \E j \in 1 .. Len(sessions) : sessions[j].clean /\ sessions[j].id = sessions'[i].id
    BY DEF Cleaner
  <2>5. /\ native'.id = native.id
        /\ Len(native.segments) > 0 => Len(native'.segments) > 0
        /\ \A r \in 1 .. Len(owner') :
             (r \in 1 .. Len(owner) /\ owner'[r] = owner[r]) \/ owner'[r] = native.id
    BY DEF SameSession
  <2>6. ASSUME Pending(call[u]), call[u].pc = "commit", \A d \in drains' : d[2] # call[u].id
        PROVE  /\ \A d \in drains : d[2] # call[u].id
               /\ Evolves(call[u].id, native, owner, gone, native', owner', gone')
    <3>1. native.id = call[u].id BY <2>3, <2>6 DEF StartOK
    <3>2. ASSUME NEW obj \in 1 .. Len(sessions), drains' = drains \cup {<<obj, native.id>>}
          PROVE  FALSE
      <4>1. <<obj, native.id>> \in drains' /\ <<obj, native.id>>[2] = native.id BY <3>2
      <4> QED BY <2>6, <3>1, <4>1
    <3>3. Undrained BY <3>2
    <3> QED BY <2>6, <3>3 DEF Undrained, Evolved
  <2>7. Apart(call[u], sessions, sessions', native, owner, native', owner', 0)
    BY <2>2, <2>4, <2>5 DEF Apart
  <2>8. Kindly(call[u], drains, drains', native, owner, gone, native', owner', gone')
    BY <2>5, <2>6 DEF Kindly
  <2> QED BY <1>0, <2>1, <2>3, <2>7, <2>8, StartStays
<1>2. \A d \in drains' : d[1] \in 1 .. Len(sessions')
  <2>1. \A d \in drains' : d[1] \in 1 .. Len(sessions)
    <3>1. \A d \in drains : d[1] \in 1 .. Len(sessions) BY DEF StartsInv
    <3> QED BY <3>1 DEF Undrained
  <2>2. \A x : x \in 1 .. Len(sessions) => x \in 1 .. Len(sessions') BY <1>0 DEF Cleaner
  <2> QED BY <2>1, <2>2
<1> QED BY <1>1, <1>2 DEF StartsInv, Cleaner

\* The others' starts while t holds schedulerMu: none of them has committed to a session.
LEMMA StartsWait ==
  ASSUME TypeInv, TypeInv', StartsInv, NEW t \in Thread, call[t].pc \in {"native", "commit"},
         NEW x, x = 0 \/ (Pending(call[t]) /\ x = call[t].id),
         owner' = owner, native'.id \in {native.id, 0, x},
         \A i \in 1 .. Len(sessions') : sessions'[i].clean =>
           sessions'[i].id = x
           \/ \E j \in 1 .. Len(sessions) : sessions[j].clean /\ sessions[j].id = sessions'[i].id
  PROVE  \A u \in Thread : u # t => StartOK(call[u], sessions', native', owner', gone', drains')
<1>0. /\ owner \in Seq(Nat) /\ Shape(native, Len(owner))
      /\ owner' \in Seq(Nat) /\ Shape(native', Len(owner')) /\ CallsInv
  BY DEF TypeInv, NativeInv
<1> TAKE u \in Thread
<1> HAVE u # t
<1>1. call[u] \in CallType /\ CallOK(call[u], Len(sessions), ids) BY <1>0 DEF CallsInv
<1>2. Pending(call[u]) => call[u].id # 0 /\ call[u].id # x
  <2>1. 0 \notin 1 .. ids OBVIOUS
  <2> QED BY <1>1, <2>1 DEF Pending, CallOK, StartsInv
<1>3. StartOK(call[u], sessions, native, owner, gone, drains) BY DEF StartsInv
<1>4. ~(Pending(call[u]) /\ call[u].pc = "commit")
  <2>1. Holding(call[u], u, sched) /\ Holding(call[t], t, sched) BY DEF StartsInv
  <2> QED BY <2>1 DEF Holding
<1>5. \A r \in 1 .. Len(owner') :
        (r \in 1 .. Len(owner) /\ owner'[r] = owner[r]) \/ owner'[r] = native.id
  OBVIOUS
<1>6. native'.id = native.id \/ native'.id = 0 \/ native'.id = x OBVIOUS
<1>7. Apart(call[u], sessions, sessions', native, owner, native', owner', x)
  BY <1>2, <1>5, <1>6 DEF Apart
<1>8. Kindly(call[u], drains, drains', native, owner, gone, native', owner', gone')
  BY <1>4 DEF Kindly
<1> QED BY <1>0, <1>1, <1>3, <1>7, <1>8, StartStays

LEMMA EmulatorKeepsStarts ==
  ASSUME TypeInv, TypeInv', OwnersInv, StartsInv, Emulator
  PROVE  StartsInv'
<1>0. NativeInv /\ ObjectsInv BY DEF TypeInv
<1>1. call' = call /\ sessions' = sessions /\ sched' = sched /\ ids' = ids
  BY DEF Emulator, WriteRecord, Rotate, CloseWindow, FrameLimit, ProcessorGone, serverVars,
         boundVars
<1>2. Cleaner(sessions, sessions') BY <1>0, <1>1, NothingCleaner
<1>3. Undrained /\ SameSession(native, native', owner, owner')
  BY <1>0, EmulatorGivesNothing
<1>4. /\ \A u \in Thread : StartOK(call[u], sessions', native', owner', gone', drains')
      /\ \A i \in 1 .. Len(sessions') : sessions'[i].clean => sessions'[i].id \in 1 .. ids'
      /\ \A d \in drains' : d[1] \in 1 .. Len(sessions')
  BY <1>1, <1>2, <1>3, StartsGoOn
<1> QED BY <1>1, <1>4 DEF StartsInv

LEMMA CollectingKeepsStarts ==
  ASSUME TypeInv, TypeInv', OwnersInv, StartsInv, NEW t \in Thread, Collect(t)
  PROVE  StartsInv'
<1>0. NativeInv /\ ObjectsInv /\ CallsInv /\ Len(sessions) \in Nat /\ ids \in Nat
  BY DEF TypeInv, ObjectsInv, NativeInv
<1>1. Cleaner(sessions, sessions') BY CollectingCleans
<1>2. sched' = sched /\ ids' = ids BY <1>0, CollectingIsCalm
<1>3. PICK c : call' = [call EXCEPT ![t] = c] /\ Calm(c) BY <1>0, CollectingIsCalm
<1>4. ~Pending(c) /\ Holding(c, t, sched')
      /\ StartOK(c, sessions', native', owner', gone', drains')
  BY <1>3 DEF Calm, Holding, StartOK
<1>5. ASSUME UNCHANGED <<native, owner, gone, drains>> PROVE StartsInv'
  <2>1. Len(sessions') \in Nat /\ ids' \in Nat /\ ids <= ids' BY <1>0, <1>2 DEF TypeInv, ObjectsInv
  <2>2. /\ \A u \in Thread : StartOK(call[u], sessions', native', owner', gone', drains')
        /\ \A i \in 1 .. Len(sessions') : sessions'[i].clean => sessions'[i].id \in 1 .. ids'
        /\ \A d \in drains' : d[1] \in 1 .. Len(sessions')
    BY <1>1, <1>5, <2>1, StillStarts
  <2> QED BY <1>2, <1>3, <1>4, <2>2, StartsStep
<1>6. ASSUME NEW sealing, native' = AfterDrain(Evict(Sealed(native, sealing))),
             gone' = gone \cup Unreached(Sealed(native, sealing)),
             drains' = Tapped(call[t].obj, Evict(Sealed(native, sealing))),
             owner' = owner, call[t].obj \in 1 .. Len(sessions)
      PROVE  StartsInv'
  <2> DEFINE evicted == Evict(Sealed(native, sealing))
  <2>1. /\ SameSession(native, native', owner, owner')
        /\ Drained(evicted).data = <<>> => Undrained
        /\ Drained(evicted).data # <<>> =>
             drains' = drains \cup {<<call[t].obj, native.id>>}
    BY <1>0, <1>2, <1>6, DrainGives
  <2>2. /\ \A u \in Thread : StartOK(call[u], sessions', native', owner', gone', drains')
        /\ \A i \in 1 .. Len(sessions') : sessions'[i].clean => sessions'[i].id \in 1 .. ids'
        /\ \A d \in drains' : d[1] \in 1 .. Len(sessions')
    BY <1>1, <1>2, <1>6, <2>1, StartsGoOn
  <2> QED BY <1>2, <1>3, <1>4, <2>2, StartsStep
<1>7. CASE Drain(t)
  <2>1. call[t].obj \in 1 .. Len(sessions) BY <1>0, <1>7 DEF Drain, CallsInv, CallOK, About
  <2> QED BY <1>6, <1>7, <2>1 DEF Drain
<1>8. ASSUME NEW executed \in BOOLEAN, DrainFails(t, executed) PROVE StartsInv'
  <2>1. call[t].obj \in 1 .. Len(sessions)
    BY <1>0, <1>8 DEF DrainFails, CallsInv, CallOK, About
  <2>2. owner' = owner BY <1>8 DEF DrainFails
  <2>3. CASE executed BY <1>6, <1>8, <2>1, <2>2, <2>3 DEF DrainFails
  <2>4. CASE ~executed BY <1>5, <1>8, <2>2, <2>4 DEF DrainFails
  <2> QED BY <2>3, <2>4
<1>9. ASSUME ~Drain(t), ~\E executed \in BOOLEAN : DrainFails(t, executed)
      PROVE  UNCHANGED <<native, owner, gone, drains>>
  BY <1>9 DEF Collect, Begin, ReadCarry, KeepCarry, Feed, StatusFails, Page, Snapshot, Save
<1> QED BY <1>5, <1>7, <1>8, <1>9

LEMMA BeginningKeepsStarts ==
  ASSUME TypeInv, TypeInv', OwnersInv, StartsInv, NEW t \in Thread,
         (\E mode \in Modes : BeginStart(t, mode)) \/ BeginLoad(t) \/ EnterScheduler(t)
  PROVE  StartsInv'
<1>0. /\ NativeInv /\ ObjectsInv /\ CallsInv /\ Len(sessions) \in Nat /\ ids \in Nat
      /\ native.id \in Nat /\ native.id <= ids
      /\ call[t] \in CallType /\ \A u \in Thread : CallOK(call[u], Len(sessions), ids)
  BY NativeFacts DEF TypeInv, ObjectsInv, NativeInv, CallsInv
<1>1. /\ UNCHANGED <<native, owner, gone, drains, sessions>>
      /\ ids' = ids \/ ids' = ids + 1
  BY DEF BeginStart, BeginLoad, EnterScheduler, serverVars, boundVars
<1>2. Cleaner(sessions, sessions') BY <1>0, <1>1, NothingCleaner
<1>3. /\ \A u \in Thread : StartOK(call[u], sessions', native', owner', gone', drains')
      /\ \A i \in 1 .. Len(sessions') : sessions'[i].clean => sessions'[i].id \in 1 .. ids'
      /\ \A d \in drains' : d[1] \in 1 .. Len(sessions')
  <2>1. Len(sessions') \in Nat /\ ids' \in Nat /\ ids <= ids' BY <1>0, <1>1
  <2> QED BY <1>1, <1>2, <2>1, StillStarts
<1>4. ASSUME NEW mode \in Modes, BeginStart(t, mode) PROVE StartsInv'
  <2> DEFINE c == [pc |-> "sched", tool |-> "start", id |-> ids + 1, mode |-> mode]
  <2>1. call' = [call EXCEPT ![t] = c] /\ sched' = sched
    BY <1>4 DEF BeginStart, serverVars
  <2>2. c.pc = "sched" /\ c.tool = "start" /\ c.id = ids + 1 OBVIOUS
  <2> HIDE DEF c
  <2>3. ids + 1 \notin 1 .. ids BY <1>0
  <2>4. native.id # c.id BY <1>0, <2>2
  <2>5. \A r \in 1 .. Len(owner) : owner[r] # c.id BY <2>2, <2>3 DEF OwnersInv, OwnersOK
  <2>6. \A i \in 1 .. Len(sessions) : sessions[i].clean => sessions[i].id # c.id
    BY <2>2, <2>3 DEF StartsInv
  <2>7. StartOK(c, sessions', native', owner', gone', drains')
    BY <1>1, <2>2, <2>4, <2>5, <2>6 DEF StartOK
  <2>8. Holding(c, t, sched') BY <2>2 DEF Holding
  <2>9. \A u \in Thread : Pending(call[u]) => c.id # call[u].id
    BY <1>0, <2>2, <2>3 DEF Pending, CallOK
  <2> QED BY <1>3, <2>1, <2>7, <2>8, <2>9, StartsStep
<1>5. CASE BeginLoad(t)
  <2> DEFINE c == [pc |-> "sched", tool |-> "load"]
  <2>1. call' = [call EXCEPT ![t] = c] /\ sched' = sched
    BY <1>5 DEF BeginLoad, serverVars
  <2>2. c.pc = "sched" /\ c.tool = "load" OBVIOUS
  <2> HIDE DEF c
  <2>3. ~Pending(c) /\ Holding(c, t, sched')
        /\ StartOK(c, sessions', native', owner', gone', drains')
    BY <2>2 DEF Pending, Holding, StartOK
  <2> QED BY <1>3, <2>1, <2>3, StartsStep
<1>6. CASE EnterScheduler(t)
  <2> DEFINE b == call[t]
             c == [b EXCEPT !.pc = "native"]
  <2>1. /\ call' = [call EXCEPT ![t] = c] /\ sched = None /\ sched' = t /\ b.pc = "sched"
    BY <1>0, <1>6 DEF EnterScheduler, Go, CallsInv
  <2>2. c.pc = "native" /\ (Pending(c) => Pending(b) /\ c.id = b.id)
    <3>1. \/ b \in Starting /\ b.tool = "start"
          \/ b \in Loading /\ b.tool = "load"
          \/ b \in Plain /\ b.tool \in Collector
      BY <1>0, <2>1, CallKinds
    <3>2. CASE b \in Starting /\ b.tool = "start"
      <4>1. c.pc = "native" /\ c.id = b.id BY <3>2 DEF Starting
      <4> QED BY <2>1, <3>2, <4>1 DEF Pending
    <3>3. CASE b \in Loading /\ b.tool = "load"
      <4>1. c.pc = "native" /\ c.tool = "load" BY <3>3 DEF Loading
      <4> QED BY <4>1 DEF Pending
    <3>4. CASE b \in Plain /\ b.tool \in Collector
      <4>1. c.pc = "native" /\ c.tool \in Collector BY <3>4 DEF Plain
      <4> QED BY <4>1 DEF Pending, Collector
    <3> QED BY <3>1, <3>2, <3>3, <3>4
  <2> HIDE DEF c
  <2>3. StartOK(b, sessions', native', owner', gone', drains') BY <1>3
  <2>4. StartOK(c, sessions', native', owner', gone', drains') /\ Holding(c, t, sched')
    BY <2>1, <2>2, <2>3 DEF StartOK, Holding
  <2>5. \A u \in Thread : u # t =>
          /\ StartOK(call[u], sessions', native', owner', gone', drains')
          /\ Pending(c) /\ Pending(call[u]) => c.id # call[u].id
    BY <1>3, <2>2 DEF StartsInv
  <2>6. call' = [call EXCEPT ![t] = c] /\ sched = None /\ sched' = t BY <2>1
  <2>7. \/ sched' = sched
        \/ sched = None /\ sched' = t
        \/ call[t].pc \in {"native", "commit"} /\ sched' = None
    BY <2>6
  <2>8. /\ \A i \in 1 .. Len(sessions') : sessions'[i].clean => sessions'[i].id \in 1 .. ids'
        /\ \A d \in drains' : d[1] \in 1 .. Len(sessions')
    BY <1>3
  <2>9. call' = [call EXCEPT ![t] = c] BY <2>6
  <2> HIDE DEF b
  <2>10. /\ StartOK(c, sessions', native', owner', gone', drains')
         /\ Holding(c, t, sched')
    BY <2>4
  <2>11. StartsMove(t, c) BY <2>5, <2>7, <2>8, <2>9, <2>10 DEF StartsMove
  <2> QED BY <2>11, StartsMoved
<1> QED BY <1>4, <1>5, <1>6

\* The session has just started and no record is its own: the object to come has
\* missed nothing.
LEMMA NewSessionStands ==
  ASSUME NativeInv, NEW id \in Nat, NEW mode \in Mode,
         \A r \in 1 .. Len(owner) : owner[r] # id
  PROVE  Standing(NewSession(id, mode), 0, <<>>, Started(native, id, mode), owner, gone)
<1> DEFINE z == Started(native, id, mode)
           s == NewSession(id, mode)
<1>1. owner \in Seq(Nat) /\ Len(owner) \in Nat BY NativeFacts
<1>2. Frontier(z, Len(owner)) = Len(owner) + 1 /\ z.offset = 0
  BY <1>1, StartingHasTheShape DEF Mode
<1>3. s.id = id /\ s.last = 0 BY DEF NewSession
<1> HIDE DEF z, s
<1>4. DOMAIN owner = 1 .. Len(owner) BY <1>1
<1>5. Mine(s, owner) = {} BY <1>3, <1>4 DEF Mine
<1>6. 0 < Frontier(z, Len(owner)) BY <1>1, <1>2
<1>7. Covered(s, Frontier(z, Len(owner)), owner, gone) BY <1>3, <1>5, <1>6 DEF Covered
<1>8. Joined(z, 0, <<>>) BY <1>2 DEF Joined
<1>9. Standing(s, 0, <<>>, z, owner, gone) BY <1>7, <1>8 DEF Standing
<1> QED BY <1>9 DEF z, s

\* What a call of trace_session_start is about to start.
LEMMA StartingCall ==
  ASSUME TypeInv, StartsInv, NEW t \in Thread, call[t].pc = "native", call[t].tool = "start"
  PROVE  /\ Pending(call[t]) /\ call[t] \in Starting
         /\ call[t].id \in 1 .. ids /\ call[t].id \in Nat /\ call[t].mode \in Mode
         /\ \A r \in 1 .. Len(owner) : owner[r] # call[t].id
         /\ native.id # call[t].id
         /\ \A i \in 1 .. Len(sessions) : sessions[i].clean => sessions[i].id # call[t].id
<1>1. Pending(call[t]) BY DEF Pending
<1>2. /\ call[t] \in CallType /\ CallOK(call[t], Len(sessions), ids)
      /\ StartOK(call[t], sessions, native, owner, gone, drains)
  BY DEF TypeInv, CallsInv, StartsInv
<1>3. call[t] \in Starting BY <1>2, CallKinds DEF Collector
<1>4. call[t].id \in 1 .. ids BY <1>2 DEF CallOK
<1> QED BY <1>1, <1>2, <1>3, <1>4 DEF StartOK, Starting

\* Under schedulerMu the call goes on with what it asked for.
LEMMA GoingToCommit ==
  ASSUME CallsInv, NEW t \in Thread, call[t].pc = "native", Go(t, "commit")
  PROVE  \E c : /\ call' = [call EXCEPT ![t] = c]
                /\ c.pc = "commit" /\ c.tool = call[t].tool
                /\ call[t].tool = "start" => c.id = call[t].id /\ c.mode = call[t].mode
<1> DEFINE b == call[t]
           c == [b EXCEPT !.pc = "commit"]
<1>1. b \in CallType BY DEF CallsInv
<1>2. call' = [call EXCEPT ![t] = c] BY DEF Go, CallsInv
<1>3. \/ b \in Starting /\ b.tool = "start"
      \/ b \in Loading /\ b.tool = "load"
      \/ b \in Plain /\ b.tool \in Collector
  BY <1>1, CallKinds
<1>4. CASE b \in Starting /\ b.tool = "start"
  <2>1. c.pc = "commit" /\ c.tool = b.tool /\ c.id = b.id /\ c.mode = b.mode
    BY <1>4 DEF Starting
  <2> QED BY <1>2, <2>1
<1>5. CASE b \in Loading /\ b.tool = "load"
  <2>1. c.pc = "commit" /\ c.tool = b.tool /\ b.tool # "start" BY <1>5 DEF Loading
  <2> QED BY <1>2, <2>1
<1>6. CASE b \in Plain /\ b.tool \in Collector
  <2>1. c.pc = "commit" /\ c.tool = b.tool /\ b.tool # "start" BY <1>6 DEF Plain, Collector
  <2> QED BY <1>2, <2>1
<1> QED BY <1>3, <1>4, <1>5, <1>6

\* The native half of a start, answered or not.
LEMMA StartingKeepsStarts ==
  ASSUME TypeInv, TypeInv', OwnersInv, StartsInv, NEW t \in Thread,
         StartNative(t) \/ (NativeFails(t, "lost") /\ call[t].tool = "start")
  PROVE  StartsInv'
<1>0. /\ NativeInv /\ ObjectsInv /\ CallsInv /\ Len(sessions) \in Nat /\ ids \in Nat
      /\ owner \in Seq(Nat) /\ Len(owner) \in Nat
  BY NativeFacts DEF TypeInv, ObjectsInv, NativeInv
<1>1. /\ native' = Started(native, call[t].id, call[t].mode)
      /\ UNCHANGED <<owner, gone, drains, sessions, ids>>
      /\ call[t].pc = "native" /\ call[t].tool = "start"
  BY DEF StartNative, NativeFails, serverVars, boundVars
<1>2. /\ Pending(call[t]) /\ call[t] \in Starting
      /\ call[t].id \in 1 .. ids /\ call[t].id \in Nat /\ call[t].mode \in Mode
      /\ \A r \in 1 .. Len(owner) : owner[r] # call[t].id
      /\ native.id # call[t].id
      /\ \A i \in 1 .. Len(sessions) : sessions[i].clean => sessions[i].id # call[t].id
  BY <1>1, StartingCall
<1>3. native'.id = call[t].id /\ Len(native'.segments) > 0
  BY <1>0, <1>1, <1>2, StartingHasTheShape DEF Mode
<1>4. \A u \in Thread : u # t => StartOK(call[u], sessions', native', owner', gone', drains')
  <2>1. \A i \in 1 .. Len(sessions') : sessions'[i].clean =>
           sessions'[i].id = call[t].id
           \/ \E j \in 1 .. Len(sessions) : sessions[j].clean /\ sessions[j].id = sessions'[i].id
    BY <1>1
  <2> QED BY <1>1, <1>2, <1>3, <2>1, StartsWait
<1>5. /\ \A i \in 1 .. Len(sessions') : sessions'[i].clean => sessions'[i].id \in 1 .. ids'
      /\ \A d \in drains' : d[1] \in 1 .. Len(sessions')
  BY <1>1 DEF StartsInv
<1>6. CASE StartNative(t)
  <2>1. Go(t, "commit") /\ sched' = sched BY <1>6 DEF StartNative, serverVars
  <2>2. PICK c : /\ call' = [call EXCEPT ![t] = c]
                 /\ c.pc = "commit" /\ c.tool = call[t].tool
                 /\ call[t].tool = "start" => c.id = call[t].id /\ c.mode = call[t].mode
    BY <1>0, <1>1, <2>1, GoingToCommit
  <2>3. Standing(NewSession(c.id, c.mode), 0, <<>>, native', owner', gone')
    <3>1. Standing(NewSession(call[t].id, call[t].mode), 0, <<>>,
                   Started(native, call[t].id, call[t].mode), owner, gone)
      BY <1>0, <1>2, NewSessionStands
    <3> QED BY <1>1, <2>2, <3>1
  <2>4. StartOK(c, sessions', native', owner', gone', drains')
    BY <1>1, <1>3, <2>2, <2>3 DEF StartOK
  <2>5. Holding(c, t, sched') BY <1>1, <2>1 DEF StartsInv, Holding
  <2>6. \A u \in Thread : u # t /\ Pending(call[u]) => c.id # call[u].id
    BY <1>1, <1>2, <2>2 DEF StartsInv
  <2>7. StartsMove(t, c) BY <1>4, <1>5, <2>1, <2>2, <2>4, <2>5, <2>6 DEF StartsMove
  <2> QED BY <2>7, StartsMoved
<1>7. CASE NativeFails(t, "lost")
  <2> DEFINE c == [pc |-> "idle"]
  <2>1. call' = [call EXCEPT ![t] = c] /\ sched' = None /\ c.pc = "idle"
    BY <1>7 DEF NativeFails, Return
  <2> HIDE DEF c
  <2>2. ~Pending(c) /\ StartOK(c, sessions', native', owner', gone', drains')
        /\ Holding(c, t, sched')
    BY <2>1 DEF Pending, StartOK, Holding
  <2>3. StartsMove(t, c) BY <1>1, <1>4, <1>5, <2>1, <2>2 DEF StartsMove
  <2> QED BY <2>3, StartsMoved
<1> QED BY <1>6, <1>7

\* Nor does a stop, a load, or a start or load that fails disturb another start.
LEMMA EndingKeepsStarts ==
  ASSUME TypeInv, TypeInv', OwnersInv, StartsInv, NEW t \in Thread,
         \/ LoadNative(t)
         \/ \E delete \in BOOLEAN : StopNative(t, delete)
         \/ \E outcome \in {"unsent", "refused", "lost"} :
              NativeFails(t, outcome) /\ ~(outcome = "lost" /\ call[t].tool = "start")
  PROVE  StartsInv'
<1>0. /\ NativeInv /\ ObjectsInv /\ CallsInv /\ Len(owner) \in Nat
      /\ Shape(native, Len(owner))
  BY NativeFacts DEF TypeInv
<1>1. UNCHANGED <<owner, drains, sessions, ids>> /\ call[t].pc = "native"
  BY DEF LoadNative, StopNative, NativeFails, serverVars, boundVars
<1>2. native'.id \in {native.id, 0}
  <2>1. Retired(native).id = native.id /\ ShutDown(native).id = 0
    BY <1>0, RetiringLeavesABlank
  <2>2. ASSUME NEW delete \in BOOLEAN, StopNative(t, delete) PROVE native'.id = native.id
    <3> DEFINE y == Finish(native)
               z == Evict(y)
    <3>1. Shape(y, Len(owner)) /\ y.id = native.id /\ ~y.active
      BY <1>0, FinishingKeepsTheShape DEF Advances
    <3>2. Shape(z, Len(owner)) /\ z.id = y.id /\ ~z.active
      BY <1>0, <3>1, EvictionKeepsTheShape DEF Advances
    <3>3. native' = IF delete THEN DeleteFiles(z) ELSE z BY <2>2 DEF StopNative
    <3> HIDE DEF y, z
    <3>4. z \in NativeType BY <3>2 DEF Shape
    <3>5. DeleteFiles(z).id = z.id BY <3>2, <3>4, DeletingLeavesABlank
    <3> QED BY <3>1, <3>2, <3>3, <3>5
  <2>3. ASSUME NEW outcome \in {"unsent", "refused", "lost"}, NativeFails(t, outcome),
               ~(outcome = "lost" /\ call[t].tool = "start")
        PROVE  native' = native \/ native' = ShutDown(native) \/ native' = Retired(native)
    BY <2>3 DEF NativeFails
  <2>4. LoadNative(t) => native' = ShutDown(native) BY DEF LoadNative
  <2> QED BY <2>1, <2>2, <2>3, <2>4
<1>3. \A u \in Thread : u # t => StartOK(call[u], sessions', native', owner', gone', drains')
  <2>1. \A i \in 1 .. Len(sessions') : sessions'[i].clean =>
           sessions'[i].id = 0
           \/ \E j \in 1 .. Len(sessions) : sessions[j].clean /\ sessions[j].id = sessions'[i].id
    BY <1>1
  <2> QED BY <1>1, <1>2, <2>1, StartsWait
<1>4. /\ \A i \in 1 .. Len(sessions') : sessions'[i].clean => sessions'[i].id \in 1 .. ids'
      /\ \A d \in drains' : d[1] \in 1 .. Len(sessions')
  BY <1>1 DEF StartsInv
<1>5. ASSUME LoadNative(t) \/ \E delete \in BOOLEAN : StopNative(t, delete)
      PROVE  StartsInv'
  <2>1. Go(t, "commit") /\ sched' = sched /\ call[t].tool # "start"
    BY <1>5 DEF LoadNative, StopNative, serverVars
  <2>2. PICK c : /\ call' = [call EXCEPT ![t] = c]
                 /\ c.pc = "commit" /\ c.tool = call[t].tool
    BY <1>0, <1>1, <2>1, GoingToCommit
  <2>3. ~Pending(c) /\ StartOK(c, sessions', native', owner', gone', drains')
    BY <2>1, <2>2 DEF Pending, StartOK
  <2>4. Holding(c, t, sched') BY <1>1, <2>1 DEF StartsInv, Holding
  <2>5. StartsMove(t, c) BY <1>3, <1>4, <2>1, <2>2, <2>3, <2>4 DEF StartsMove
  <2> QED BY <2>5, StartsMoved
<1>6. ASSUME NEW outcome \in {"unsent", "refused", "lost"}, NativeFails(t, outcome)
      PROVE  StartsInv'
  <2> DEFINE c == [pc |-> "idle"]
  <2>1. call' = [call EXCEPT ![t] = c] /\ sched' = None /\ c.pc = "idle"
    BY <1>6 DEF NativeFails, Return
  <2> HIDE DEF c
  <2>2. ~Pending(c) /\ StartOK(c, sessions', native', owner', gone', drains')
        /\ Holding(c, t, sched')
    BY <2>1 DEF Pending, StartOK, Holding
  <2>3. StartsMove(t, c) BY <1>1, <1>3, <1>4, <2>1, <2>2 DEF StartsMove
  <2> QED BY <2>3, StartsMoved
<1> QED BY <1>5, <1>6

\* A session object comes to the one start that made its native session.
LEMMA CommittingKeepsStarts ==
  ASSUME TypeInv, TypeInv', StartsInv, NEW t \in Thread, CommitStart(t)
  PROVE  StartsInv'
<1>0. /\ NativeInv /\ CallsInv /\ sessions \in Seq(SessionType) /\ Len(sessions) \in Nat
      /\ call[t] \in CallType /\ CallOK(call[t], Len(sessions), ids)
  BY DEF TypeInv, ObjectsInv, CallsInv
<1> DEFINE id == call[t].id
           new == NewSession(id, call[t].mode)
<1>1. /\ call[t].pc = "commit" /\ call[t].tool = "start"
      /\ sessions' = Append(sessions, new) /\ sched' = None
      /\ UNCHANGED <<native, owner, gone, drains, ids>>
  BY DEF CommitStart, boundVars
<1>2. Pending(call[t]) /\ id \in 1 .. ids
  BY <1>0, <1>1 DEF Pending, CallOK
<1>3. new.id = id BY DEF NewSession
<1> HIDE DEF new
<1>4. /\ Len(sessions') = Len(sessions) + 1
      /\ \A i \in 1 .. Len(sessions') :
           IF i \in 1 .. Len(sessions) THEN sessions'[i] = sessions[i] ELSE sessions'[i] = new
  BY <1>0, <1>1
<1>5. \A u \in Thread : u # t => StartOK(call[u], sessions', native', owner', gone', drains')
  <2>1. \A i \in 1 .. Len(sessions') : sessions'[i].clean =>
           sessions'[i].id = id
           \/ \E j \in 1 .. Len(sessions) : sessions[j].clean /\ sessions[j].id = sessions'[i].id
    BY <1>3, <1>4
  <2>2. owner' = owner /\ native'.id \in {native.id, 0, id} BY <1>1
  <2> QED BY <1>1, <1>2, <2>1, <2>2, StartsWait
<1>6. \A i \in 1 .. Len(sessions') : sessions'[i].clean => sessions'[i].id \in 1 .. ids'
  BY <1>1, <1>2, <1>3, <1>4 DEF StartsInv
<1>7. \A d \in drains' : d[1] \in 1 .. Len(sessions')
  <2>1. \A x : x \in 1 .. Len(sessions) => x \in 1 .. Len(sessions') BY <1>0, <1>4
  <2> QED BY <1>1, <2>1 DEF StartsInv
<1> DEFINE c == [pc |-> "persist", tool |-> "start", obj |-> Len(sessions) + 1]
<1>8. call' = [call EXCEPT ![t] = c] /\ c.pc = "persist" BY DEF CommitStart
<1> HIDE DEF c
<1>9. ~Pending(c) /\ StartOK(c, sessions', native', owner', gone', drains')
      /\ Holding(c, t, sched')
  BY <1>8 DEF Pending, StartOK, Holding
<1>10. StartsMove(t, c) BY <1>1, <1>5, <1>6, <1>7, <1>8, <1>9 DEF StartsMove
<1> QED BY <1>10, StartsMoved

LEMMA LeavingKeepsStarts ==
  ASSUME TypeInv, TypeInv', StartsInv, NEW t \in Thread,
         \/ CommitStop(t) \/ CommitLoad(t)
         \/ \E id \in SessionIds : Recover(t, id)
         \/ CheckLive(t) \/ Install(t)
  PROVE  StartsInv'
<1>0. /\ CallsInv /\ Len(sessions') \in Nat /\ ids \in Nat
      /\ call[t] \in CallType
  BY DEF TypeInv, ObjectsInv, NativeInv, CallsInv
<1>1. /\ UNCHANGED <<native, owner, gone, drains, ids>>
      /\ Lifecycle(t) /\ ~CommitStart(t)
  BY DEF CommitStop, CommitLoad, Recover, CheckLive, Install, CommitStart, Lifecycle,
         serverVars, boundVars
<1>2. Cleaner(sessions, sessions') BY <1>1, LifecycleCleans
<1>3. /\ \A u \in Thread : StartOK(call[u], sessions', native', owner', gone', drains')
      /\ \A i \in 1 .. Len(sessions') : sessions'[i].clean => sessions'[i].id \in 1 .. ids'
      /\ \A d \in drains' : d[1] \in 1 .. Len(sessions')
  <2>1. ids <= ids' /\ ids' \in Nat BY <1>0, <1>1
  <2> QED BY <1>0, <1>1, <1>2, <2>1, StillStarts
<1>4. ASSUME NEW c, call' = [call EXCEPT ![t] = c], Calm(c), sched' = sched
      PROVE  StartsInv'
  <2>1. ~Pending(c) /\ StartOK(c, sessions', native', owner', gone', drains')
        /\ Holding(c, t, sched')
    BY <1>4 DEF Calm, StartOK, Holding
  <2>2. StartsMove(t, c) BY <1>3, <1>4, <2>1 DEF StartsMove
  <2> QED BY <2>2, StartsMoved
<1>5. Calm([pc |-> "idle"])
  <2> DEFINE c == [pc |-> "idle"]
  <2>1. c.pc = "idle" OBVIOUS
  <2> HIDE DEF c
  <2>2. Calm(c) BY <2>1 DEF Calm, Pending
  <2> QED BY <2>2 DEF c
<1>6. CASE CommitStop(t) \/ CommitLoad(t)
  <2> DEFINE c == [pc |-> "idle"]
  <2>1. call[t].pc = "commit" /\ sched' = None /\ call' = [call EXCEPT ![t] = c]
    BY <1>6 DEF CommitStop, CommitLoad, Return
  <2>2. Calm(c) BY <1>5
  <2> HIDE DEF c
  <2>3. StartOK(c, sessions', native', owner', gone', drains') /\ Holding(c, t, sched')
        /\ ~Pending(c)
    BY <2>2 DEF Calm, StartOK, Holding
  <2>4. StartsMove(t, c) BY <1>3, <2>1, <2>3 DEF StartsMove
  <2> QED BY <2>4, StartsMoved
<1>7. CASE Install(t)
  <2>1. call' = [call EXCEPT ![t] = [pc |-> "idle"]] /\ sched' = sched
    BY <1>7 DEF Install, Return
  <2> QED BY <1>4, <1>5, <2>1
<1>8. ASSUME NEW id \in SessionIds, Recover(t, id) PROVE StartsInv'
  <2> DEFINE c == [pc |-> "check", manifest |-> manifests[id]]
  <2>1. call' = [call EXCEPT ![t] = c] /\ sched' = sched /\ c.pc = "check"
    BY <1>8 DEF Recover, serverVars
  <2> HIDE DEF c
  <2>2. Calm(c) BY <2>1 DEF Calm, Pending
  <2> QED BY <1>4, <2>1, <2>2
<1>9. CASE CheckLive(t)
  <2> DEFINE c == [call[t] EXCEPT !.pc = "replace"]
  <2>1. sched' = sched /\ call[t].pc = "check"
        /\ \/ call' = [call EXCEPT ![t] = [pc |-> "idle"]]
           \/ call' = [call EXCEPT ![t] = c]
    BY <1>0, <1>9 DEF CheckLive, serverVars, Return, Go, CallsInv
  <2>2. call[t] \in Recovering BY <1>0, <2>1, CallKinds
  <2>3. c.pc = "replace" BY <2>2 DEF Recovering
  <2> HIDE DEF c
  <2>4. Calm(c) BY <2>3 DEF Calm, Pending
  <2>5. CASE call' = [call EXCEPT ![t] = [pc |-> "idle"]] BY <1>4, <1>5, <2>1, <2>5
  <2>6. CASE call' = [call EXCEPT ![t] = c] BY <1>4, <2>1, <2>4, <2>6
  <2> QED BY <2>1, <2>5, <2>6
<1> QED BY <1>6, <1>7, <1>8, <1>9

LEMMA StepKeepsStarts ==
  ASSUME TypeInv, TypeInv', OwnersInv, StartsInv, [Next]_vars
  PROVE  StartsInv'
<1>1. CASE ServerRestart
  <2>1. /\ sessions' = <<>> /\ drains' = {}
        /\ \A t \in Thread : call'[t] = [pc |-> "idle"]
    BY <1>1 DEF ServerRestart
  <2> DEFINE c == [pc |-> "idle"]
  <2>2. c.pc = "idle" OBVIOUS
  <2>3. \A t \in Thread : call'[t] = c BY <2>1
  <2> HIDE DEF c
  <2>4. ~Pending(c) /\ StartOK(c, sessions', native', owner', gone', drains')
        /\ \A t : Holding(c, t, sched')
    BY <2>2 DEF Pending, StartOK, Holding
  <2>5. Len(sessions') = 0 /\ 1 .. 0 = {} BY <2>1
  <2> QED BY <2>1, <2>3, <2>4, <2>5 DEF StartsInv
<1>2. CASE UNCHANGED vars
  <2>1. UNCHANGED <<native, owner, gone, drains, sessions, sched, call, ids>>
    BY <1>2 DEF vars
  <2> QED BY <2>1 DEF StartsInv
<1>3. CASE Quiet
  <2>1. UNCHANGED <<native, owner, gone, drains, sessions, sched, call, ids>>
    BY <1>3 DEF Quiet, vars
  <2> QED BY <2>1 DEF StartsInv
<1>4. CASE Emulator BY <1>4, EmulatorKeepsStarts
<1>5. ASSUME NEW t \in Thread, Collect(t) PROVE StartsInv'
  BY <1>5, CollectingKeepsStarts
<1>6. ASSUME NEW t \in Thread, Lifecycle(t) PROVE StartsInv'
  <2>1. CASE (\E mode \in Modes : BeginStart(t, mode)) \/ BeginLoad(t) \/ EnterScheduler(t)
    BY <2>1, BeginningKeepsStarts
  <2>2. CASE StartNative(t) BY <2>2, StartingKeepsStarts
  <2>3. CASE LoadNative(t) BY <2>3, EndingKeepsStarts
  <2>4. CASE \E delete \in BOOLEAN : StopNative(t, delete) BY <2>4, EndingKeepsStarts
  <2>5. ASSUME NEW outcome \in {"unsent", "refused", "lost"}, NativeFails(t, outcome)
        PROVE  StartsInv'
    <3>1. CASE outcome = "lost" /\ call[t].tool = "start"
      <4>1. NativeFails(t, "lost") BY <2>5, <3>1
      <4> QED BY <3>1, <4>1, StartingKeepsStarts
    <3>2. CASE ~(outcome = "lost" /\ call[t].tool = "start")
      BY <2>5, <3>2, EndingKeepsStarts
    <3> QED BY <3>1, <3>2
  <2>6. CASE CommitStart(t) BY <2>6, CommittingKeepsStarts
  <2>7. CASE \/ CommitStop(t) \/ CommitLoad(t)
             \/ \E id \in SessionIds : Recover(t, id)
             \/ CheckLive(t) \/ Install(t)
    BY <2>7, LeavingKeepsStarts
  <2> QED BY <1>6, <2>1, <2>2, <2>3, <2>4, <2>5, <2>6, <2>7 DEF Lifecycle
<1> QED BY <1>1, <1>2, <1>3, <1>4, <1>5, <1>6 DEF Next

(***************************************************************************)
(* A step that gives none of the clean objects data                        *)
(***************************************************************************)
Spared ==
  /\ OwnersInv' /\ drains' = drains
  /\ \A i \in 1 .. Len(sessions) : sessions[i].clean => Evolved(sessions[i].id)

LEMMA UndrainedSpares ==
  ASSUME Undrained
  PROVE  Spared
BY DEF Undrained, Spared

LEMMA LifecycleSpares ==
  ASSUME TypeInv, OwnersInv, StartsInv, NEW t \in Thread, Lifecycle(t)
  PROVE  Spared
<1>0. NativeInv /\ ids \in Nat BY DEF TypeInv, NativeInv
<1>1. ASSUME StartNative(t) \/ (NativeFails(t, "lost") /\ call[t].tool = "start")
      PROVE  Spared
  <2>1. /\ native' = Started(native, call[t].id, call[t].mode)
        /\ UNCHANGED <<owner, gone, drains, ids>>
        /\ call[t].pc = "native" /\ call[t].tool = "start"
    BY <1>1 DEF StartNative, NativeFails, serverVars, boundVars
  <2>2. /\ call[t].id \in 1 .. ids /\ call[t].mode \in Mode
        /\ \A r \in 1 .. Len(owner) : owner[r] # call[t].id
        /\ \A i \in 1 .. Len(sessions) : sessions[i].clean => sessions[i].id # call[t].id
    BY <2>1, StartingCall
  <2>3. OwnersInv' /\ \A x : x # call[t].id => Evolved(x)
    BY <1>0, <2>1, <2>2, StartingGivesNothing
  <2> QED BY <2>1, <2>2, <2>3 DEF Spared
<1>2. ASSUME \/ LoadNative(t)
             \/ \E delete \in BOOLEAN : StopNative(t, delete)
             \/ \E outcome \in {"unsent", "refused", "lost"} :
                  NativeFails(t, outcome) /\ ~(outcome = "lost" /\ call[t].tool = "start")
      PROVE  Spared
  BY <1>0, <1>2, EndingGivesNothing, UndrainedSpares
<1>3. ASSUME UNCHANGED <<native, owner, gone, drains>>, ids' \in Nat, ids <= ids'
      PROVE  Spared
  BY <1>0, <1>3, NothingNative, UndrainedSpares
<1>4. CASE (\E mode \in Modes : BeginStart(t, mode)) \/ BeginLoad(t) \/ EnterScheduler(t)
  <2>1. UNCHANGED <<native, owner, gone, drains>> /\ (ids' = ids \/ ids' = ids + 1)
    BY <1>4 DEF BeginStart, BeginLoad, EnterScheduler, boundVars
  <2> QED BY <1>0, <1>3, <2>1
<1>5. CASE \/ CommitStart(t) \/ CommitStop(t) \/ CommitLoad(t)
           \/ \E id \in SessionIds : Recover(t, id)
           \/ CheckLive(t) \/ Install(t)
  <2>1. UNCHANGED <<native, owner, gone, drains>> /\ ids' = ids
    BY <1>5 DEF CommitStart, CommitStop, CommitLoad, Recover, CheckLive, Install, boundVars
  <2> QED BY <1>0, <1>3, <2>1
<1>6. ASSUME NEW outcome \in {"unsent", "refused", "lost"}, NativeFails(t, outcome)
      PROVE  Spared
  <2>1. CASE outcome = "lost" /\ call[t].tool = "start"
    <3>1. NativeFails(t, "lost") BY <1>6, <2>1
    <3> QED BY <1>1, <2>1, <3>1
  <2>2. CASE ~(outcome = "lost" /\ call[t].tool = "start") BY <1>2, <1>6, <2>2
  <2> QED BY <2>1, <2>2
<1>7. CASE StartNative(t) BY <1>1, <1>7
<1>8. CASE LoadNative(t) BY <1>2, <1>8
<1>9. CASE \E delete \in BOOLEAN : StopNative(t, delete) BY <1>2, <1>9
<1> QED BY <1>4, <1>5, <1>6, <1>7, <1>8, <1>9 DEF Lifecycle

\* Of a collection's steps only the drain touches the plugin.
LEMMA CollectingSpares ==
  ASSUME TypeInv, OwnersInv, NEW t \in Thread, Collect(t), ~Drain(t),
         ~DrainFails(t, TRUE)
  PROVE  Spared
<1>0. NativeInv /\ CallsInv /\ ids \in Nat /\ ids <= ids BY DEF TypeInv, NativeInv
<1>1. ids' = ids BY <1>0, CollectingIsCalm
<1>2. ASSUME NEW executed \in BOOLEAN, DrainFails(t, executed)
      PROVE  UNCHANGED <<native, owner, gone, drains>>
  <2>1. executed = FALSE BY <1>2
  <2> QED BY <1>2, <2>1 DEF DrainFails
<1>3. UNCHANGED <<native, owner, gone, drains>>
  BY <1>2 DEF Collect, Begin, ReadCarry, KeepCarry, Feed, StatusFails, Page, Snapshot, Save
<1> QED BY <1>0, <1>1, <1>3, NothingNative, UndrainedSpares

LEMMA StepKeepsOwners ==
  ASSUME TypeInv, OwnersInv, StartsInv, [Next]_vars
  PROVE  OwnersInv'
<1>0. NativeInv /\ CallsInv /\ ids \in Nat BY DEF TypeInv, NativeInv
<1>1. CASE ServerRestart
  BY <1>1 DEF ServerRestart, OwnersInv
<1>2. CASE UNCHANGED vars BY <1>2 DEF vars, OwnersInv
<1>3. CASE Quiet BY <1>3 DEF Quiet, vars, OwnersInv
<1>4. CASE Emulator BY <1>0, <1>4, EmulatorGivesNothing DEF Undrained
<1>5. ASSUME NEW t \in Thread, Collect(t) PROVE OwnersInv'
  <2>1. ids' = ids BY <1>0, <1>5, CollectingIsCalm
  <2>2. ASSUME NEW sealing, native' = AfterDrain(Evict(Sealed(native, sealing))),
               gone' = gone \cup Unreached(Sealed(native, sealing)),
               drains' = Tapped(call[t].obj, Evict(Sealed(native, sealing))),
               owner' = owner
        PROVE  OwnersInv'
    <3> DEFINE evicted == Evict(Sealed(native, sealing))
    <3>1. evicted = Evict(Sealed(native, sealing)) OBVIOUS
    <3> QED BY <1>0, <2>1, <2>2, <3>1, DrainGives
  <2>3. CASE Drain(t) BY <2>2, <2>3 DEF Drain
  <2>4. CASE DrainFails(t, TRUE) BY <2>2, <2>4 DEF DrainFails
  <2>5. CASE ~Drain(t) /\ ~DrainFails(t, TRUE)
    BY <1>5, <2>5, CollectingSpares DEF Spared
  <2> QED BY <2>3, <2>4, <2>5
<1>6. ASSUME NEW t \in Thread, Lifecycle(t) PROVE OwnersInv'
  BY <1>6, LifecycleSpares DEF Spared
<1> QED BY <1>1, <1>2, <1>3, <1>4, <1>5, <1>6 DEF Next

(***************************************************************************)
(* Every object has what it should                                         *)
(***************************************************************************)
ObjectsRight ==
  \A i \in 1 .. Len(sessions) :
    Right(i, sessions[i], call, drains, native, owner, gone)

\* Nothing of s changes but that it may stop, or be disturbed.
Untouched(s, y) ==
  SameFed(s, y) /\ (y.clean => s.clean) /\ y.cseg = s.cseg /\ y.carry = s.carry

LEMMA UntouchedIsReflexive ==
  ASSUME NEW s \in SessionType
  PROVE  /\ Untouched(s, s) /\ Untouched(s, MarkStopped(s))
         /\ \A clean : (clean => s.clean) => Untouched(s, [s EXCEPT !.clean = clean])
<1>1. s.unread <= s.unread BY SessionFields
<1> QED BY <1>1 DEF Untouched, SameFed, MarkStopped, SessionType

\* The calls that collect to object i are the same as before.
SameCollections(i) ==
  \A t \in Thread : call'[t] = call[t] \/ (~In(call[t], i) /\ ~In(call'[t], i))

LEMMA OthersStayRight ==
  ASSUME TypeInv, TypeInv', ObjectsRight, NEW i \in 1 .. Len(sessions),
         i \in 1 .. Len(sessions'), Untouched(sessions[i], sessions'[i]), SameCollections(i),
         sessions[i].clean /\ Taps(i, sessions[i].id, drains') =>
           Taps(i, sessions[i].id, drains) /\ Evolved(sessions[i].id)
  PROVE  Right(i, sessions'[i], call', drains', native', owner', gone')
<1> DEFINE s == sessions[i]
           y == sessions'[i]
<1>1. s \in SessionType /\ y \in SessionType BY DEF TypeInv, ObjectsInv
<1>2. call \in [Thread -> CallType] /\ call' \in [Thread -> CallType]
  BY DEF TypeInv, CallsInv
<1>3. owner \in Seq(Nat) /\ owner' \in Seq(Nat)
      /\ Shape(native, Len(owner)) /\ Shape(native', Len(owner'))
  BY DEF TypeInv, NativeInv
<1>4. Right(i, s, call, drains, native, owner, gone) BY DEF ObjectsRight
<1>5. SameFed(s, y) /\ (y.clean => s.clean) /\ y.cseg = s.cseg /\ y.carry = s.carry
  BY DEF Untouched
<1>6. \A t \in Thread : call'[t] = call[t] \/ (~In(call[t], i) /\ ~In(call'[t], i))
  BY DEF SameCollections
<1>7. s.clean /\ Taps(i, s.id, drains') =>
        /\ Taps(i, s.id, drains)
        /\ Evolves(s.id, native, owner, gone, native', owner', gone')
  BY DEF Evolved
<1> HIDE DEF s, y
<1>8. Right(i, y, call', drains', native', owner', gone')
  BY <1>1, <1>2, <1>3, <1>4, <1>5, <1>6, <1>7, RightStays
<1> QED BY <1>8 DEF y

LEMMA SparedStaysRight ==
  ASSUME TypeInv, TypeInv', ObjectsRight, Spared, NEW i \in 1 .. Len(sessions),
         i \in 1 .. Len(sessions'), Untouched(sessions[i], sessions'[i]), SameCollections(i)
  PROVE  Right(i, sessions'[i], call', drains', native', owner', gone')
BY OthersStayRight DEF Spared

\* The tools under schedulerMu and recover collect nothing.
LEMMA LifecycleTouches ==
  ASSUME TypeInv, TypeInv', NEW t \in Thread, Lifecycle(t)
  PROVE  /\ Len(sessions) <= Len(sessions')
         /\ \A i \in 1 .. Len(sessions) :
              Untouched(sessions[i], sessions'[i]) /\ SameCollections(i)
         /\ ~CommitStart(t) =>
              \A i \in 1 .. Len(sessions') : i \in 1 .. Len(sessions) \/ ~sessions'[i].clean
<1>0. /\ ObjectsInv /\ CallsInv /\ CallOK(call[t], Len(sessions), ids)
      /\ sessions \in Seq(SessionType) /\ Len(sessions) \in Nat
      /\ sessions' \in Seq(SessionType) /\ call \in [Thread -> CallType]
      /\ \A j \in 1 .. Len(sessions) : sessions[j] \in SessionType
      /\ call[t] \in CallType
  <2>1. ObjectsInv /\ CallsInv /\ ObjectsInv' BY DEF TypeInv
  <2>2. sessions \in Seq(SessionType) /\ sessions' \in Seq(SessionType)
    BY <2>1 DEF ObjectsInv
  <2>3. \A j \in 1 .. Len(sessions) : sessions[j] \in SessionType BY <2>2
  <2>4. call \in [Thread -> CallType] /\ CallOK(call[t], Len(sessions), ids)
    BY <2>1 DEF CallsInv
  <2> QED BY <2>1, <2>2, <2>3, <2>4
<1>1. call[t].pc \notin InCollection
  BY DEF Lifecycle, BeginStart, BeginLoad, EnterScheduler, StartNative, LoadNative, StopNative,
         NativeFails, CommitStart, CommitStop, CommitLoad, Recover, CheckLive, Install,
         InCollection
<1>2. \E c : call' = [call EXCEPT ![t] = c] /\ c.pc \notin InCollection
  <2>1. ASSUME NEW pc \in {"native", "commit", "replace"}, Go(t, pc),
               call[t].pc \in {"sched", "native", "check"}
        PROVE  \E c : call' = [call EXCEPT ![t] = c] /\ c.pc \notin InCollection
    <3> DEFINE b == call[t]
               c == [b EXCEPT !.pc = pc]
    <3>1. call' = [call EXCEPT ![t] = c] BY <1>0, <2>1 DEF Go
    <3>2. \/ b \in Starting \/ b \in Loading \/ b \in Plain \/ b \in Recovering
      BY <1>0, <2>1, CallKinds
    <3>3. c.pc = pc BY <3>2 DEF Starting, Loading, Plain, Recovering
    <3> HIDE DEF c
    <3>4. c.pc \notin InCollection BY <2>1, <3>3 DEF InCollection
    <3> QED BY <3>1, <3>4
  <2>2. ASSUME NEW c, call' = [call EXCEPT ![t] = c],
               c.pc \in {"idle", "sched", "persist", "check"}
        PROVE  \E d : call' = [call EXCEPT ![t] = d] /\ d.pc \notin InCollection
    BY <2>2 DEF InCollection
  <2>3. CASE StartNative(t) \/ LoadNative(t) \/ \E delete \in BOOLEAN : StopNative(t, delete)
    BY <2>1, <2>3 DEF StartNative, LoadNative, StopNative
  <2>4. CASE EnterScheduler(t) BY <2>1, <2>4 DEF EnterScheduler
  <2>5. CASE CommitStop(t) \/ CommitLoad(t) \/ Install(t)
             \/ \E outcome \in {"unsent", "refused", "lost"} : NativeFails(t, outcome)
    <3> DEFINE c == [pc |-> "idle"]
    <3>1. call' = [call EXCEPT ![t] = c] /\ c.pc = "idle"
      BY <2>5 DEF CommitStop, CommitLoad, Install, NativeFails, Return
    <3> HIDE DEF c
    <3> QED BY <2>2, <3>1
  <2>6. CASE CheckLive(t)
    <3> DEFINE c == [pc |-> "idle"]
    <3>1. call[t].pc = "check" /\ (call' = [call EXCEPT ![t] = c] \/ Go(t, "replace"))
          /\ c.pc = "idle"
      BY <2>6 DEF CheckLive, Return
    <3> HIDE DEF c
    <3> QED BY <2>1, <2>2, <3>1
  <2>7. ASSUME NEW mode \in Modes, BeginStart(t, mode)
        PROVE  \E c : call' = [call EXCEPT ![t] = c] /\ c.pc \notin InCollection
    <3> DEFINE c == [pc |-> "sched", tool |-> "start", id |-> ids + 1, mode |-> mode]
    <3>1. call' = [call EXCEPT ![t] = c] /\ c.pc = "sched" BY <2>7 DEF BeginStart
    <3> HIDE DEF c
    <3> QED BY <2>2, <3>1
  <2>8. CASE BeginLoad(t)
    <3> DEFINE c == [pc |-> "sched", tool |-> "load"]
    <3>1. call' = [call EXCEPT ![t] = c] /\ c.pc = "sched" BY <2>8 DEF BeginLoad
    <3> HIDE DEF c
    <3> QED BY <2>2, <3>1
  <2>9. CASE CommitStart(t)
    <3> DEFINE c == [pc |-> "persist", tool |-> "start", obj |-> Len(sessions) + 1]
    <3>1. call' = [call EXCEPT ![t] = c] /\ c.pc = "persist" BY <2>9 DEF CommitStart
    <3> HIDE DEF c
    <3> QED BY <2>2, <3>1
  <2>10. ASSUME NEW id \in SessionIds, Recover(t, id)
         PROVE  \E c : call' = [call EXCEPT ![t] = c] /\ c.pc \notin InCollection
    <3> DEFINE c == [pc |-> "check", manifest |-> manifests[id]]
    <3>1. call' = [call EXCEPT ![t] = c] /\ c.pc = "check" BY <2>10 DEF Recover
    <3> HIDE DEF c
    <3> QED BY <2>2, <3>1
  <2> QED BY <2>3, <2>4, <2>5, <2>6, <2>7, <2>8, <2>9, <2>10 DEF Lifecycle
<1>3. \A i : SameCollections(i)
  <2>1. PICK c : call' = [call EXCEPT ![t] = c] /\ c.pc \notin InCollection BY <1>2
  <2>2. \A u \in Thread : call'[u] = IF u = t THEN c ELSE call[u] BY <1>0, <2>1
  <2> QED BY <1>1, <2>1, <2>2 DEF SameCollections, In
<1>4. ASSUME NEW z \in SessionType, sessions' = Append(sessions, z)
      PROVE  /\ Len(sessions') = Len(sessions) + 1 /\ sessions'[Len(sessions) + 1] = z
             /\ \A i \in 1 .. Len(sessions) : sessions'[i] = sessions[i]
  BY <1>0, <1>4
<1>5. CASE CommitStart(t) \/ Install(t)
  <2> DEFINE z == sessions'[Len(sessions) + 1]
  <2>1. \E x : sessions' = Append(sessions, x) BY <1>5 DEF CommitStart, Install
  <2>2. PICK x : sessions' = Append(sessions, x) BY <2>1
  <2>3. Len(sessions') = Len(sessions) + 1 BY <1>0, <2>2
  <2>4. \A i \in 1 .. Len(sessions) : sessions'[i] = sessions[i] BY <1>0, <2>2
  <2>5. \A i \in 1 .. Len(sessions) : Untouched(sessions[i], sessions'[i])
    BY <1>0, <2>4, UntouchedIsReflexive
  <2>6. Len(sessions) <= Len(sessions') BY <1>0, <2>3
  <2>7. ASSUME ~CommitStart(t)
        PROVE  \A i \in 1 .. Len(sessions') : i \in 1 .. Len(sessions) \/ ~sessions'[i].clean
    <3>1. Cleaner(sessions, sessions') BY <2>7, LifecycleCleans
    <3> QED BY <3>1 DEF Cleaner
  <2> QED BY <1>3, <2>5, <2>6, <2>7
<1>6. ASSUME NEW j \in 1 .. Len(sessions), sessions' = [sessions EXCEPT ![j] = MarkStopped(@)]
      PROVE  /\ Len(sessions') = Len(sessions)
             /\ \A i \in 1 .. Len(sessions) : Untouched(sessions[i], sessions'[i])
  <2>1. \A i \in 1 .. Len(sessions) :
          sessions'[i] = IF i = j THEN MarkStopped(sessions[i]) ELSE sessions[i]
    BY <1>0, <1>6
  <2>2. Len(sessions') = Len(sessions) BY <1>0, <1>6
  <2> QED BY <1>0, <2>1, <2>2, UntouchedIsReflexive
<1>7. ASSUME sessions' = sessions
      PROVE  /\ Len(sessions') = Len(sessions)
             /\ \A i \in 1 .. Len(sessions) : Untouched(sessions[i], sessions'[i])
  BY <1>0, <1>7, UntouchedIsReflexive
<1>8. ASSUME ~CommitStart(t), ~Install(t)
      PROVE  /\ Len(sessions') = Len(sessions)
             /\ \A i \in 1 .. Len(sessions) : Untouched(sessions[i], sessions'[i])
  <2>1. CASE CommitStop(t)
    <3>1. call[t].obj \in 1 .. Len(sessions) BY <1>0, <2>1 DEF CommitStop, CallOK, About
    <3>2. sessions' = [sessions EXCEPT ![call[t].obj] = MarkStopped(@)]
      BY <2>1 DEF CommitStop
    <3> QED BY <1>6, <3>1, <3>2
  <2>2. CASE CommitLoad(t)
    <3>1. current # 0 => current \in 1 .. Len(sessions) BY <1>0 DEF ObjectsInv
    <3> QED BY <1>6, <1>7, <2>2, <3>1 DEF CommitLoad
  <2>3. ASSUME ~CommitStop(t), ~CommitLoad(t) PROVE sessions' = sessions
    BY <1>8, <2>3 DEF Lifecycle, BeginStart, BeginLoad, EnterScheduler, StartNative, LoadNative,
                StopNative, NativeFails, Recover, CheckLive, serverVars
  <2> QED BY <1>7, <2>1, <2>2, <2>3
<1>9. CASE ~CommitStart(t) /\ ~Install(t)
  <2>1. Len(sessions) <= Len(sessions') /\ 1 .. Len(sessions') = 1 .. Len(sessions)
    BY <1>0, <1>8, <1>9
  <2> QED BY <1>3, <1>8, <1>9, <2>1
<1> QED BY <1>5, <1>9

(***************************************************************************)
(* A collection's step, to its own object                                  *)
(***************************************************************************)
\* The call b, alone with s, becomes c, and s becomes y.
Serves(i, s, y, b, c, D, F, n, o, g, z, q, h) ==
  /\ In(b, i) /\ y.id = s.id /\ (y.clean => s.clean)
  /\ c.pc = "drain" => ~c.sealing
  /\ y.clean /\ Taps(i, s.id, F) =>
       /\ Taps(i, s.id, D)
       /\ /\ FedRight(s, o, g) /\ CallRight(s, b, n, o, g)
          /\ b.pc = "drain" /\ b.sealing => b.seg = s.cseg /\ b.carry = s.carry
          => /\ FedRight(y, q, h)
             /\ IF In(c, i) THEN CallRight(y, c, z, q, h)
                ELSE Standing(y, y.cseg, y.carry, z, q, h)

LEMMA CollectorGoesOn ==
  ASSUME NEW i, NEW s, NEW y, NEW C \in [Thread -> CallType], NEW t \in Thread, NEW c,
         NEW E, E = [C EXCEPT ![t] = c], NEW D, NEW F,
         NEW n, NEW o, NEW g, NEW z, NEW q, NEW h,
         Serves(i, s, y, C[t], c, D, F, n, o, g, z, q, h), Right(i, s, C, D, n, o, g)
  PROVE  Right(i, y, E, F, z, q, h)
<1> SUFFICES ASSUME y.clean
             PROVE  /\ Alone(i, E) /\ Fresh(i, y, E)
                    /\ Taps(i, y.id, F) =>
                         /\ FedRight(y, q, h)
                         /\ KeptRight(i, y, E, z, q, h)
                         /\ \A u \in Thread : In(E[u], i) => CallRight(y, E[u], z, q, h)
  BY DEF Right
<1>1. /\ In(C[t], i) /\ y.id = s.id /\ s.clean /\ (c.pc = "drain" => ~c.sealing)
  BY DEF Serves
<1>2. Alone(i, C) /\ Fresh(i, s, C) BY <1>1 DEF Right
<1>3. \A u \in Thread : u # t => ~In(E[u], i) /\ E[u] = C[u] BY <1>1, <1>2 DEF Alone
<1>4. E[t] = c OBVIOUS
<1>5. Alone(i, E) BY <1>3 DEF Alone
<1>6. Fresh(i, y, E) BY <1>1, <1>3, <1>4 DEF Fresh
<1>7. ASSUME Taps(i, y.id, F)
      PROVE  /\ FedRight(y, q, h)
             /\ KeptRight(i, y, E, z, q, h)
             /\ \A u \in Thread : In(E[u], i) => CallRight(y, E[u], z, q, h)
  <2>1. Taps(i, s.id, D) BY <1>1, <1>7 DEF Serves
  <2>2. FedRight(s, o, g) /\ CallRight(s, C[t], n, o, g)
    BY <1>1, <2>1 DEF Right
  <2>3. C[t].pc = "drain" /\ C[t].sealing => C[t].seg = s.cseg /\ C[t].carry = s.carry
    BY <1>1, <1>2 DEF Fresh
  <2>4. /\ FedRight(y, q, h)
        /\ IF In(c, i) THEN CallRight(y, c, z, q, h)
           ELSE Standing(y, y.cseg, y.carry, z, q, h)
    BY <1>1, <1>7, <2>2, <2>3 DEF Serves
  <2>5. KeptRight(i, y, E, z, q, h) BY <1>4, <2>4 DEF KeptRight
  <2>6. \A u \in Thread : In(E[u], i) => CallRight(y, E[u], z, q, h)
    BY <1>3, <1>4, <2>4
  <2> QED BY <2>4, <2>5, <2>6
<1> QED BY <1>5, <1>6, <1>7

\* The carry is read: nobody else is collecting, or the object says so.
LEMMA CollectorBegins ==
  ASSUME NEW i, NEW s \in SessionType, NEW y \in SessionType, SameFed(s, y),
         NEW C \in [Thread -> CallType], NEW t \in Thread, ~In(C[t], i), NEW c,
         NEW E, E = [C EXCEPT ![t] = c],
         c.pc = "drain" /\ c.obj = i /\ c.seg = s.cseg /\ c.carry = s.carry,
         y.cseg = s.cseg, y.carry = s.carry,
         y.clean => s.clean /\ ~\E u \in Thread \ {t} : In(C[u], i),
         NEW D, NEW n, NEW o, NEW g, Right(i, s, C, D, n, o, g)
  PROVE  Right(i, y, E, D, n, o, g)
<1> SUFFICES ASSUME y.clean
             PROVE  /\ Alone(i, E) /\ Fresh(i, y, E)
                    /\ Taps(i, y.id, D) =>
                         /\ FedRight(y, o, g)
                         /\ KeptRight(i, y, E, n, o, g)
                         /\ \A u \in Thread : In(E[u], i) => CallRight(y, E[u], n, o, g)
  BY DEF Right
<1>1. s.clean /\ \A u \in Thread : ~In(C[u], i) OBVIOUS
<1>2. E[t] = c /\ \A u \in Thread : u # t => ~In(E[u], i) BY <1>1
<1>3. Alone(i, E) BY <1>2 DEF Alone
<1>4. Fresh(i, y, E) BY <1>2 DEF Fresh
<1>5. ASSUME Taps(i, y.id, D)
      PROVE  /\ FedRight(y, o, g)
             /\ KeptRight(i, y, E, n, o, g)
             /\ \A u \in Thread : In(E[u], i) => CallRight(y, E[u], n, o, g)
  <2>1. Taps(i, s.id, D) BY <1>5 DEF SameFed
  <2>2. FedRight(s, o, g) /\ KeptRight(i, s, C, n, o, g) BY <1>1, <2>1 DEF Right
  <2>3. Standing(s, s.cseg, s.carry, n, o, g) BY <1>1, <2>2 DEF KeptRight
  <2>4. FedRight(y, o, g) /\ Standing(y, s.cseg, s.carry, n, o, g)
    BY <2>2, <2>3, SameFedIsRight
  <2>5. CallRight(y, c, n, o, g) BY <2>4 DEF CallRight, InFlight
  <2>6. In(E[t], i) BY <1>2 DEF In, InCollection
  <2>7. KeptRight(i, y, E, n, o, g) BY <2>6 DEF KeptRight
  <2> QED BY <1>2, <2>4, <2>5, <2>7
<1> QED BY <1>3, <1>4, <1>5

OthersSpared(obj) ==
  \A i \in 1 .. Len(sessions) :
    i # obj /\ sessions[i].clean /\ Taps(i, sessions[i].id, drains') =>
      Taps(i, sessions[i].id, drains) /\ Evolved(sessions[i].id)

\* The call of t goes on as c, and its object becomes y.
Works(t, obj, c, y) ==
  /\ obj \in 1 .. Len(sessions) /\ call' = [call EXCEPT ![t] = c]
  /\ \A i : In(call[t], i) \/ In(c, i) => i = obj
  /\ sessions' = [sessions EXCEPT ![obj] = y]

LEMMA OneCollects ==
  ASSUME TypeInv, TypeInv', ObjectsRight, NEW t \in Thread, NEW obj, NEW c, NEW y,
         Works(t, obj, c, y), OthersSpared(obj),
         Right(obj, y, call', drains', native', owner', gone')
  PROVE  ObjectsRight'
<1>0. /\ sessions \in Seq(SessionType) /\ call \in [Thread -> CallType]
      /\ Len(sessions) \in Nat
  BY DEF TypeInv, ObjectsInv, CallsInv
<1>1. /\ Len(sessions') = Len(sessions) /\ sessions'[obj] = y
      /\ \A i \in 1 .. Len(sessions) : i # obj => sessions'[i] = sessions[i]
  BY <1>0 DEF Works
<1>2. \A u \in Thread : call'[u] = IF u = t THEN c ELSE call[u]
  BY <1>0 DEF Works
<1>3. ASSUME NEW i \in 1 .. Len(sessions), i # obj
      PROVE  Right(i, sessions'[i], call', drains', native', owner', gone')
  <2>1. SameCollections(i) BY <1>2, <1>3 DEF Works, SameCollections
  <2>2. sessions[i] \in SessionType BY <1>0
  <2>3. Untouched(sessions[i], sessions'[i]) BY <1>1, <1>3, <2>2, UntouchedIsReflexive
  <2>4. sessions[i].clean /\ Taps(i, sessions[i].id, drains') =>
          Taps(i, sessions[i].id, drains) /\ Evolved(sessions[i].id)
    BY <1>3 DEF OthersSpared
  <2>5. i \in 1 .. Len(sessions') BY <1>1
  <2> QED BY <2>1, <2>3, <2>4, <2>5, OthersStayRight
<1> QED BY <1>1, <1>3 DEF ObjectsRight

LEMMA SparedOthers ==
  ASSUME Spared, NEW obj
  PROVE  OthersSpared(obj)
BY DEF Spared, OthersSpared

\* A drain gives its data to no object of another session.
LEMMA DrainSparesOthers ==
  ASSUME NativeInv, OwnersInv, NEW sealing, NEW obj,
         native' = AfterDrain(Evict(Sealed(native, sealing))),
         gone' = gone \cup Unreached(Sealed(native, sealing)),
         drains' = Tapped(obj, Evict(Sealed(native, sealing))),
         owner' = owner, ids' = ids
  PROVE  OthersSpared(obj)
<1> DEFINE evicted == Evict(Sealed(native, sealing))
<1>1. evicted = Evict(Sealed(native, sealing)) OBVIOUS
<1>2. /\ Drained(evicted).data = <<>> => Undrained
      /\ Drained(evicted).data # <<>> => /\ drains' = drains \cup {<<obj, native.id>>}
                                         /\ \A id : id # native.id => Evolved(id)
  BY <1>1, DrainGives
<1> HIDE DEF evicted
<1>3. CASE Drained(evicted).data = <<>>
  BY <1>2, <1>3, UndrainedSpares, SparedOthers
<1>4. CASE Drained(evicted).data # <<>>
  <2> SUFFICES ASSUME NEW j \in 1 .. Len(sessions), j # obj,
                      Taps(j, sessions[j].id, drains')
               PROVE  Taps(j, sessions[j].id, drains) /\ Evolved(sessions[j].id)
    BY DEF OthersSpared
  <2>1. <<obj, native.id>> \in drains' /\ drains \subseteq drains' BY <1>2, <1>4
  <2>2. Taps(j, sessions[j].id, drains) BY <2>1 DEF Taps
  <2>3. <<obj, native.id>>[1] = obj /\ <<obj, native.id>>[2] = native.id OBVIOUS
  <2>4. sessions[j].id # native.id BY <2>1, <2>3 DEF Taps
  <2> QED BY <1>2, <1>4, <2>2, <2>4
<1> QED BY <1>3, <1>4

LEMMA DrainingLeavesRight ==
  ASSUME TypeInv, TypeInv', OwnersInv, ObjectsRight, NEW t \in Thread, Drain(t)
  PROVE  ObjectsRight'
<1> DEFINE b == call[t]
           i == b.obj
           s == sessions[i]
           sealed == Sealed(native, b.sealing)
           evicted == Evict(sealed)
           after == AfterDrain(evicted)
           h == gone \cup Unreached(sealed)
           c == [pc |-> "feed", tool |-> b.tool, obj |-> b.obj, cursor |-> b.cursor,
                 seg |-> b.seg, carry |-> b.carry, read |-> b.read,
                 chunk |-> Drained(evicted),
                 unread |-> after.unread, done |-> Drainable(after) = {}]
<1>0. /\ NativeInv /\ CallsInv /\ sessions \in Seq(SessionType)
      /\ call \in [Thread -> CallType] /\ b \in CallType /\ CallOK(b, Len(sessions), ids)
  BY DEF TypeInv, ObjectsInv, CallsInv
<1>1. /\ b.pc = "drain" /\ native' = after /\ gone' = h /\ owner' = owner
      /\ drains' = Tapped(i, evicted) /\ call' = [call EXCEPT ![t] = c]
      /\ sessions' = sessions
  BY <1>0 DEF Drain, serverVars, CallsInv
<1>2. i \in 1 .. Len(sessions) /\ s \in SessionType BY <1>0, <1>1 DEF CallOK, About
<1>3. ids' = ids BY <1>0, CollectingIsCalm DEF Collect
<1>4. /\ OwnersOK(evicted, owner, gone', ids)
      /\ Shape(evicted, Len(owner)) /\ evicted.id = native.id
      /\ \A id : Evolves(id, native, owner, gone, evicted, owner, gone')
      /\ Drained(evicted).data = <<>> => Undrained
      /\ Drained(evicted).data # <<>> => /\ drains' = drains \cup {<<i, native.id>>}
                                         /\ \A id : id # native.id => Evolved(id)
  BY <1>0, <1>1, <1>3, DrainGives
<1>5. /\ c.pc = "feed" /\ c.obj = i /\ c.seg = b.seg /\ c.carry = b.carry
      /\ c.chunk = Drained(evicted) /\ c.unread = after.unread
  OBVIOUS
<1>6. b.seg \in Nat /\ b.carry \in Seq(Cell)
  BY <1>0, <1>1, CollectingCall DEF InCollection
<1>7. /\ owner \in Seq(Nat) /\ Len(owner) <= MaxRecords /\ Shape(native, Len(owner))
      /\ gone' \subseteq 1 .. Len(owner) /\ Shape(native', Len(owner))
  <2>1. NativeInv' BY DEF TypeInv
  <2>2. gone' \subseteq 1 .. Len(owner') /\ Shape(native', Len(owner'))
    BY <2>1 DEF NativeInv
  <2> QED BY <1>0, <1>1, <2>2 DEF NativeInv
<1>8. native' = AfterDrain(evicted) BY <1>1
<1> HIDE DEF c, sealed, after, h, s, i, evicted
<1>9. In(b, i) /\ In(c, i) /\ \A j : In(b, j) \/ In(c, j) => j = i
  BY <1>1, <1>5 DEF In, InCollection, i
<1>10. OthersSpared(i)
  <2>1. NativeInv /\ OwnersInv /\ owner' = owner BY <1>0, <1>1
  <2> QED BY <1>1, <1>3, <2>1, DrainSparesOthers DEF evicted, sealed, after, h
<1>11. ASSUME s.clean, Taps(i, s.id, drains')
       PROVE  /\ Taps(i, s.id, drains)
              /\ FedRight(s, owner, gone) /\ CallRight(s, b, native, owner, gone) =>
                   FedRight(s, owner, gone') /\ CallRight(s, c, native', owner, gone')
  <2>1. ASSUME FedRight(s, owner, gone) PROVE FedRight(s, owner, gone')
    <3>1. Evolves(s.id, native, owner, gone, evicted, owner, gone') BY <1>4
    <3> QED BY <1>2, <1>7, <2>1, <3>1, FedStaysRight
  <2>2. CallRight(s, b, native, owner, gone) => Standing(s, b.seg, b.carry, native, owner, gone)
    BY <1>1 DEF CallRight, InFlight
  <2>3. CASE Drained(evicted).data = <<>>
    <3>1. drains' = drains /\ Evolved(s.id) BY <1>4, <2>3 DEF Undrained
    <3>2. Evolves(s.id, native, owner, gone, native', owner, gone')
      BY <1>1, <3>1 DEF Evolved
    <3>3. ~InFlight(c) BY <1>5, <2>3 DEF InFlight
    <3>4. ASSUME Standing(s, b.seg, b.carry, native, owner, gone)
          PROVE  Standing(s, b.seg, b.carry, native', owner, gone')
      BY <1>2, <1>6, <1>7, <3>2, <3>4, StandingStays
    <3> QED BY <1>5, <1>11, <2>1, <2>2, <3>1, <3>3, <3>4 DEF CallRight
  <2>4. CASE Drained(evicted).data # <<>>
    <3>1. <<i, native.id>> \in drains' /\ drains \subseteq drains' BY <1>4, <2>4
    <3>2. <<i, native.id>>[1] = i /\ <<i, native.id>>[2] = native.id OBVIOUS
    <3>3. s.id = native.id BY <1>11, <3>1, <3>2 DEF Taps
    <3>4. Taps(i, s.id, drains) BY <1>11, <3>1 DEF Taps
    <3>5. ASSUME Standing(s, b.seg, b.carry, native, owner, gone)
          PROVE  Flying(s, c, native', owner, gone')
      <4>1. Evolves(s.id, native, owner, gone, evicted, owner, gone') BY <1>4
      <4>2. Standing(s, b.seg, b.carry, evicted, owner, gone')
        BY <1>2, <1>4, <1>6, <1>7, <3>5, <4>1, StandingStays
      <4>3. evicted.id = s.id /\ c.seg \in Nat /\ c.carry \in Seq(Cell)
            /\ c.unread = AfterDrain(evicted).unread
            /\ Standing(s, c.seg, c.carry, evicted, owner, gone')
        BY <1>4, <1>5, <1>6, <3>3, <4>2 DEF after
      <4>4. Flying(s, c, AfterDrain(evicted), owner, gone')
        BY <1>2, <1>4, <1>5, <1>7, <2>4, <4>3, DrainingFlies
      <4> QED BY <1>8, <4>4
    <3>6. InFlight(c) BY <1>5, <2>4 DEF InFlight
    <3> QED BY <2>1, <2>2, <3>4, <3>5, <3>6 DEF CallRight
  <2> QED BY <2>3, <2>4
<1>12. Serves(i, s, s, b, c, drains, drains', native, owner, gone, native', owner', gone')
  BY <1>1, <1>5, <1>9, <1>11 DEF Serves
<1>13. Right(i, s, call, drains, native, owner, gone)
  BY <1>2 DEF ObjectsRight, s
<1>14. Right(i, s, call', drains', native', owner', gone')
  BY <1>0, <1>1, <1>12, <1>13, CollectorGoesOn
<1>15. Works(t, i, c, s)
  <2>1. sessions' = [sessions EXCEPT ![i] = s] BY <1>0, <1>1, <1>2 DEF s
  <2> QED BY <1>1, <1>2, <1>9, <2>1 DEF Works
<1> QED BY <1>10, <1>14, <1>15, OneCollects

\* What the lemmas below need of the call and its object.
LEMMA CollectorAtWork ==
  ASSUME TypeInv, NEW t \in Thread, call[t].pc \in InCollection \cup {"carry"}
  PROVE  /\ call \in [Thread -> CallType] /\ call[t] \in CallType
         /\ call[t].obj \in 1 .. Len(sessions)
         /\ sessions \in Seq(SessionType)
         /\ ObjectOK(sessions[call[t].obj]) /\ sessions[call[t].obj] \in SessionType
         /\ owner \in Seq(Nat) /\ Len(owner) <= MaxRecords /\ Shape(native, Len(owner))
<1>1. NativeInv /\ ObjectsInv /\ CallsInv BY DEF TypeInv
<1>2. /\ call \in [Thread -> CallType] /\ call[t] \in CallType
      /\ CallOK(call[t], Len(sessions), ids)
  BY <1>1 DEF CallsInv
<1>3. call[t].obj \in 1 .. Len(sessions) BY <1>2 DEF CallOK, About, InCollection
<1>4. ObjectOK(sessions[call[t].obj]) BY <1>1, <1>3 DEF ObjectsInv
<1> QED BY <1>1, <1>2, <1>3, <1>4 DEF ObjectsInv, ObjectOK, NativeInv

LEMMA ReadingCarryLeavesRight ==
  ASSUME TypeInv, TypeInv', OwnersInv, ObjectsRight, NEW t \in Thread, ReadCarry(t)
  PROVE  ObjectsRight'
<1> DEFINE b == call[t]
           i == b.obj
           s == sessions[i]
           overlaps == \E u \in Thread \ {t} : call[u].pc \in InCollection /\ call[u].obj = i
           clean == s.clean /\ ~overlaps
           y == [s EXCEPT !.clean = clean]
           c == [pc |-> "drain", tool |-> b.tool, obj |-> i, cursor |-> b.cursor,
                 seg |-> s.cseg, carry |-> s.carry, read |-> 0, sealing |-> TRUE]
<1>1. b.pc = "carry" BY DEF ReadCarry
<1>2. /\ call \in [Thread -> CallType] /\ i \in 1 .. Len(sessions) /\ s \in SessionType
      /\ sessions \in Seq(SessionType)
  BY <1>1, CollectorAtWork
<1>3. /\ call' = [call EXCEPT ![t] = c] /\ sessions' = [sessions EXCEPT ![i] = y]
      /\ UNCHANGED <<native, owner, gone, drains>>
  BY <1>2 DEF ReadCarry
<1>4. /\ c.pc = "drain" /\ c.obj = i /\ c.seg = s.cseg /\ c.carry = s.carry
      /\ clean \in BOOLEAN
  OBVIOUS
<1>5. y \in SessionType /\ y.clean = clean /\ Untouched(s, y)
  <2>1. y \in SessionType /\ y.clean = clean BY <1>2, <1>4 DEF SessionType
  <2>2. clean => s.clean OBVIOUS
  <2> HIDE DEF clean, s
  <2> QED BY <1>2, <2>1, <2>2, UntouchedIsReflexive
<1>6. clean => s.clean /\ ~\E u \in Thread \ {t} : In(call[u], i)
  BY DEF In
<1>7. Spared
  <2>1. Collect(t) /\ ~Drain(t) /\ ~DrainFails(t, TRUE)
    BY <1>1 DEF Collect, Drain, DrainFails
  <2> QED BY <2>1, CollectingSpares
<1> HIDE DEF c, y, clean, s, i
<1>8. /\ ~In(b, i) /\ \A j : In(b, j) \/ In(c, j) => j = i
  BY <1>1, <1>4 DEF In, InCollection
<1>9. Right(i, s, call, drains, native, owner, gone) BY <1>2 DEF ObjectsRight, s
<1>10. Right(i, y, call', drains, native, owner, gone)
  BY <1>2, <1>3, <1>4, <1>5, <1>6, <1>8, <1>9, CollectorBegins DEF Untouched
<1>11. Right(i, y, call', drains', native', owner', gone') BY <1>3, <1>10
<1>12. Works(t, i, c, y) BY <1>2, <1>3, <1>8 DEF Works
<1> QED BY <1>7, <1>11, <1>12, SparedOthers, OneCollects

LEMMA FailingDrainLeavesRight ==
  ASSUME TypeInv, TypeInv', OwnersInv, ObjectsRight, NEW t \in Thread,
         NEW executed \in BOOLEAN, DrainFails(t, executed)
  PROVE  ObjectsRight'
<1> DEFINE b == call[t]
           i == b.obj
           s == sessions[i]
           clean == s.clean /\ ~executed /\ b.sealing
           y == [s EXCEPT !.clean = clean]
           c == [pc |-> "idle"]
<1>1. b.pc = "drain" BY DEF DrainFails
<1>2. /\ call \in [Thread -> CallType] /\ i \in 1 .. Len(sessions) /\ s \in SessionType
      /\ sessions \in Seq(SessionType)
  BY <1>1, CollectorAtWork DEF InCollection
<1>3. /\ call' = [call EXCEPT ![t] = c] /\ sessions' = [sessions EXCEPT ![i] = y]
      /\ owner' = owner /\ c.pc = "idle"
      /\ ~executed => UNCHANGED <<native, gone, drains>>
  BY <1>2 DEF DrainFails, Return
<1>4. clean \in BOOLEAN /\ (clean => s.clean /\ ~executed /\ b.sealing) OBVIOUS
<1>5. y \in SessionType /\ y.clean = clean /\ Untouched(s, y)
  <2>1. y \in SessionType /\ y.clean = clean BY <1>2, <1>4 DEF SessionType
  <2> HIDE DEF clean, s
  <2> QED BY <1>2, <1>4, <2>1, UntouchedIsReflexive
<1> HIDE DEF c, y, clean, s, i
<1>6. /\ In(b, i) /\ ~In(c, i) /\ \A j : In(b, j) \/ In(c, j) => j = i
  BY <1>1, <1>3 DEF In, InCollection, i
<1>7. OthersSpared(i)
  <2>1. NativeInv /\ CallsInv /\ ids \in Nat /\ ids' = ids
    BY DEF TypeInv, NativeInv, DrainFails
  <2>2. CASE ~executed
    <3>1. UNCHANGED <<native, owner, gone, drains>> /\ ids' \in Nat /\ ids <= ids'
      BY <1>3, <2>1, <2>2
    <3> QED BY <2>1, <3>1, NothingNative, UndrainedSpares, SparedOthers
  <2>3. CASE executed
    <3>1. /\ native' = AfterDrain(Evict(Sealed(native, b.sealing)))
          /\ gone' = gone \cup Unreached(Sealed(native, b.sealing))
          /\ drains' = Tapped(i, Evict(Sealed(native, b.sealing)))
      BY <2>3 DEF DrainFails, i
    <3> QED BY <1>3, <2>1, <3>1, DrainSparesOthers
  <2> QED BY <2>2, <2>3
<1>8. Serves(i, s, y, b, c, drains, drains', native, owner, gone, native', owner', gone')
  <2>1. ASSUME y.clean, Taps(i, s.id, drains'), FedRight(s, owner, gone),
               CallRight(s, b, native, owner, gone),
               b.pc = "drain" /\ b.sealing => b.seg = s.cseg /\ b.carry = s.carry
        PROVE  FedRight(y, owner', gone') /\ Standing(y, y.cseg, y.carry, native', owner', gone')
    <3>1. ~executed /\ b.sealing /\ UNCHANGED <<native, owner, gone, drains>>
      BY <1>3, <1>4, <1>5, <2>1
    <3>2. Standing(s, s.cseg, s.carry, native, owner, gone)
      BY <1>1, <2>1, <3>1 DEF CallRight, InFlight
    <3>3. SameFed(s, y) /\ y.cseg = s.cseg /\ y.carry = s.carry BY <1>5 DEF Untouched
    <3>4. FedRight(y, owner, gone) /\ Standing(y, y.cseg, y.carry, native, owner, gone)
      BY <1>2, <1>5, <2>1, <3>2, <3>3, SameFedIsRight
    <3> QED BY <3>1, <3>4
  <2>2. y.clean => drains' = drains BY <1>3, <1>4, <1>5
  <2>3. c.pc # "drain" /\ y.id = s.id /\ (y.clean => s.clean)
    BY <1>3, <1>5 DEF Untouched, SameFed
  <2> QED BY <1>6, <2>1, <2>2, <2>3 DEF Serves
<1>9. Right(i, s, call, drains, native, owner, gone) BY <1>2 DEF ObjectsRight, s
<1>10. Right(i, y, call', drains', native', owner', gone')
  BY <1>2, <1>3, <1>8, <1>9, CollectorGoesOn
<1>11. Works(t, i, c, y) BY <1>2, <1>3, <1>6 DEF Works
<1> QED BY <1>7, <1>10, <1>11, OneCollects

LEMMA FeedingLeavesRight ==
  ASSUME TypeInv, TypeInv', OwnersInv, ObjectsRight, NEW t \in Thread, NEW misread \in BOOLEAN,
         Feed(t, misread)
  PROVE  ObjectsRight'
<1> DEFINE b == call[t]
           i == b.obj
           s == sessions[i]
           empty == b.chunk.data = <<>>
           cut == Cut([seg |-> b.seg, carry |-> b.carry], b.chunk)
           parsed == ParseAccessSegment(cut.whole, misread)
           read == b.read + Len(b.chunk.data)
           x == AddAccessLoss(AddAccessParseStats(AddAccessEvents(s, parsed.events),
                                                  parsed.malformed), b.unread)
           y == IF empty THEN AddAccessLoss(s, b.unread) ELSE x
           c == [pc |-> IF b.done \/ read >= Budget THEN "keep" ELSE "drain",
                 tool |-> b.tool, obj |-> i, cursor |-> b.cursor,
                 seg |-> IF empty THEN b.seg ELSE b.chunk.seg,
                 carry |-> IF empty THEN b.carry ELSE cut.carry,
                 read |-> read, sealing |-> FALSE]
<1>1. b.pc = "feed" BY DEF Feed
<1>2. /\ call \in [Thread -> CallType] /\ i \in 1 .. Len(sessions) /\ s \in SessionType
      /\ ObjectOK(s) /\ sessions \in Seq(SessionType) /\ b \in CallType
      /\ owner \in Seq(Nat) /\ Len(owner) <= MaxRecords /\ Shape(native, Len(owner))
  BY <1>1, CollectorAtWork DEF InCollection
<1>3. /\ call' = [call EXCEPT ![t] = c] /\ sessions' = [sessions EXCEPT ![i] = y]
      /\ UNCHANGED <<native, owner, gone, drains>>
  BY <1>2 DEF Feed
<1>4. /\ c.pc \in {"keep", "drain"} /\ c.obj = i /\ c.sealing = FALSE
      /\ c.seg = (IF empty THEN b.seg ELSE b.chunk.seg)
      /\ c.carry = (IF empty THEN b.carry ELSE cut.carry)
  OBVIOUS
<1>5. b \in Feeding BY <1>1, <1>2, CallKinds
<1>6. b.unread \in Nat BY <1>5 DEF Feeding
<1>7. LET z == AddAccessLoss(s, b.unread)
      IN  z \in SessionType /\ SameFed(s, z) /\ z.clean = s.clean
  <2> DEFINE u == Max({s.unread, b.unread})
             z == AddAccessLoss(s, b.unread)
  <2>1. s.unread \in Nat BY <1>2, SessionFields
  <2>2. u \in Nat /\ s.unread <= u BY <1>6, <2>1, MaxOfTwo
  <2>3. z = [s EXCEPT !.unread = u] BY <1>2 DEF AddAccessLoss, SessionType
  <2> HIDE DEF u, z
  <2>4. z \in SessionType /\ SameFed(s, z) /\ z.clean = s.clean
    BY <1>2, <2>2, <2>3 DEF SessionType, SameFed
  <2> QED BY <2>4 DEF z
<1>8. ASSUME ~empty, FedRight(s, owner, gone), Flying(s, b, native, owner, gone)
      PROVE  /\ FedRight(x, owner, gone)
             /\ Standing(x, b.chunk.seg, cut.carry, native, owner, gone)
  <2> DEFINE d == b
  <2>1. d.unread \in Nat /\ Flying(s, d, native, owner, gone) BY <1>6, <1>8
  <2> HIDE DEF s, d
  <2>2. LET chop == Cut([seg |-> d.seg, carry |-> d.carry], d.chunk)
            cells == ParseAccessSegment(chop.whole, misread)
            z == AddAccessLoss(AddAccessParseStats(AddAccessEvents(s, cells.events),
                                                   cells.malformed), d.unread)
        IN  /\ z \in SessionType /\ z.id = s.id /\ z.clean = s.clean
            /\ FedRight(z, owner, gone)
            /\ Standing(z, d.chunk.seg, chop.carry, native, owner, gone)
    BY <1>2, <1>8, <2>1, FeedingAChunk
  <2> QED BY <2>2 DEF d
<1>9. ~empty => x.id = s.id /\ x.clean = s.clean
  <2> DEFINE chunk == b.chunk
             unread == b.unread
             held == [seg |-> b.seg, carry |-> b.carry]
  <2>1. held.carry \in Seq(Cell) /\ chunk \in ChunkType /\ unread \in Nat
    BY <1>5 DEF Feeding
  <2> HIDE DEF s, chunk, unread, held
  <2>2. LET cells == ParseAccessSegment(Cut(held, chunk).whole, misread)
            fed == IF chunk.data = <<>> THEN s
                   ELSE AddAccessParseStats(AddAccessEvents(s, cells.events),
                                            cells.malformed)
            z == AddAccessLoss(fed, unread)
        IN  /\ ObjectOK(z) /\ Later(s, z) /\ z.id = s.id /\ z.clean = s.clean
            /\ chunk.data # <<>> => Cut(held, chunk).carry \in Seq(Cell)
                                    /\ Len(Cut(held, chunk).carry) < 2
    BY <1>2, <2>1, FedObject
  <2> QED BY <2>2 DEF chunk, unread, held
<1>10. Spared
  <2>1. Collect(t) /\ ~Drain(t) /\ ~DrainFails(t, TRUE)
    BY <1>1 DEF Collect, Drain, DrainFails
  <2> QED BY <2>1, CollectingSpares
<1>11. y.id = s.id /\ (y.clean => s.clean) BY <1>7, <1>9 DEF SameFed
<1>12. ASSUME FedRight(s, owner, gone), CallRight(s, b, native, owner, gone)
       PROVE  FedRight(y, owner, gone) /\ CallRight(y, c, native, owner, gone)
  <2>1. ~InFlight(c) BY <1>4 DEF InFlight
  <2>2. CASE empty
    <3> DEFINE z == AddAccessLoss(s, b.unread)
    <3>1. Standing(s, b.seg, b.carry, native, owner, gone)
      BY <1>12, <2>2 DEF CallRight, InFlight
    <3>2. z \in SessionType /\ SameFed(s, z) BY <1>7
    <3>3. y = z /\ c.seg = b.seg /\ c.carry = b.carry BY <1>4, <2>2
    <3> HIDE DEF z, y, s, c
    <3>4. FedRight(z, owner, gone) /\ Standing(z, b.seg, b.carry, native, owner, gone)
      BY <1>2, <1>12, <3>1, <3>2, SameFedIsRight
    <3> QED BY <2>1, <3>3, <3>4 DEF CallRight
  <2>3. CASE ~empty
    <3>1. Flying(s, b, native, owner, gone) BY <1>1, <1>12, <2>3 DEF CallRight, InFlight
    <3>2. y = x /\ c.seg = b.chunk.seg /\ c.carry = cut.carry BY <1>4, <2>3
    <3>3. /\ FedRight(x, owner, gone)
          /\ Standing(x, b.chunk.seg, cut.carry, native, owner, gone)
      BY <1>8, <1>12, <2>3, <3>1
    <3> HIDE DEF x, y, c, cut, s
    <3> QED BY <2>1, <3>2, <3>3 DEF CallRight
  <2> QED BY <2>2, <2>3
<1> HIDE DEF c, y, x, s, i, cut, empty
<1>13. In(b, i) /\ In(c, i) /\ \A j : In(b, j) \/ In(c, j) => j = i
  BY <1>1, <1>4 DEF In, InCollection, i
<1>14. Serves(i, s, y, b, c, drains, drains', native, owner, gone, native', owner', gone')
  BY <1>3, <1>4, <1>11, <1>12, <1>13 DEF Serves
<1>15. Right(i, s, call, drains, native, owner, gone) BY <1>2 DEF ObjectsRight, s
<1>16. Right(i, y, call', drains', native', owner', gone')
  BY <1>2, <1>3, <1>14, <1>15, CollectorGoesOn
<1>17. Works(t, i, c, y) BY <1>2, <1>3, <1>13 DEF Works
<1> QED BY <1>10, <1>16, <1>17, SparedOthers, OneCollects

LEMMA KeepingLeavesRight ==
  ASSUME TypeInv, TypeInv', OwnersInv, ObjectsRight, NEW t \in Thread,
         KeepCarry(t) \/ StatusFails(t)
  PROVE  ObjectsRight'
<1> DEFINE b == call[t]
           i == b.obj
           s == sessions[i]
           y == [s EXCEPT !.cseg = b.seg, !.carry = b.carry]
<1>1. b.pc = "keep" BY DEF KeepCarry, StatusFails
<1>2. /\ call \in [Thread -> CallType] /\ i \in 1 .. Len(sessions) /\ s \in SessionType
      /\ sessions \in Seq(SessionType) /\ b \in CallType
  BY <1>1, CollectorAtWork DEF InCollection
<1>3. /\ sessions' = [sessions EXCEPT ![i] = y] /\ UNCHANGED <<native, owner, gone, drains>>
  BY <1>2 DEF KeepCarry, StatusFails, Kept
<1>4. b \in Carrying BY <1>1, <1>2, CallKinds
<1>5. b.seg \in Nat /\ b.carry \in Seq(Cell) /\ b.tool \in Collector BY <1>4 DEF Carrying
<1>6. PICK c : call' = [call EXCEPT ![t] = c] /\ c.pc \in {"idle", "persist", "page", "sched"}
  <2>1. CASE KeepCarry(t)
    <3> DEFINE c == [pc |-> AfterStatus[b.tool], tool |-> b.tool, obj |-> i,
                     cursor |-> b.cursor]
    <3>1. call' = [call EXCEPT ![t] = c] BY <1>2, <2>1 DEF KeepCarry
    <3>2. c.pc \in {"persist", "page", "sched"} BY <1>5 DEF AfterStatus, Collector
    <3> HIDE DEF c
    <3> QED BY <3>1, <3>2
  <2>2. CASE StatusFails(t)
    <3> DEFINE c == [pc |-> "idle"]
    <3>1. call' = [call EXCEPT ![t] = c] /\ c.pc = "idle" BY <2>2 DEF StatusFails, Return
    <3> HIDE DEF c
    <3> QED BY <3>1
  <2> QED BY <2>1, <2>2
<1>7. /\ y \in SessionType /\ SameFed(s, y) /\ y.clean = s.clean
      /\ y.cseg = b.seg /\ y.carry = b.carry
  <2>1. s.unread <= s.unread BY <1>2, SessionFields
  <2> QED BY <1>2, <1>5, <2>1 DEF SessionType, SameFed
<1>8. Spared
  <2>1. Collect(t) /\ ~Drain(t) /\ ~DrainFails(t, TRUE)
    BY <1>1 DEF Collect, Drain, DrainFails
  <2> QED BY <2>1, CollectingSpares
<1> HIDE DEF y, s, i
<1>9. In(b, i) /\ ~In(c, i) /\ c.pc # "drain" /\ \A j : In(b, j) \/ In(c, j) => j = i
  BY <1>1, <1>6 DEF In, InCollection, i
<1>10. ASSUME FedRight(s, owner, gone), CallRight(s, b, native, owner, gone)
       PROVE  FedRight(y, owner, gone) /\ Standing(y, y.cseg, y.carry, native, owner, gone)
  <2>1. Standing(s, b.seg, b.carry, native, owner, gone)
    BY <1>1, <1>10 DEF CallRight, InFlight
  <2>2. FedRight(y, owner, gone) /\ Standing(y, b.seg, b.carry, native, owner, gone)
    BY <1>2, <1>7, <1>10, <2>1, SameFedIsRight
  <2> QED BY <1>7, <2>2
<1>11. y.id = s.id BY <1>7 DEF SameFed
<1>12. Serves(i, s, y, b, c, drains, drains', native, owner, gone, native', owner', gone')
  BY <1>3, <1>7, <1>9, <1>10, <1>11 DEF Serves
<1>13. Right(i, s, call, drains, native, owner, gone) BY <1>2 DEF ObjectsRight, s
<1>14. Right(i, y, call', drains', native', owner', gone')
  BY <1>2, <1>6, <1>12, <1>13, CollectorGoesOn
<1>15. Works(t, i, c, y) BY <1>2, <1>3, <1>6, <1>9 DEF Works
<1> QED BY <1>8, <1>14, <1>15, SparedOthers, OneCollects

\* The steps of the collecting tools outside their collection.
LEMMA TurningPagesLeavesRight ==
  ASSUME TypeInv, TypeInv', OwnersInv, ObjectsRight, NEW t \in Thread,
         \/ \E tool \in Collector, cursor, collect \in BOOLEAN : Begin(t, tool, cursor, collect)
         \/ Page(t) \/ Snapshot(t) \/ Save(t)
  PROVE  ObjectsRight'
<1>0. /\ sessions \in Seq(SessionType) /\ call \in [Thread -> CallType] /\ call[t] \in CallType
      /\ Len(sessions) \in Nat
  BY DEF TypeInv, ObjectsInv, CallsInv
<1>1. sessions' = sessions /\ call[t].pc \in {"idle", "page", "persist", "save"}
  BY DEF Begin, Page, Snapshot, Save, serverVars
<1>2. Spared
  <2>1. Collect(t) /\ ~Drain(t) /\ ~DrainFails(t, TRUE)
    BY <1>1 DEF Collect, Drain, DrainFails
  <2> QED BY <2>1, CollectingSpares
<1>3. PICK c : call' = [call EXCEPT ![t] = c] /\ c.pc \notin InCollection
  <2>1. ASSUME NEW tool \in Collector, NEW cursor \in BOOLEAN, NEW collect \in BOOLEAN,
               Begin(t, tool, cursor, collect)
        PROVE  \E c : call' = [call EXCEPT ![t] = c] /\ c.pc \notin InCollection
    <3> DEFINE c == [pc |-> IF collect THEN "carry" ELSE AfterStatus[tool],
                     tool |-> tool, obj |-> current, cursor |-> cursor]
    <3>1. call' = [call EXCEPT ![t] = c] BY <2>1 DEF Begin
    <3>2. c.pc \in {"carry", "persist", "page", "sched"} BY DEF AfterStatus, Collector
    <3> HIDE DEF c
    <3>3. c.pc \notin InCollection BY <3>2 DEF InCollection
    <3> QED BY <3>1, <3>3
  <2>2. CASE Page(t)
    <3> DEFINE b == call[t]
               c == [b EXCEPT !.pc = "persist"]
    <3>1. call' = [call EXCEPT ![t] = c] /\ b.pc = "page" BY <1>0, <2>2 DEF Page, Go
    <3>2. b \in Plain BY <1>0, <3>1, CallKinds
    <3>3. c.pc = "persist" BY <3>2 DEF Plain
    <3> HIDE DEF c
    <3>4. c.pc \notin InCollection BY <3>3 DEF InCollection
    <3> QED BY <3>1, <3>4
  <2>3. CASE Snapshot(t)
    <3> DEFINE c == [pc |-> "save", manifest |-> NewManifest(sessions[call[t].obj])]
    <3>1. call' = [call EXCEPT ![t] = c] /\ c.pc = "save" BY <2>3 DEF Snapshot
    <3> HIDE DEF c
    <3>2. c.pc \notin InCollection BY <3>1 DEF InCollection
    <3> QED BY <3>1, <3>2
  <2>4. CASE Save(t)
    <3> DEFINE c == [pc |-> "idle"]
    <3>1. call' = [call EXCEPT ![t] = c] /\ c.pc = "idle" BY <2>4 DEF Save, Return
    <3> HIDE DEF c
    <3>2. c.pc \notin InCollection BY <3>1 DEF InCollection
    <3> QED BY <3>1, <3>2
  <2> QED BY <2>1, <2>2, <2>3, <2>4
<1>4. \A u \in Thread : call'[u] = IF u = t THEN c ELSE call[u] BY <1>0, <1>3
<1>5. call[t].pc \notin InCollection BY <1>1 DEF InCollection
<1>6. \A i : SameCollections(i) BY <1>3, <1>4, <1>5 DEF SameCollections, In
<1>7. \A i \in 1 .. Len(sessions) : Untouched(sessions[i], sessions'[i])
  BY <1>0, <1>1, UntouchedIsReflexive
<1>8. 1 .. Len(sessions') = 1 .. Len(sessions) BY <1>1
<1>9. \A i \in 1 .. Len(sessions) :
        Right(i, sessions'[i], call', drains', native', owner', gone')
  BY <1>2, <1>6, <1>7, <1>8, SparedStaysRight
<1> QED BY <1>8, <1>9 DEF ObjectsRight

LEMMA EmulatorLeavesRight ==
  ASSUME TypeInv, TypeInv', OwnersInv, ObjectsRight, Emulator
  PROVE  ObjectsRight'
<1>0. NativeInv /\ sessions \in Seq(SessionType) BY DEF TypeInv, ObjectsInv
<1>1. sessions' = sessions /\ call' = call
  BY DEF Emulator, WriteRecord, Rotate, CloseWindow, FrameLimit, ProcessorGone, serverVars
<1>2. Spared BY <1>0, EmulatorGivesNothing, UndrainedSpares
<1>3. \A i : SameCollections(i) BY <1>1 DEF SameCollections
<1>4. \A i \in 1 .. Len(sessions) : Untouched(sessions[i], sessions'[i])
  BY <1>0, <1>1, UntouchedIsReflexive
<1>5. 1 .. Len(sessions') = 1 .. Len(sessions) BY <1>1
<1>6. \A i \in 1 .. Len(sessions) :
        Right(i, sessions'[i], call', drains', native', owner', gone')
  BY <1>2, <1>3, <1>4, <1>5, SparedStaysRight
<1> QED BY <1>5, <1>6 DEF ObjectsRight

\* The object a start appends: it has missed nothing if nobody has drained its session.
LEMMA NewObjectIsRight ==
  ASSUME TypeInv, StartsInv, NEW t \in Thread, CommitStart(t), NEW i, i = Len(sessions) + 1
  PROVE  Right(i, NewSession(call[t].id, call[t].mode), call, drains, native, owner, gone)
<1> DEFINE s == NewSession(call[t].id, call[t].mode)
<1>0. /\ CallsInv /\ sessions \in Seq(SessionType) /\ Len(sessions) \in Nat /\ owner \in Seq(Nat)
  BY DEF TypeInv, ObjectsInv, NativeInv
<1>1. /\ call[t].pc = "commit" /\ call[t].tool = "start" BY DEF CommitStart
<1>2. i \notin 1 .. Len(sessions) BY <1>0
<1>3. \A u \in Thread : ~In(call[u], i)
  <2> SUFFICES ASSUME NEW u \in Thread, In(call[u], i) PROVE FALSE
    OBVIOUS
  <2>1. CallOK(call[u], Len(sessions), ids) BY <1>0 DEF CallsInv
  <2> QED BY <1>2, <2>1 DEF CallOK, About, In, InCollection
<1>4. /\ s.id = call[t].id /\ s.fed = <<>> /\ s.last = 0 /\ s.gaps = 0 /\ s.malformed = 0
      /\ s.cseg = 0 /\ s.carry = <<>>
  BY DEF NewSession
<1>5. StartOK(call[t], sessions, native, owner, gone, drains) BY DEF StartsInv
<1>6. (\A d \in drains : d[2] # s.id) => Standing(s, 0, <<>>, native, owner, gone)
  BY <1>1, <1>4, <1>5 DEF StartOK, Pending
<1> HIDE DEF s
<1>7. FedRight(s, owner, gone)
  <2>1. Len(s.fed) = 0 /\ 1 .. 0 = {} BY <1>4
  <2>2. \A r \in Mine(s, owner) : ~(r < s.last)
    <3>1. \A r \in Mine(s, owner) : r \in 1 .. Len(owner) BY <1>0 DEF Mine
    <3> QED BY <1>0, <1>4, <3>1
  <2> QED BY <1>4, <2>1, <2>2 DEF FedRight
<1>8. ASSUME Taps(i, s.id, drains) PROVE Standing(s, s.cseg, s.carry, native, owner, gone)
  <2>1. \A d \in drains : d[1] \in 1 .. Len(sessions) BY DEF StartsInv
  <2>2. \A d \in drains : d[2] # s.id BY <1>2, <1>8, <2>1 DEF Taps
  <2> QED BY <1>4, <1>6, <2>2
<1>9. Right(i, s, call, drains, native, owner, gone)
  BY <1>3, <1>7, <1>8 DEF Right, Alone, Fresh, KeptRight
<1> QED BY <1>9 DEF s

LEMMA LifecycleLeavesRight ==
  ASSUME TypeInv, TypeInv', OwnersInv, StartsInv, ObjectsRight, NEW t \in Thread, Lifecycle(t)
  PROVE  ObjectsRight'
<1>0. /\ sessions \in Seq(SessionType) /\ Len(sessions) \in Nat /\ Len(sessions') \in Nat
      /\ call \in [Thread -> CallType] /\ CallsInv
  BY DEF TypeInv, ObjectsInv, CallsInv
<1>1. Spared BY LifecycleSpares
<1>2. /\ Len(sessions) <= Len(sessions')
      /\ \A i \in 1 .. Len(sessions) :
           Untouched(sessions[i], sessions'[i]) /\ SameCollections(i)
      /\ ~CommitStart(t) =>
           \A i \in 1 .. Len(sessions') : i \in 1 .. Len(sessions) \/ ~sessions'[i].clean
  BY LifecycleTouches
<1>3. \A i \in 1 .. Len(sessions) : i \in 1 .. Len(sessions') BY <1>0, <1>2
<1>4. \A i \in 1 .. Len(sessions) :
        Right(i, sessions'[i], call', drains', native', owner', gone')
  BY <1>1, <1>2, <1>3, SparedStaysRight
<1>5. CASE ~CommitStart(t)
  <2>1. ASSUME NEW i \in 1 .. Len(sessions'), i \notin 1 .. Len(sessions)
        PROVE  Right(i, sessions'[i], call', drains', native', owner', gone')
    BY <1>2, <1>5, <2>1 DEF Right
  <2> QED BY <1>4, <2>1 DEF ObjectsRight
<1>6. CASE CommitStart(t)
  <2> DEFINE i == Len(sessions) + 1
             s == NewSession(call[t].id, call[t].mode)
             c == [pc |-> "persist", tool |-> "start", obj |-> Len(sessions) + 1]
  <2>1. /\ sessions' = Append(sessions, s) /\ call' = [call EXCEPT ![t] = c]
        /\ UNCHANGED <<native, owner, gone, drains>>
    BY <1>6 DEF CommitStart
  <2>2. Right(i, s, call, drains, native, owner, gone) BY <1>6, NewObjectIsRight
  <2>3. c.pc = "persist" /\ call[t].pc = "commit" BY <1>6 DEF CommitStart
  <2> HIDE DEF s, c
  <2>4. Len(sessions') = i /\ sessions'[i] = s BY <1>0, <2>1
  <2>5. \A u \in Thread : call'[u] = IF u = t THEN c ELSE call[u] BY <1>0, <2>1
  <2>6. ~In(c, i) /\ ~In(call[t], i) BY <2>3 DEF In, InCollection
  <2>7. \A u \in Thread : call'[u] = call[u] \/ (~In(call'[u], i) /\ ~In(call[u], i))
    BY <2>5, <2>6
  <2> HIDE DEF i
  <2>8. Right(i, s, call', drains, native, owner, gone)
    <3>1. \A u \in Thread : In(call'[u], i) => In(call[u], i) /\ call'[u] = call[u]
      BY <2>7
    <3>2. \A u \in Thread : In(call[u], i) => In(call'[u], i) BY <2>7
    <3>3. Alone(i, call) => Alone(i, call') BY <3>1 DEF Alone
    <3>4. Fresh(i, s, call) => Fresh(i, s, call') BY <3>1 DEF Fresh
    <3>5. KeptRight(i, s, call, native, owner, gone) => KeptRight(i, s, call', native, owner, gone)
      BY <3>2 DEF KeptRight
    <3> QED BY <2>2, <3>1, <3>3, <3>4, <3>5 DEF Right
  <2>9. Right(i, sessions'[i], call', drains', native', owner', gone')
    BY <2>1, <2>4, <2>8
  <2>10. \A j \in 1 .. Len(sessions') : j \in 1 .. Len(sessions) \/ j = i
    BY <1>0, <2>4 DEF i
  <2> QED BY <1>4, <2>9, <2>10 DEF ObjectsRight
<1> QED BY <1>5, <1>6

LEMMA StepKeepsRight ==
  ASSUME TypeInv, TypeInv', OwnersInv, StartsInv, ObjectsRight, [Next]_vars
  PROVE  ObjectsRight'
<1>1. CASE ServerRestart
  <2>1. sessions' = <<>> BY <1>1 DEF ServerRestart
  <2>2. Len(sessions') = 0 /\ 1 .. 0 = {} BY <2>1
  <2> QED BY <2>2 DEF ObjectsRight
<1>2. CASE UNCHANGED vars
  <2>1. UNCHANGED <<native, owner, gone, drains, sessions, call>> BY <1>2 DEF vars
  <2> QED BY <2>1 DEF ObjectsRight
<1>3. CASE Quiet
  <2>1. UNCHANGED <<native, owner, gone, drains, sessions, call>> BY <1>3 DEF Quiet, vars
  <2> QED BY <2>1 DEF ObjectsRight
<1>4. CASE Emulator BY <1>4, EmulatorLeavesRight
<1>5. ASSUME NEW t \in Thread, Collect(t) PROVE ObjectsRight'
  BY <1>5, TurningPagesLeavesRight, ReadingCarryLeavesRight, DrainingLeavesRight,
     FailingDrainLeavesRight, FeedingLeavesRight, KeepingLeavesRight DEF Collect
<1>6. ASSUME NEW t \in Thread, Lifecycle(t) PROVE ObjectsRight'
  BY <1>6, LifecycleLeavesRight
<1> QED BY <1>1, <1>2, <1>3, <1>4, <1>5, <1>6 DEF Next

(***************************************************************************)
(* The theorems                                                            *)
(***************************************************************************)
DrainInv == TypeInv /\ OwnersInv /\ StartsInv /\ ObjectsRight

LEMMA DrainInitially ==
  ASSUME Init
  PROVE  DrainInv
<1> USE DEF Init
<1>1. TypeInv BY TypesInitially
<1>2. 1 .. 0 = {} /\ Len(<<>>) = 0 OBVIOUS
<1>3. /\ native.id = 0 /\ native.active = FALSE /\ native.segments = <<>>
      /\ Len(owner) = 0 /\ gone = {} /\ Len(sessions) = 0 /\ drains = {}
  BY DEF NoNative
<1>4. OwnersInv BY <1>2, <1>3 DEF OwnersInv, OwnersOK
<1>5. ObjectsRight BY <1>2, <1>3 DEF ObjectsRight
<1> DEFINE c == [pc |-> "idle"]
<1>6. c.pc = "idle" /\ \A t \in Thread : call[t] = c OBVIOUS
<1> HIDE DEF c
<1>7. \A t \in Thread : ~Pending(call[t]) /\ Holding(call[t], t, sched)
  BY <1>6 DEF Pending, Holding
<1>8. StartsInv BY <1>2, <1>3, <1>7 DEF StartsInv, StartOK
<1> QED BY <1>1, <1>4, <1>5, <1>8 DEF DrainInv

LEMMA StepKeepsDrains ==
  ASSUME DrainInv, [Next]_vars
  PROVE  DrainInv'
BY StepKeepsTypes, StepKeepsOwners, StepKeepsStarts, StepKeepsRight DEF DrainInv

\* What the inductive invariant says of an undisturbed object.
LEMMA UndisturbedIsRight ==
  ASSUME DrainInv, NEW i \in Object, Undisturbed(i)
  PROVE  /\ FedRight(sessions[i], owner, gone) /\ Own(sessions[i]) = Mine(sessions[i], owner)
         /\ sessions[i] \in SessionType /\ owner \in Seq(Nat)
         /\ \A p, q, r \in 1 .. Len(owner) : p < q /\ q < r /\ owner[p] = owner[r] =>
              owner[q] = owner[p]
<1>1. sessions \in Seq(SessionType) /\ owner \in Seq(Nat)
  BY DEF DrainInv, TypeInv, ObjectsInv, NativeInv
<1>2. i \in 1 .. Len(sessions) BY <1>1 DEF Object
<1>3. Right(i, sessions[i], call, drains, native, owner, gone)
  BY <1>2 DEF DrainInv, ObjectsRight
<1>4. sessions[i].clean /\ Taps(i, sessions[i].id, drains) BY DEF Undisturbed, Taps
<1>5. FedRight(sessions[i], owner, gone) BY <1>3, <1>4 DEF Right
<1> QED BY <1>1, <1>2, <1>5 DEF Own, Mine, DrainInv, OwnersInv, OwnersOK

LEMMA RightIsExact ==
  ASSUME DrainInv
  PROVE  DrainExact
<1> SUFFICES ASSUME NEW i \in Object, Undisturbed(i)
             PROVE  LET s == sessions[i] IN
                    /\ FedSet(s) \subseteq Own(s) /\ s.malformed = 0
                    /\ \A j \in 1 .. Len(s.fed) - 1 : s.fed[j] < s.fed[j + 1]
                    /\ \A r \in Own(s) : r < s.last => r \in FedSet(s) \cup gone
  BY DEF DrainExact
<1> DEFINE s == sessions[i]
<1>1. FedRight(s, owner, gone) /\ Own(s) = Mine(s, owner) /\ s \in SessionType
  BY UndisturbedIsRight
<1> HIDE DEF s
<1>2. DOMAIN s.fed = 1 .. Len(s.fed) /\ Len(s.fed) \in Nat BY <1>1, SessionFields
<1>3. FedSet(s) \subseteq Own(s) /\ s.malformed = 0 BY <1>1, <1>2 DEF FedRight, FedSet
<1>4. ASSUME NEW j \in 1 .. Len(s.fed) - 1 PROVE s.fed[j] < s.fed[j + 1]
  <2>1. j \in 1 .. Len(s.fed) /\ j + 1 \in 1 .. Len(s.fed) /\ j < j + 1 BY <1>2
  <2> QED BY <1>1, <2>1 DEF FedRight
<1>5. \A r \in Own(s) : r < s.last => r \in FedSet(s) \cup gone BY <1>1 DEF FedRight
<1> QED BY <1>3, <1>4, <1>5 DEF s

LEMMA RightIsNotSilent ==
  ASSUME DrainInv
  PROVE  NoSilentLoss
<1> SUFFICES ASSUME NEW i \in Object, Undisturbed(i)
             PROVE  LET s == sessions[i]
                        missing == {r \in Own(s) : r < s.last} \ FedSet(s)
                        leading == {r \in missing : \A f \in FedSet(s) : r < f}
                    IN  /\ s.gaps = Cardinality(missing \ leading)
                        /\ leading # {} => s.unread > 0
  BY DEF NoSilentLoss
<1> DEFINE s == sessions[i]
           missing == {r \in Own(s) : r < s.last} \ FedSet(s)
           leading == {r \in missing : \A f \in FedSet(s) : r < f}
           first == s.fed[1]
<1>1. /\ FedRight(s, owner, gone) /\ Own(s) = Mine(s, owner) /\ s \in SessionType
      /\ owner \in Seq(Nat)
      /\ \A p, q, r \in 1 .. Len(owner) : p < q /\ q < r /\ owner[p] = owner[r] =>
           owner[q] = owner[p]
  BY UndisturbedIsRight
<1> HIDE DEF s
<1>2. /\ DOMAIN s.fed = 1 .. Len(s.fed) /\ Len(s.fed) \in Nat
      /\ \A j \in 1 .. Len(s.fed) : s.fed[j] \in Nat
  <2>1. s.fed \in Seq(RecordNo) /\ Len(s.fed) \in Nat BY <1>1, SessionFields
  <2>2. \A j \in 1 .. Len(s.fed) : s.fed[j] \in RecordNo BY <2>1
  <2> QED BY <2>1, <2>2 DEF RecordNo
<1>3. Len(owner) \in Nat /\ DOMAIN owner = 1 .. Len(owner) BY <1>1
<1>4. CASE Len(s.fed) = 0
  <2>1. s.last = 0 /\ s.gaps = 0 BY <1>1, <1>4 DEF FedRight
  <2>2. \A r \in Own(s) : r \in Nat BY <1>1, <1>3 DEF Mine
  <2>3. missing = {} /\ leading = {} BY <2>1, <2>2
  <2>4. missing \ leading = {} BY <2>3
  <2>5. Cardinality({}) = 0 BY FS_EmptySet
  <2> HIDE DEF missing, leading
  <2> QED BY <2>1, <2>3, <2>4, <2>5 DEF s, missing, leading
<1>5. CASE Len(s.fed) > 0
  <2>1. 1 \in 1 .. Len(s.fed) /\ Len(s.fed) \in 1 .. Len(s.fed) BY <1>2, <1>5
  <2>2. s.last = s.fed[Len(s.fed)] /\ s.last \in FedSet(s) /\ first \in FedSet(s)
        /\ s.last \in Nat /\ first \in Nat
    <3>1. s.last = s.fed[Len(s.fed)] BY <1>1, <1>5 DEF FedRight
    <3> QED BY <1>2, <2>1, <3>1 DEF FedSet
  <2>3. \A f \in FedSet(s) : f \in Own(s) /\ f \in Nat /\ first <= f /\ f <= s.last
    <3> SUFFICES ASSUME NEW j \in 1 .. Len(s.fed)
                 PROVE  s.fed[j] \in Own(s) /\ s.fed[j] \in Nat /\ first <= s.fed[j]
                        /\ s.fed[j] <= s.last
      BY <1>2 DEF FedSet
    <3>1. s.fed[j] \in Own(s) /\ s.fed[j] \in Nat BY <1>1, <1>2 DEF FedRight
    <3>2. first <= s.fed[j]
      <4>1. CASE j = 1 BY <2>2, <4>1
      <4>2. CASE j > 1 BY <1>1, <2>1, <2>2, <3>1, <4>2 DEF FedRight
      <4> QED BY <4>1, <4>2
    <3>3. s.fed[j] <= s.last
      <4>1. CASE j = Len(s.fed) BY <2>2, <4>1
      <4>2. CASE j < Len(s.fed)
        <5>1. s.fed[j] < s.fed[Len(s.fed)] BY <1>1, <2>1, <4>2 DEF FedRight
        <5> QED BY <2>2, <3>1, <5>1
      <4> QED BY <1>2, <4>1, <4>2
    <3> QED BY <3>1, <3>2, <3>3
  <2>4. ASSUME NEW r \in first .. s.last, r \notin FedSet(s) PROVE r \in missing \ leading
    <3>1. r \in Nat /\ r # first /\ r # s.last BY <2>2, <2>4
    <3>2. first < r /\ r < s.last BY <2>2, <2>4, <3>1
    <3>3. first \in Own(s) /\ s.last \in Own(s) BY <2>2, <2>3
    <3>4. /\ first \in 1 .. Len(owner) /\ s.last \in 1 .. Len(owner)
          /\ owner[first] = s.id /\ owner[s.last] = s.id
      BY <1>1, <1>3, <3>3 DEF Mine
    <3>5. r \in 1 .. Len(owner) BY <1>3, <3>1, <3>2, <3>4
    <3>6. owner[r] = s.id
      <4> HIDE DEF first
      <4>1. owner[first] = owner[s.last] BY <3>4
      <4>2. owner[r] = owner[first] BY <1>1, <3>2, <3>4, <3>5, <4>1
      <4> QED BY <3>4, <4>2
    <3>7. r \in Own(s) BY <1>1, <1>3, <3>5, <3>6 DEF Mine
    <3>8. ~(r < first) BY <2>2, <3>1, <3>2
    <3> QED BY <2>2, <2>4, <3>2, <3>7, <3>8
  <2>5. ASSUME NEW r \in missing \ leading PROVE r \in (first .. s.last) \ FedSet(s)
    <3>1. r \in Own(s) /\ r < s.last /\ r \notin FedSet(s) BY <2>5
    <3>2. r \in Nat BY <1>1, <1>3, <3>1 DEF Mine
    <3>3. PICK f \in FedSet(s) : ~(r < f) BY <2>5
    <3>4. first <= r BY <2>2, <2>3, <3>2, <3>3
    <3> QED BY <2>2, <3>1, <3>2, <3>4
  <2>6. missing \ leading = (first .. s.last) \ FedSet(s) BY <2>4, <2>5
  <2>7. s.gaps = Cardinality((first .. s.last) \ FedSet(s)) BY <1>1, <1>5 DEF FedRight
  <2>8. ASSUME leading # {} PROVE s.unread > 0
    <3>1. PICK r \in leading : TRUE BY <2>8
    <3>2. r \in Own(s) /\ r < first BY <2>2, <3>1
    <3> QED BY <1>1, <1>5, <3>2 DEF FedRight
  <2> HIDE DEF missing, leading, first
  <2>9. s.gaps = Cardinality(missing \ leading) BY <2>6, <2>7
  <2> QED BY <2>8, <2>9 DEF missing, leading, s
<1> QED BY <1>2, <1>4, <1>5

\* Whatever the chunks, the retention and the other callers: what an undisturbed
\* session object is fed are its native session's records, once each, in the order the
\* engine wrote them, and none is missing before the last but what the cap removed
\* unread (collectTraceSessionAccess, DrainTraceSessionStreamLocked).
THEOREM DrainsAreExact == Spec => []DrainExact
<1>1. Init => DrainInv BY DrainInitially
<1>2. DrainInv /\ [Next]_vars => DrainInv' BY StepKeepsDrains
<1>3. DrainInv => DrainExact BY RightIsExact
<1> QED BY <1>1, <1>2, <1>3, PTL DEF Spec

\* Nor is a loss silent: access_sequence_gaps counts the records missing between those
\* fed, and one missing before the first shows in evicted_unread_access_segments.
THEOREM LossIsNotSilent == Spec => []NoSilentLoss
<1>1. Init => DrainInv BY DrainInitially
<1>2. DrainInv /\ [Next]_vars => DrainInv' BY StepKeepsDrains
<1>3. DrainInv => NoSilentLoss BY RightIsNotSilent
<1> QED BY <1>1, <1>2, <1>3, PTL DEF Spec
=============================================================================
