---------------------------- MODULE AnswersProofs ----------------------------
(***************************************************************************)
(* The tools that answer from what is stored or was recorded. A search and *)
(* a comparison, page by page: exactly the rows asked for. A listing walked*)
(* while its rows change: nothing twice and nothing left out. A trace or   *)
(* coverage capture: rows, event, counts, ranges, edges and blocks that are*)
(* true of its window.                                                     *)
(***************************************************************************)
EXTENDS Searches, Listings, TraceCapture, ListLemmas, FiniteSetTheorems, TLAPS

(***************************************************************************)
(* Searches and differences. A page, and what a walk has listed so far.    *)
(***************************************************************************)
Shifted(page, start) == [i \in DOMAIN page |-> start + page[i]]

UpTo(offsets, bound) == {o \in offsets : o < bound}

\* The rows of some offsets.
RowsAt(start, offsets) == {start + o : o \in offsets}

SnapshotType == [bytes : Seq(Byte), start : Nat, known : BOOLEAN, rom : {0, 1}]

EnumerationType ==
  [kind : {"none", "search", "diff"}, query : SearchQueries \cup DiffQueries \cup {Unset},
   before : Nat, after : Nat, offset : Nat, start : Nat, length : Nat, order : Order,
   listed : Seq(Int), resume : Nat, state : {"idle", "open", "done", "refused"}]

\* The walk has listed the offsets it is past, and all of them when it is done.
Enumerated(w, offsets) ==
  /\ Ascending(w.listed)
  /\ w.state = "open" => ToSet(w.listed) = RowsAt(w.start, UpTo(offsets, w.resume))
  /\ w.state = "done" => ToSet(w.listed) = RowsAt(w.start, offsets)

\* The same walk, further on.
Onward(v, w) ==
  /\ v \in EnumerationType /\ v.kind = w.kind /\ v.query = w.query /\ v.before = w.before
  /\ v.after = w.after /\ v.offset = w.offset /\ v.start = w.start /\ v.length = w.length
  /\ v.order = w.order /\ v.state \in {"open", "done"}

\* An ascending list after another whose members are below.
LEMMA AscendingJoins ==
  ASSUME NEW c \in Seq(Int), NEW d \in Seq(Int), Ascending(c), Ascending(d),
         \A x \in ToSet(c), y \in ToSet(d) : x < y
  PROVE  /\ c \o d \in Seq(Int) /\ Ascending(c \o d)
         /\ ToSet(c \o d) = ToSet(c) \cup ToSet(d)
<1> DEFINE e == c \o d
           k == Len(c)
           m == Len(d)
<1>1. /\ k \in Nat /\ DOMAIN c = 1 .. k /\ \A i \in 1 .. k : c[i] \in Int
      /\ m \in Nat /\ DOMAIN d = 1 .. m /\ \A i \in 1 .. m : d[i] \in Int
  BY LenProperties, ElementOfSeq
<1>2. e \in Seq(Int) /\ Len(e) = k + m BY ConcatProperties
<1>3. DOMAIN e = 1 .. k + m BY <1>2, LenProperties
<1>4. \A i \in 1 .. k + m : e[i] = IF i <= k THEN c[i] ELSE d[i - k] BY PlacesInConcat
<1> HIDE DEF e, k, m
<1>5. \A i \in 1 .. k : c[i] \in ToSet(c) BY <1>1 DEF ToSet
<1>6. \A i \in 1 .. m : d[i] \in ToSet(d) BY <1>1 DEF ToSet
<1>7. \A i \in 1 .. k + m : i <= k \/ i - k \in 1 .. m BY <1>1
<1>8. \A i \in 1 .. k + m : i <= k => i \in 1 .. k BY <1>1
<1>9. ASSUME NEW i \in 1 .. k + m, NEW j \in 1 .. k + m, i < j PROVE e[i] < e[j]
  <2>1. CASE j <= k
    <3>1. i <= k /\ i \in DOMAIN c /\ j \in DOMAIN c BY <1>1, <1>9, <2>1
    <3>2. c[i] < c[j] BY <1>9, <3>1 DEF Ascending
    <3> QED BY <1>4, <2>1, <3>1, <3>2
  <2>2. CASE i <= k /\ ~(j <= k)
    <3>1. c[i] \in ToSet(c) /\ d[j - k] \in ToSet(d) BY <1>5, <1>6, <1>7, <1>8, <2>2
    <3>2. c[i] < d[j - k] BY <3>1
    <3> QED BY <1>4, <2>2, <3>2
  <2>3. CASE ~(i <= k)
    <3>1. ~(j <= k) /\ i - k \in DOMAIN d /\ j - k \in DOMAIN d /\ i - k < j - k
      BY <1>1, <1>7, <1>9, <2>3
    <3>2. d[i - k] < d[j - k] BY <3>1 DEF Ascending
    <3> QED BY <1>4, <2>3, <3>1, <3>2
  <2> QED BY <2>1, <2>2, <2>3
<1>10. Ascending(e) BY <1>3, <1>9 DEF Ascending
<1>11. ToSet(e) = ToSet(c) \cup ToSet(d)
  <2>1. ASSUME NEW i \in 1 .. k + m PROVE e[i] \in ToSet(c) \cup ToSet(d)
    BY <1>4, <1>5, <1>6, <1>7, <1>8
  <2>2. ASSUME NEW i \in 1 .. k PROVE c[i] \in ToSet(e)
    <3>1. i \in DOMAIN e /\ i \in 1 .. k + m /\ i <= k BY <1>1, <1>3
    <3>2. e[i] = c[i] BY <1>4, <3>1
    <3> QED BY <3>1, <3>2 DEF ToSet
  <2>3. ASSUME NEW i \in 1 .. m PROVE d[i] \in ToSet(e)
    <3>1. k + i \in DOMAIN e /\ k + i \in 1 .. k + m /\ ~(k + i <= k) /\ (k + i) - k = i
      BY <1>1, <1>3
    <3>2. e[k + i] = d[i] BY <1>4, <3>1
    <3> QED BY <3>1, <3>2 DEF ToSet
  <2>4. ToSet(e) \subseteq ToSet(c) \cup ToSet(d) BY <1>3, <2>1 DEF ToSet
  <2>5. ToSet(c) \subseteq ToSet(e) BY <1>1, <2>2 DEF ToSet
  <2>6. ToSet(d) \subseteq ToSet(e) BY <1>1, <2>3 DEF ToSet
  <2> QED BY <2>4, <2>5, <2>6
<1> QED BY <1>2, <1>10, <1>11 DEF e

\* The first k of some offsets in order, shifted.
Paged(page, k, R, start) ==
  /\ Shifted(page, start) \in Seq(Int) /\ Ascending(Shifted(page, start)) /\ Len(page) = k
  /\ k = Len(Ascend(R)) => page = Ascend(R) /\ ToSet(Shifted(page, start)) = RowsAt(start, R)
  /\ k > 0 => /\ page[k] \in R
              /\ ToSet(Shifted(page, start)) = RowsAt(start, UpTo(R, page[k] + 1))

LEMMA PageRows ==
  ASSUME NEW R, R \subseteq Nat, IsFiniteSet(R), NEW start \in Nat, NEW k \in Nat,
         k <= Len(Ascend(R)), NEW page, page = SubSeq(Ascend(R), 1, k)
  PROVE  Paged(page, k, R, start)
<1> DEFINE f == Ascend(R)
           n == Len(f)
           g == Shifted(page, start)
<1>0. page = SubSeq(f, 1, k) OBVIOUS
<1>1. /\ f \in Seq(R) /\ n \in Nat /\ \A i \in 1 .. n : f[i] \in R
      /\ \A i, j \in 1 .. n : i < j => f[i] < f[j]
      /\ \A x \in R : \E i \in 1 .. n : f[i] = x
  <2>1. R \subseteq Int OBVIOUS
  <2> QED BY <2>1, AscendFacts
<1>2. k <= n OBVIOUS
<1> HIDE DEF f, n
<1>3. page \in Seq(R) /\ Len(page) = k /\ \A i \in 1 .. k : page[i] = f[i]
  <2>1. \A i \in 1 .. k : f[i] \in R BY <1>1, <1>2
  <2>2. /\ page \in Seq(R) /\ Len(page) = IF 1 <= k THEN k - 1 + 1 ELSE 0
        /\ \A i \in 1 .. k - 1 + 1 : page[i] = f[1 + i - 1]
    BY <1>0, <2>1, SubSeqProperties
  <2>3. \A i \in 1 .. k : i \in 1 .. k - 1 + 1 /\ 1 + i - 1 = i OBVIOUS
  <2> QED BY <2>2, <2>3
<1>4. DOMAIN page = 1 .. k BY <1>3, LenProperties
<1>5. k = n => page = f
  <2>1. f \in Seq(R) /\ n = Len(f) BY <1>1 DEF n
  <2> QED BY <1>0, <2>1, SubSeqFull
<1> HIDE DEF g
<1>6. g = [i \in 1 .. k |-> start + f[i]]
  <2>1. g = [i \in 1 .. k |-> start + page[i]] BY <1>4 DEF Shifted, g
  <2>2. \A i \in 1 .. k : start + page[i] = start + f[i] BY <1>3
  <2> QED BY <2>1, <2>2
<1>7. \A i \in 1 .. k : f[i] \in R /\ f[i] \in Nat /\ start + f[i] \in Int
  <2>1. \A i \in 1 .. k : i \in 1 .. n BY <1>1, <1>2
  <2>2. \A i \in 1 .. k : f[i] \in R BY <1>1, <2>1
  <2>3. \A o \in R : o \in Nat /\ start + o \in Int OBVIOUS
  <2> QED BY <2>2, <2>3
<1>8. g \in Seq(Int) /\ DOMAIN g = 1 .. k /\ \A i \in 1 .. k : g[i] = start + f[i]
  <2>1. g \in [1 .. k -> Int] BY <1>6, <1>7
  <2> QED BY <1>6, <2>1
<1>9. Ascending(g)
  <2> SUFFICES ASSUME NEW i \in 1 .. k, NEW j \in 1 .. k, i < j PROVE g[i] < g[j]
    BY <1>8 DEF Ascending
  <2>1. f[i] < f[j] BY <1>1, <1>2
  <2> QED BY <1>7, <1>8, <2>1
<1>10. ToSet(g) = {start + f[i] : i \in 1 .. k} BY <1>8 DEF ToSet
<1>11. ASSUME k = n PROVE ToSet(g) = RowsAt(start, R)
  <2>1. \A i \in 1 .. k : start + f[i] \in RowsAt(start, R) BY <1>7 DEF RowsAt
  <2>2. \A x \in R : \E i \in 1 .. k : f[i] = x BY <1>1, <1>11
  <2>3. RowsAt(start, R) \subseteq {start + f[i] : i \in 1 .. k} BY <2>2 DEF RowsAt
  <2> QED BY <1>10, <2>1, <2>3
<1>12. ASSUME k > 0
       PROVE  page[k] \in R /\ ToSet(g) = RowsAt(start, UpTo(R, page[k] + 1))
  <2> DEFINE P == UpTo(R, page[k] + 1)
  <2> USE DEF UpTo
  <2>1. k \in 1 .. k /\ page[k] = f[k] /\ f[k] \in R BY <1>3, <1>7, <1>12
  <2>2. ASSUME NEW i \in 1 .. k PROVE f[i] \in P
    <3>1. f[i] \in R /\ f[i] \in Nat /\ f[k] \in Nat BY <1>7, <2>1
    <3>2. f[i] <= f[k]
      <4>1. CASE i = k BY <3>1, <4>1
      <4>2. CASE i < k BY <1>1, <1>2, <2>1, <3>1, <4>2
      <4> QED BY <4>1, <4>2
    <3> QED BY <2>1, <3>1, <3>2
  <2>3. ASSUME NEW o \in P PROVE \E i \in 1 .. k : f[i] = o
    <3>1. PICK i \in 1 .. n : f[i] = o BY <1>1
    <3>2. o \in Nat /\ f[k] \in Nat /\ o < f[k] + 1 BY <1>7, <2>1
    <3>3. ~(k < i)
      <4> SUFFICES ASSUME k < i PROVE FALSE OBVIOUS
      <4>1. k \in 1 .. n BY <1>1, <1>2, <2>1
      <4>2. f[k] < f[i] BY <1>1, <4>1
      <4> QED BY <3>1, <3>2, <4>2
    <3> QED BY <1>1, <3>1, <3>3
  <2> HIDE DEF P
  <2>4. \A i \in 1 .. k : start + f[i] \in RowsAt(start, P) BY <2>2 DEF RowsAt
  <2>5. RowsAt(start, P) \subseteq {start + f[i] : i \in 1 .. k} BY <2>3 DEF RowsAt
  <2>6. ToSet(g) = RowsAt(start, P) BY <1>10, <2>4, <2>5
  <2> QED BY <2>1, <2>6 DEF P
<1> QED BY <1>3, <1>5, <1>8, <1>9, <1>11, <1>12 DEF f, n, g, Paged

LEMMA RowsJoin ==
  ASSUME NEW start, NEW A, NEW B
  PROVE  RowsAt(start, A) \cup RowsAt(start, B) = RowsAt(start, A \cup B)
<1>1. \A x : x \in RowsAt(start, A \cup B) <=> x \in RowsAt(start, A) \/ x \in RowsAt(start, B)
  BY DEF RowsAt
<1> QED BY <1>1

LEMMA PageKeeps ==
  ASSUME NEW offsets, offsets \subseteq Nat, IsFiniteSet(offsets), NEW w \in EnumerationType
  PROVE  /\ Onward(Page(offsets, w), w)
         /\ Ascending(w.listed)
            /\ ToSet(w.listed) = RowsAt(w.start, UpTo(offsets, w.resume))
              => Enumerated(Page(offsets, w), offsets)
<1> DEFINE R == {o \in offsets : o >= w.resume}
           rest == Ascend(R)
           n == Len(rest)
<1>1. R \subseteq Nat /\ R \subseteq Int /\ IsFiniteSet(R)
  <2>1. R \in SUBSET offsets OBVIOUS
  <2> HIDE DEF R
  <2>2. IsFiniteSet(R) BY <2>1, FS_Subset
  <2>3. R \subseteq Nat BY <2>1
  <2> QED BY <2>2, <2>3
<1>2. /\ w.resume \in Nat /\ w.start \in Nat /\ w.listed \in Seq(Int) /\ InlineLimit \in Nat \ {0}
  BY SearchesAssumption DEF EnumerationType
<1>3. n \in Nat BY <1>1, AscendFacts
<1> HIDE DEF R, n
<1>4. ASSUME NEW k \in Nat, k <= n, NEW page, page = SubSeq(rest, 1, k),
             NEW more, more = Shifted(page, w.start)
      PROVE  /\ w.listed \o more \in Seq(Int) /\ Len(page) = k
             /\ k = n => page = rest
             /\ k > 0 => page[k] \in Nat
             /\ Ascending(w.listed)
                /\ ToSet(w.listed) = RowsAt(w.start, UpTo(offsets, w.resume))
                  => /\ Ascending(w.listed \o more)
                     /\ k = n => ToSet(w.listed \o more) = RowsAt(w.start, offsets)
                     /\ k > 0 => ToSet(w.listed \o more)
                                  = RowsAt(w.start, UpTo(offsets, page[k] + 1))
  <2> DEFINE U == UpTo(offsets, w.resume)
             V == UpTo(R, page[k] + 1)
  <2>1. /\ more \in Seq(Int) /\ Ascending(more) /\ Len(page) = k
        /\ k = n => page = rest /\ ToSet(more) = RowsAt(w.start, R)
        /\ k > 0 => page[k] \in R /\ ToSet(more) = RowsAt(w.start, V)
    <3>1. k <= Len(Ascend(R)) BY <1>4 DEF n
    <3>2. w.start \in Nat /\ R \subseteq Nat /\ IsFiniteSet(R) BY <1>1, <1>2
    <3>3. k \in Nat /\ page = SubSeq(Ascend(R), 1, k) BY <1>4
    <3>4. Paged(page, k, R, w.start) BY ONLY <3>1, <3>2, <3>3, PageRows
    <3> QED BY <1>4, <3>4 DEF n, Paged
  <2>2. w.listed \o more \in Seq(Int) BY <1>2, <2>1, ConcatProperties
  <2>3. k > 0 => page[k] \in Nat BY <1>1, <2>1
  <2>4. ASSUME Ascending(w.listed), ToSet(w.listed) = RowsAt(w.start, U)
        PROVE  /\ Ascending(w.listed \o more)
               /\ k = n => ToSet(w.listed \o more) = RowsAt(w.start, offsets)
               /\ k > 0 => ToSet(w.listed \o more) = RowsAt(w.start, UpTo(offsets, page[k] + 1))
    <3>1. ToSet(more) \subseteq RowsAt(w.start, R)
      <4>1. CASE k > 0
        <5>1. V \subseteq R BY DEF UpTo
        <5> QED BY <2>1, <4>1, <5>1 DEF RowsAt
      <4>2. CASE ~(k > 0)
        <5>1. Len(page) = 0 /\ page = <<>>
          <6>1. k = 0 BY <4>2
          <6> QED BY <1>4, <2>1, <6>1, SubSeqEmpty
        <5>2. more = <<>> BY <1>4, <5>1 DEF Shifted
        <5> QED BY <5>2 DEF ToSet
      <4> QED BY <4>1, <4>2
    <3>2. \A x \in ToSet(w.listed), y \in ToSet(more) : x < y
      <4> SUFFICES ASSUME NEW x \in ToSet(w.listed), NEW y \in ToSet(more) PROVE x < y
        OBVIOUS
      <4>1. PICK o \in U : x = w.start + o BY <2>4 DEF RowsAt
      <4>2. PICK q \in R : y = w.start + q BY <3>1 DEF RowsAt
      <4>3. o \in Nat /\ o < w.resume BY <1>1 DEF UpTo
      <4>4. q \in Nat /\ q >= w.resume BY <1>1 DEF R
      <4> QED BY <1>2, <4>1, <4>2, <4>3, <4>4
    <3>3. Ascending(w.listed \o more) /\ ToSet(w.listed \o more) = ToSet(w.listed) \cup ToSet(more)
      BY <1>2, <2>1, <2>4, <3>2, AscendingJoins
    <3>4. \A A, B : RowsAt(w.start, A) \cup RowsAt(w.start, B) = RowsAt(w.start, A \cup B)
      <4> SUFFICES ASSUME NEW A, NEW B
                   PROVE  RowsAt(w.start, A) \cup RowsAt(w.start, B) = RowsAt(w.start, A \cup B)
        OBVIOUS
      <4> QED BY RowsJoin
    <3>5. U \cup R = offsets
      <4>1. \A o \in offsets : o < w.resume \/ o >= w.resume BY <1>2
      <4>2. \A o : o \in U \cup R <=> o \in offsets BY <4>1 DEF R, UpTo
      <4> QED BY <4>2
    <3>6. ASSUME k > 0 PROVE U \cup V = UpTo(offsets, page[k] + 1)
      <4>1. page[k] \in R /\ page[k] \in Nat /\ page[k] >= w.resume BY <2>1, <2>3, <3>6 DEF R
      <4> DEFINE b == page[k]
      <4>2. b \in Nat /\ b >= w.resume BY <4>1
      <4> HIDE DEF b
      <4>3. \A o \in offsets : o < w.resume \/ (o >= w.resume /\ o < b + 1) <=> o < b + 1
        BY <1>2, <4>2
      <4>4. \A o : o \in U \cup V <=> o \in UpTo(offsets, b + 1)
        BY <4>3 DEF R, UpTo, b
      <4>5. U \cup V = UpTo(offsets, b + 1) BY <4>4
      <4> QED BY <4>5 DEF b
    <3> HIDE DEF U, V
    <3>7. k = n => ToSet(w.listed \o more) = RowsAt(w.start, offsets)
      BY <2>1, <2>4, <3>3, <3>4, <3>5
    <3>8. ASSUME k > 0
          PROVE  ToSet(w.listed \o more) = RowsAt(w.start, UpTo(offsets, page[k] + 1))
      <4>1. ToSet(more) = RowsAt(w.start, V) BY <2>1, <3>8
      <4>2. ToSet(w.listed \o more) = RowsAt(w.start, U \cup V) BY ONLY <2>4, <3>3, <3>4, <4>1
      <4> QED BY <3>6, <3>8, <4>2
    <3> QED BY <3>3, <3>7, <3>8
  <2> QED BY <2>1, <2>2, <2>3, <2>4
<1>5. CASE n > InlineLimit
  <2> DEFINE page == SubSeq(rest, 1, InlineLimit)
             longer == w.listed \o Shifted(page, w.start)
             b == page[InlineLimit] + 1
  <2>1. InlineLimit \in Nat /\ InlineLimit <= n /\ InlineLimit > 0 BY <1>2, <1>3, <1>5
  <2>2. /\ longer \in Seq(Int) /\ Len(page) = InlineLimit /\ page[InlineLimit] \in Nat
        /\ Ascending(w.listed) /\ ToSet(w.listed) = RowsAt(w.start, UpTo(offsets, w.resume))
             => Ascending(longer) /\ ToSet(longer) = RowsAt(w.start, UpTo(offsets, b))
    BY ONLY <1>4, <2>1
  <2>3. b \in Nat /\ Last(page) + 1 = b
    <3> HIDE DEF page
    <3> QED BY <2>2 DEF Last
  <2>4. Page(offsets, w) = [[w EXCEPT !.listed = longer] EXCEPT !.resume = b, !.state = "open"]
    <3>1. Listed(page, w) = [w EXCEPT !.listed = longer] BY DEF Listed, Shifted, EnumerationType
    <3> QED BY <1>5, <2>3, <3>1 DEF Page, R, n
  <2> HIDE DEF longer, b
  <2>5. /\ Onward(Page(offsets, w), w) /\ Page(offsets, w).listed = longer
        /\ Page(offsets, w).resume = b /\ Page(offsets, w).state = "open"
    BY <2>2, <2>3, <2>4 DEF Onward, EnumerationType
  <2> QED BY <2>2, <2>5 DEF Enumerated, Onward
<1>6. CASE ~(n > InlineLimit)
  <2> DEFINE page == SubSeq(rest, 1, n)
             longer == w.listed \o Shifted(rest, w.start)
  <2>1. n <= n BY <1>3
  <2>2. /\ longer \in Seq(Int)
        /\ Ascending(w.listed) /\ ToSet(w.listed) = RowsAt(w.start, UpTo(offsets, w.resume))
             => Ascending(longer) /\ ToSet(longer) = RowsAt(w.start, offsets)
    BY <1>3, <1>4, <2>1
  <2>3. Page(offsets, w) = [[w EXCEPT !.listed = longer] EXCEPT !.state = "done"]
    <3>1. Listed(rest, w) = [w EXCEPT !.listed = longer] BY DEF Listed, Shifted, EnumerationType
    <3> QED BY <1>6, <3>1 DEF Page, R, n
  <2> HIDE DEF longer
  <2>4. /\ Onward(Page(offsets, w), w) /\ Page(offsets, w).listed = longer
        /\ Page(offsets, w).state = "done"
    BY <2>2, <2>3 DEF Onward, EnumerationType
  <2> QED BY <2>2, <2>4 DEF Enumerated, Onward
<1> QED BY <1>5, <1>6

(***************************************************************************)
(* The walks. Which snapshots a walk is about, and what it holds.          *)
(***************************************************************************)
SearchOffsets(store, w) ==
  findPatternMatches(Window(store[w.before], w.offset, w.length), w.query.pattern, w.query.alignment)

DifferingOffsets(store, w) ==
  DiffOffsets(store[w.before].bytes, store[w.after].bytes, w.start, w.query, w.order)

FitsSearch(store, w) ==
  /\ w.kind = "search" /\ w.query \in SearchQueries /\ w.before \in 1 .. Len(store)
  /\ w.offset + w.length <= Len(store[w.before].bytes)
  /\ store[w.before].known => w.start = store[w.before].start + w.offset

FitsDiff(store, w) ==
  /\ w.kind = "diff" /\ w.query \in DiffQueries
  /\ w.before \in 1 .. Len(store) /\ w.after \in 1 .. Len(store)
  /\ Len(store[w.before].bytes) = Len(store[w.after].bytes)
  /\ store[w.before].known => w.start = store[w.before].start

SearchHolds(store, w) ==
  w \in EnumerationType /\ FitsSearch(store, w) /\ Enumerated(w, SearchOffsets(store, w))

DiffHolds(store, w) ==
  /\ w \in EnumerationType /\ FitsDiff(store, w)
  /\ store[w.before].known => Enumerated(w, DifferingOffsets(store, w))

SearchesInv ==
  /\ dumps \in Seq(SnapshotType) /\ image \in [Address -> Byte] /\ rom \in {0, 1}
  /\ enumeration \in EnumerationType /\ (enumeration.state = "idle" => enumeration = NoWalkYet)
  /\ enumeration.kind = "search" => SearchHolds(dumps, enumeration)
  /\ enumeration.kind = "diff" => DiffHolds(dumps, enumeration)

LEMMA QueryFacts ==
  /\ \A q \in SearchQueries : /\ q.pattern \in Seq(Byte \cup {Wild}) /\ Len(q.pattern) \in Nat \ {0}
                              /\ q.alignment \in Nat /\ q.start \in Nat \cup {Unset}
                              /\ q.length \in Nat
  /\ \A q \in DiffQueries : /\ q.width \in {1, 2} /\ q.order \in Order \cup {"derived"}
                            /\ q.start \in Nat \cup {Unset} /\ q.misaligned \in BOOLEAN
<1>1. ASSUME NEW q \in SearchQueries PROVE Len(q.pattern) \in Nat \ {0}
  <2>1. q.pattern \in Seq(Byte \cup {Wild}) /\ q.pattern # <<>>
    BY SearchesAssumption DEF WellFormedPattern
  <2> QED BY <2>1, EmptySeq
<1> QED BY <1>1, SearchesAssumption DEF WellFormedPattern

LEMMA SnapshotFacts ==
  ASSUME NEW store \in Seq(SnapshotType), NEW i \in 1 .. Len(store)
  PROVE  /\ store[i] \in SnapshotType /\ store[i].bytes \in Seq(Byte)
         /\ Len(store[i].bytes) \in Nat /\ store[i].start \in Nat /\ store[i].known \in BOOLEAN
         /\ \A j \in 1 .. Len(store[i].bytes) : store[i].bytes[j] \in Int
<1>1. store[i] \in SnapshotType BY ElementOfSeq
<1>2. store[i].bytes \in Seq(Byte) /\ store[i].start \in Nat /\ store[i].known \in BOOLEAN
  BY <1>1 DEF SnapshotType
<1>3. Len(store[i].bytes) \in Nat BY <1>2, LenProperties
<1>4. Byte \subseteq Int BY SearchesAssumption DEF Byte
<1>5. \A j \in 1 .. Len(store[i].bytes) : store[i].bytes[j] \in Byte BY <1>2, ElementOfSeq
<1> QED BY <1>1, <1>2, <1>3, <1>4, <1>5

LEMMA WindowFacts ==
  ASSUME NEW store \in Seq(SnapshotType), NEW w \in EnumerationType, FitsSearch(store, w)
  PROVE  LET data == Window(store[w.before], w.offset, w.length)
         IN /\ Len(data) = w.length
            /\ \A i \in 1 .. w.length : /\ data[i] = store[w.before].bytes[w.offset + i]
                                         /\ w.offset + i \in 1 .. Len(store[w.before].bytes)
<1> DEFINE b == store[w.before].bytes
           m == w.offset
           k == w.length
           data == Window(store[w.before], w.offset, w.length)
<1>1. m \in Nat /\ k \in Nat BY DEF EnumerationType
<1>2. b \in Seq(Byte) /\ Len(b) \in Nat /\ m + k <= Len(b) BY SnapshotFacts DEF FitsSearch
<1>3. data = SubSeq(b, m + 1, m + k) BY DEF Window
<1> HIDE DEF b, m, k, data
<1>4. \A i \in m + 1 .. m + k : b[i] \in Byte
  <2>1. \A i \in m + 1 .. m + k : i \in 1 .. Len(b) BY <1>1, <1>2
  <2> QED BY <1>2, <2>1, ElementOfSeq
<1>5. m + 1 \in Int /\ m + k \in Int BY <1>1
<1>6. /\ Len(data) = IF m + 1 <= m + k THEN ((m + k) - (m + 1)) + 1 ELSE 0
      /\ \A i \in 1 .. ((m + k) - (m + 1)) + 1 : data[i] = b[((m + 1) + i) - 1]
  BY <1>3, <1>4, <1>5, SubSeqProperties
<1>7. ((m + k) - (m + 1)) + 1 = k /\ \A i \in 1 .. k : ((m + 1) + i) - 1 = m + i BY <1>1
<1>8. Len(data) = k BY <1>1, <1>6, <1>7
<1>9. \A i \in 1 .. k : m + i \in 1 .. Len(b) BY <1>1, <1>2
<1> QED BY <1>6, <1>7, <1>8, <1>9 DEF b, m, k, data

LEMMA OffsetsAreFinite ==
  ASSUME NEW n \in Int, NEW P, P \in SUBSET (0 .. n)
  PROVE  P \subseteq Nat /\ IsFiniteSet(P)
<1>1. IsFiniteSet(0 .. n) BY FS_Interval
<1>2. IsFiniteSet(P) BY <1>1, FS_Subset
<1> QED BY <1>2

LEMMA SearchOffsetsFinite ==
  ASSUME NEW store \in Seq(SnapshotType), NEW w \in EnumerationType, FitsSearch(store, w)
  PROVE  SearchOffsets(store, w) \subseteq Nat /\ IsFiniteSet(SearchOffsets(store, w))
<1> DEFINE data == Window(store[w.before], w.offset, w.length)
           n == Len(data) - Len(w.query.pattern)
<1>1. n \in Int
  <2>1. Len(data) = w.length /\ w.length \in Nat BY WindowFacts DEF EnumerationType
  <2>2. Len(w.query.pattern) \in Nat BY QueryFacts DEF FitsSearch
  <2> QED BY <2>1, <2>2
<1>2. SearchOffsets(store, w) \in SUBSET (0 .. n) BY DEF SearchOffsets, findPatternMatches
<1> HIDE DEF n
<1> QED BY <1>1, <1>2, OffsetsAreFinite

(***************************************************************************)
(* Alignment to the width in the address domain, by the first cell and the *)
(* stride and by the address.                                              *)
(***************************************************************************)
LEMMA CellsAligned ==
  ASSUME NEW n \in Nat, NEW start \in Nat, NEW q, q.width \in {1, 2}, q.misaligned \in BOOLEAN
  PROVE  /\ CellOffsets(n, start, q) \subseteq 0 .. n - q.width
         /\ \A o \in 0 .. n - q.width :
              o \in CellOffsets(n, start, q) <=> q.misaligned \/ (start + o) % q.width = 0
<1>1. CASE q.misaligned
  <2>1. CellOffsets(n, start, q) = {o \in 0 .. n - q.width : (o - 0) % 1 = 0} BY <1>1 DEF CellOffsets
  <2>2. \A o \in Int : (o - 0) % 1 = 0 OBVIOUS
  <2> QED BY <1>1, <2>1, <2>2
<1>2. CASE ~q.misaligned /\ q.width = 1
  <2>1. start % 1 = 0 OBVIOUS
  <2>2. CellOffsets(n, start, q) = {o \in 0 .. n - 1 : (o - 0) % 1 = 0}
    BY <1>2, <2>1 DEF CellOffsets
  <2>3. \A o \in Int : (o - 0) % 1 = 0 /\ (start + o) % 1 = 0 OBVIOUS
  <2> QED BY <1>2, <2>2, <2>3
<1>3. CASE ~q.misaligned /\ q.width = 2 /\ start % 2 = 0
  <2>1. CellOffsets(n, start, q) = {o \in 0 .. n - 2 : (o - 0) % 2 = 0} BY <1>3 DEF CellOffsets
  <2>2. \A o \in Int : (o - 0) % 2 = 0 <=> (start + o) % 2 = 0 BY <1>3
  <2> QED BY <1>3, <2>1, <2>2
<1>4. CASE ~q.misaligned /\ q.width = 2 /\ start % 2 # 0
  <2>1. start % 2 = 1 BY <1>4
  <2>2. CellOffsets(n, start, q) = {o \in 2 - 1 .. n - 2 : (o - (2 - 1)) % 2 = 0}
    BY <1>4, <2>1 DEF CellOffsets
  <2>3. \A o \in Int : (o - (2 - 1)) % 2 = 0 <=> (start + o) % 2 = 0 BY <2>1
  <2>4. (start + 0) % 2 # 0 BY <2>1
  <2>5. \A o \in 0 .. n - 2 : o \in 2 - 1 .. n - 2 \/ o = 0 OBVIOUS
  <2>6. 2 - 1 .. n - 2 \subseteq 0 .. n - 2 OBVIOUS
  <2>7. 0 \notin 2 - 1 .. n - 2 OBVIOUS
  <2> QED BY <1>4, <2>2, <2>3, <2>4, <2>5, <2>6, <2>7
<1> QED BY <1>1, <1>2, <1>3, <1>4

LEMMA DifferingFinite ==
  ASSUME NEW store \in Seq(SnapshotType), NEW w \in EnumerationType, FitsDiff(store, w)
  PROVE  DifferingOffsets(store, w) \subseteq Nat /\ IsFiniteSet(DifferingOffsets(store, w))
<1> DEFINE n == Len(store[w.before].bytes)
<1>1. /\ n \in Nat /\ w.start \in Nat /\ w.query.width \in {1, 2}
      /\ w.query.misaligned \in BOOLEAN
  BY SnapshotFacts, QueryFacts DEF FitsDiff, EnumerationType
<1>2. DifferingOffsets(store, w) \subseteq CellOffsets(n, w.start, w.query)
  BY DEF DifferingOffsets, DiffOffsets
<1> HIDE DEF n
<1>3. CellOffsets(n, w.start, w.query) \subseteq 0 .. n - w.query.width BY <1>1, CellsAligned
<1>4. n - w.query.width \in Int BY <1>1
<1>5. DifferingOffsets(store, w) \in SUBSET (0 .. n - w.query.width) BY <1>2, <1>3
<1> QED BY <1>4, <1>5, OffsetsAreFinite

(***************************************************************************)
(* The pages of a walk: the first one, and one after another.              *)
(***************************************************************************)
Fresh(w) == w.listed = <<>> /\ w.resume = 0

LEMMA PageLists ==
  ASSUME NEW offsets, offsets \subseteq Nat, IsFiniteSet(offsets), NEW w \in EnumerationType,
         Fresh(w) \/ (w.state = "open" /\ Enumerated(w, offsets))
  PROVE  Onward(Page(offsets, w), w) /\ Enumerated(Page(offsets, w), offsets)
<1>1. Ascending(w.listed) /\ ToSet(w.listed) = RowsAt(w.start, UpTo(offsets, w.resume))
  <2>1. CASE Fresh(w)
    <3>1. w.listed = <<>> /\ w.resume = 0 BY <2>1 DEF Fresh
    <3>2. Ascending(<<>>) /\ ToSet(<<>>) = {} BY DEF Ascending, ToSet
    <3>3. UpTo(offsets, 0) = {}
      <4>1. \A o \in offsets : ~(o < 0) OBVIOUS
      <4> QED BY <4>1 DEF UpTo
    <3>4. RowsAt(w.start, {}) = {} BY DEF RowsAt
    <3> QED BY <3>1, <3>2, <3>3, <3>4
  <2>2. CASE w.state = "open" /\ Enumerated(w, offsets) BY <2>2 DEF Enumerated
  <2> QED BY <2>1, <2>2
<1> QED BY <1>1, PageKeeps

LEMMA SearchPage ==
  ASSUME NEW store \in Seq(SnapshotType), NEW w \in EnumerationType, FitsSearch(store, w),
         Fresh(w) \/ (w.state = "open" /\ Enumerated(w, SearchOffsets(store, w)))
  PROVE  /\ SearchHolds(store, Page(SearchOffsets(store, w), w))
         /\ Onward(Page(SearchOffsets(store, w), w), w)
<1> DEFINE v == Page(SearchOffsets(store, w), w)
<1>1. Onward(v, w) /\ Enumerated(v, SearchOffsets(store, w)) BY SearchOffsetsFinite, PageLists
<1> HIDE DEF v
<1>2. v \in EnumerationType /\ FitsSearch(store, v) BY <1>1 DEF Onward, FitsSearch
<1>3. SearchOffsets(store, v) = SearchOffsets(store, w) BY <1>1 DEF Onward, SearchOffsets
<1> QED BY <1>1, <1>2, <1>3 DEF SearchHolds, v

LEMMA DiffPage ==
  ASSUME NEW store \in Seq(SnapshotType), NEW w \in EnumerationType, FitsDiff(store, w),
         store[w.before].known =>
           Fresh(w) \/ (w.state = "open" /\ Enumerated(w, DifferingOffsets(store, w)))
  PROVE  DiffHolds(store, Compared(store, w)) /\ Onward(Compared(store, w), w)
<1> DEFINE v == Page(DifferingOffsets(store, w), w)
<1>1. Compared(store, w) = v BY DEF Compared, DifferingOffsets
<1>2. DifferingOffsets(store, w) \subseteq Nat /\ IsFiniteSet(DifferingOffsets(store, w))
  BY DifferingFinite
<1>3. Onward(v, w) BY <1>2, PageKeeps
<1>4. store[w.before].known => Enumerated(v, DifferingOffsets(store, w)) BY <1>2, PageLists
<1> HIDE DEF v
<1>5. v \in EnumerationType /\ FitsDiff(store, v) BY <1>3 DEF Onward, FitsDiff
<1>6. DifferingOffsets(store, v) = DifferingOffsets(store, w) /\ v.before = w.before
  BY <1>3 DEF Onward, DifferingOffsets
<1> QED BY <1>1, <1>3, <1>4, <1>5, <1>6 DEF DiffHolds

LEMMA NewSearch ==
  ASSUME NEW store \in Seq(SnapshotType), NEW q \in SearchQueries, NEW id \in 1 .. Len(store),
         NEW win, win.start \in Nat, win.offset \in Nat, win.length \in Nat,
         win.offset + win.length <= Len(store[id].bytes),
         store[id].known => win.start = store[id].start + win.offset
  PROVE  /\ SearchHolds(store, Searched(q, store, id, win))
         /\ Searched(q, store, id, win).state \in {"open", "done"}
<1> DEFINE w == [NoWalkYet EXCEPT !.kind = "search", !.query = q, !.before = id,
                  !.offset = win.offset, !.start = win.start, !.length = win.length]
<1>1. NoWalkYet \in EnumerationType
  <2>1. <<>> \in Seq(Int) BY EmptySeq
  <2> QED BY <2>1, SearchesAssumption DEF NoWalkYet, EnumerationType
<1>2. id \in Nat BY LenProperties
<1>3. /\ w \in EnumerationType /\ w.kind = "search" /\ w.query = q /\ w.before = id
      /\ w.offset = win.offset /\ w.start = win.start /\ w.length = win.length
      /\ w.listed = NoWalkYet.listed /\ w.resume = NoWalkYet.resume
  BY <1>1, <1>2 DEF EnumerationType
<1>4. NoWalkYet.listed = <<>> /\ NoWalkYet.resume = 0 BY DEF NoWalkYet
<1>5. Searched(q, store, id, win) = Page(SearchOffsets(store, w), w)
  BY <1>3 DEF Searched, SearchOffsets
<1> HIDE DEF w
<1>6. FitsSearch(store, w) /\ Fresh(w) BY <1>3, <1>4 DEF FitsSearch, Fresh
<1>7. SearchHolds(store, Page(SearchOffsets(store, w), w)) /\ Onward(Page(SearchOffsets(store, w), w), w)
  BY <1>3, <1>6, SearchPage
<1> QED BY <1>5, <1>7 DEF Onward

LEMMA NewSnapshot ==
  ASSUME SearchesInv, NEW first \in Nat, NEW n \in Nat, NEW known \in BOOLEAN,
         (first + n) - 1 <= MaxAddress
  PROVE  /\ Dumped(first, n, known) \in SnapshotType /\ Len(Dumped(first, n, known).bytes) = n
         /\ Dumped(first, n, known).start = first /\ Dumped(first, n, known).known = known
<1> DEFINE b == [i \in 1 .. n |-> image[(first + i) - 1]]
<1>1. \A i \in 1 .. n : image[(first + i) - 1] \in Byte
  <2>1. image \in [0 .. MaxAddress -> Byte] /\ MaxAddress \in Nat
    BY SearchesAssumption DEF SearchesInv, Address
  <2>2. \A i \in 1 .. n : (first + i) - 1 \in 0 .. MaxAddress BY <2>1
  <2> QED BY <2>1, <2>2
<1>2. b \in [1 .. n -> Byte] BY <1>1
<1>3. b \in Seq(Byte) /\ Len(b) = n BY <1>2
<1>4. Dumped(first, n, known) = [bytes |-> b, start |-> first, known |-> known, rom |-> rom]
  BY DEF Dumped
<1> HIDE DEF b
<1>5. rom \in {0, 1} BY DEF SearchesInv
<1> QED BY <1>3, <1>4, <1>5 DEF SnapshotType

LEMMA OneMoreSnapshot ==
  ASSUME NEW store \in Seq(SnapshotType), NEW d \in SnapshotType
  PROVE  /\ Append(store, d) \in Seq(SnapshotType) /\ Len(Append(store, d)) = Len(store) + 1
         /\ Len(store) \in Nat /\ Append(store, d)[Len(store) + 1] = d
         /\ \A i \in 1 .. Len(store) : Append(store, d)[i] = store[i]
BY AppendProperties, LenProperties

(***************************************************************************)
(* Every step of the client and of the machine.                            *)
(***************************************************************************)
LEMMA SearchesInitially == SearchesInit => SearchesInv
<1> SUFFICES ASSUME SearchesInit PROVE SearchesInv OBVIOUS
<1> USE DEF SearchesInit, SearchesStart
<1>1. <<>> \in Seq(Int) /\ <<>> \in Seq(SnapshotType) BY EmptySeq
<1>2. NoWalkYet \in EnumerationType
  BY <1>1, SearchesAssumption DEF NoWalkYet, EnumerationType
<1>3. image \in [Address -> Byte] BY SearchesAssumption DEF Byte
<1>4. NoWalkYet.kind = "none" BY DEF NoWalkYet
<1> QED BY <1>1, <1>2, <1>3, <1>4 DEF SearchesInv

\* A step that begins or continues a search, or a comparison.
LEMMA Walks ==
  ASSUME SearchesInv, dumps' \in Seq(SnapshotType), UNCHANGED <<image, rom>>,
         \/ SearchHolds(dumps', enumeration') \/ DiffHolds(dumps', enumeration'),
         enumeration'.state # "idle"
  PROVE  SearchesInv'
<1>1. enumeration' \in EnumerationType BY DEF SearchHolds, DiffHolds
<1>2. CASE SearchHolds(dumps', enumeration')
  <2>1. enumeration'.kind = "search" BY <1>2 DEF SearchHolds, FitsSearch
  <2> QED BY <1>1, <1>2, <2>1 DEF SearchesInv
<1>3. CASE DiffHolds(dumps', enumeration')
  <2>1. enumeration'.kind = "diff" BY <1>3 DEF DiffHolds, FitsDiff
  <2> QED BY <1>1, <1>3, <2>1 DEF SearchesInv
<1> QED BY <1>2, <1>3

LEMMA Refused ==
  ASSUME SearchesInv, UNCHANGED <<image, rom, dumps>>, enumeration' = Reject
  PROVE  SearchesInv'
<1>1. enumeration \in EnumerationType BY DEF SearchesInv
<1>2. Onward([enumeration' EXCEPT !.state = "done"], enumeration) /\ enumeration'.state = "refused"
      /\ enumeration' \in EnumerationType
      /\ enumeration'.listed = enumeration.listed
  BY <1>1 DEF Reject, Onward, EnumerationType
<1>3. /\ enumeration'.kind = enumeration.kind /\ enumeration'.query = enumeration.query
      /\ enumeration'.before = enumeration.before /\ enumeration'.after = enumeration.after
      /\ enumeration'.offset = enumeration.offset /\ enumeration'.start = enumeration.start
      /\ enumeration'.length = enumeration.length /\ enumeration'.order = enumeration.order
  BY <1>1 DEF Reject, EnumerationType
<1>4. enumeration'.kind = "search" => SearchHolds(dumps', enumeration')
  BY <1>2, <1>3 DEF SearchesInv, SearchHolds, FitsSearch, Enumerated
<1>5. enumeration'.kind = "diff" => DiffHolds(dumps', enumeration')
  BY <1>2, <1>3 DEF SearchesInv, DiffHolds, FitsDiff, Enumerated
<1> QED BY <1>2, <1>4, <1>5 DEF SearchesInv

LEMMA DumpKeeps ==
  ASSUME SearchesInv, NEW first \in Address, NEW known \in BOOLEAN, Dump(first, DumpCap, known)
  PROVE  SearchesInv'
<1>1. first \in Nat /\ DumpCap \in Nat /\ (first + DumpCap) - 1 <= MaxAddress
  BY SearchesAssumption DEF Dump, Address
<1>2. Dumped(first, DumpCap, known) \in SnapshotType BY <1>1, NewSnapshot
<1>3. dumps \in Seq(SnapshotType) BY DEF SearchesInv
<1>4. dumps' = Append(dumps, Dumped(first, DumpCap, known)) BY DEF Dump
<1>5. dumps' \in Seq(SnapshotType) BY <1>2, <1>3, <1>4, OneMoreSnapshot
<1>6. enumeration' = NoWalkYet /\ UNCHANGED <<image, rom, enumeration>>
  BY DEF Dump, SearchesInv
<1>7. NoWalkYet.kind = "none" BY DEF NoWalkYet
<1> QED BY <1>5, <1>6, <1>7 DEF SearchesInv

LEMMA SearchFreshKeeps ==
  ASSUME SearchesInv, NEW q \in SearchQueries, SearchFresh(q)
  PROVE  SearchesInv'
<1> DEFINE win == FreshWindow(q.start, q.length)
           d == Dumped(win.start, win.length, TRUE)
<1>1. /\ win.start \in Nat /\ win.offset = 0 /\ win.length \in Nat
      /\ (win.start + win.length) - 1 <= MaxAddress
  <2>1. q.start \in Nat \cup {Unset} /\ q.length \in Nat /\ DumpCap \in Nat
    BY QueryFacts, SearchesAssumption
  <2>2. win.start + (win.length - 1) <= MaxAddress BY DEF SearchFresh
  <2>3. win.start \in Nat /\ win.offset = 0 /\ win.length \in Nat BY <2>1 DEF FreshWindow
  <2> HIDE DEF win
  <2>4. (win.start + win.length) - 1 <= MaxAddress BY <2>2, <2>3, SearchesAssumption
  <2> QED BY <2>3, <2>4
<1>2. /\ dumps' = Append(dumps, d) /\ UNCHANGED <<image, rom>>
      /\ enumeration' = Searched(q, dumps', Len(dumps'), win)
  BY DEF SearchFresh, Step
<1> HIDE DEF win
<1>3. d \in SnapshotType /\ Len(d.bytes) = win.length /\ d.start = win.start
  <2>1. \A first, n \in Nat, known \in BOOLEAN : (first + n) - 1 <= MaxAddress =>
          /\ Dumped(first, n, known) \in SnapshotType /\ Len(Dumped(first, n, known).bytes) = n
          /\ Dumped(first, n, known).start = first
    BY NewSnapshot
  <2> QED BY ONLY ZenonT(60), <1>1, <2>1
<1>4. dumps \in Seq(SnapshotType) BY DEF SearchesInv
<1> HIDE DEF d
<1>5. /\ dumps' \in Seq(SnapshotType) /\ Len(dumps') = Len(dumps) + 1 /\ Len(dumps) \in Nat
      /\ dumps'[Len(dumps) + 1] = d
  BY <1>2, <1>3, <1>4, OneMoreSnapshot
<1>6. Len(dumps') \in 1 .. Len(dumps') /\ dumps'[Len(dumps')] = d BY <1>5
<1>7. win.offset \in Nat /\ win.offset + win.length <= Len(dumps'[Len(dumps')].bytes)
      /\ win.start = dumps'[Len(dumps')].start + win.offset
  BY <1>1, <1>3, <1>6
<1>8. SearchHolds(dumps', enumeration') /\ enumeration'.state \in {"open", "done"}
  BY <1>1, <1>2, <1>5, <1>6, <1>7, NewSearch
<1> QED BY <1>2, <1>5, <1>8, Walks

LEMMA SearchSnapshotKeeps ==
  ASSUME SearchesInv, NEW q \in SearchQueries, NEW id \in DOMAIN dumps, SearchSnapshot(q, id)
  PROVE  SearchesInv'
<1> DEFINE s == dumps[id]
<1>1. dumps \in Seq(SnapshotType) /\ id \in 1 .. Len(dumps) BY LenProperties DEF SearchesInv
<1>2. s.bytes \in Seq(Byte) /\ Len(s.bytes) \in Nat /\ s.start \in Nat /\ s.known \in BOOLEAN
  BY <1>1, SnapshotFacts
<1>3. q.start \in Nat \cup {Unset} /\ q.length \in Nat BY QueryFacts
<1>4. ASSUME NEW win, win.start \in Nat, win.offset \in Nat, win.length \in Nat,
             win.offset + win.length <= Len(s.bytes),
             s.known => win.start = s.start + win.offset,
             Step(Searched(q, dumps, id, win))
      PROVE  SearchesInv'
  <2>1. enumeration' = Searched(q, dumps, id, win) /\ UNCHANGED <<image, rom, dumps>>
    BY <1>4 DEF Step, SearchSnapshot
  <2>2. SearchHolds(dumps, enumeration') /\ enumeration'.state \in {"open", "done"}
    BY <1>1, <1>4, <2>1, NewSearch
  <2> QED BY <1>1, <2>1, <2>2, Walks
<1>5. CASE Step(Reject)
  <2>1. enumeration' = Reject /\ UNCHANGED <<image, rom, dumps>> BY <1>5 DEF Step, SearchSnapshot
  <2> QED BY <2>1, Refused
<1>6. CASE s.known /\ Captured(s, q.start, q.length)
            /\ Step(Searched(q, dumps, id, Narrowed(s, q.start, q.length)))
  <2> DEFINE win == Narrowed(s, q.start, q.length)
             first == IF q.start = Unset THEN s.start ELSE q.start
             n == Len(s.bytes)
  <2>1. /\ win.start = first /\ win.offset = first - s.start
        /\ win.length = IF q.length = 0 THEN (s.start + n) - first ELSE q.length
    BY DEF Narrowed
  <2>2. first \in s.start .. (s.start + n) - 1 /\ q.length <= (s.start + n) - first
    BY <1>6 DEF Captured
  <2>3. first \in Int BY <1>2, <1>3
  <2> HIDE DEF win, first, n
  <2>4. n \in Nat /\ s.start \in Nat BY <1>2 DEF n
  <2>5. /\ win.start \in Nat /\ win.offset \in Nat /\ win.length \in Nat
        /\ win.offset + win.length <= n /\ win.start = s.start + win.offset
    BY <1>3, <2>1, <2>2, <2>3, <2>4
  <2> QED BY <1>4, <1>6, <2>5 DEF win, n
<1>7. CASE ~s.known /\ Step(Searched(q, dumps, id, Legacy(s, q.start)))
  <2> DEFINE win == Legacy(s, q.start)
  <2>1. /\ win.start = IF q.start = Unset THEN 0 ELSE q.start
        /\ win.offset = 0 /\ win.length = Len(s.bytes)
    BY DEF Legacy
  <2> HIDE DEF win
  <2>2. win.start \in Nat /\ win.offset \in Nat /\ win.length \in Nat
        /\ win.offset + win.length <= Len(s.bytes)
    BY <1>2, <1>3, <2>1
  <2> QED BY <1>4, <1>7, <2>2 DEF win
<1> QED BY <1>2, <1>5, <1>6, <1>7 DEF SearchSnapshot

LEMMA NextSearchKeeps ==
  ASSUME SearchesInv, NextSearch
  PROVE  SearchesInv'
<1>1. /\ dumps \in Seq(SnapshotType) /\ enumeration \in EnumerationType
      /\ enumeration.kind = "search" /\ enumeration.state = "open"
      /\ FitsSearch(dumps, enumeration) /\ Enumerated(enumeration, SearchOffsets(dumps, enumeration))
  BY DEF SearchesInv, NextSearch, SearchHolds
<1>2. enumeration' = Page(SearchOffsets(dumps, enumeration), enumeration)
      /\ UNCHANGED <<image, rom, dumps>>
  BY DEF NextSearch, SearchOffsets, Step
<1>3. SearchHolds(dumps, enumeration') /\ Onward(enumeration', enumeration)
  BY <1>1, <1>2, SearchPage
<1> QED BY <1>1, <1>2, <1>3, Walks DEF Onward

LEMMA FirstDiffKeeps ==
  ASSUME SearchesInv, NEW q \in DiffQueries, NEW before \in DOMAIN dumps, NEW after \in 1 .. MaxDumps,
         FirstDiff(q, before, after)
  PROVE  SearchesInv'
<1> DEFINE start == Anchor(dumps[before], q.start)
           w == [NoWalkYet EXCEPT !.kind = "diff", !.query = q, !.before = before, !.after = after,
                   !.start = start, !.order = EffectiveOrder(dumps[before], q.order)]
           n == Len(dumps[before].bytes)
           d == Dumped(start, n, TRUE)
<1>1. dumps \in Seq(SnapshotType) /\ before \in 1 .. Len(dumps) /\ Len(dumps) \in Nat
  BY LenProperties DEF SearchesInv
<1>2. n \in Nat /\ dumps[before].start \in Nat /\ dumps[before].known \in BOOLEAN
  BY <1>1, SnapshotFacts
<1>3. q.start \in Nat \cup {Unset} /\ q.order \in Order \cup {"derived"} BY QueryFacts
<1>4. start \in Nat /\ (dumps[before].known => start = dumps[before].start)
  BY <1>2, <1>3 DEF Anchor
<1>5. EffectiveOrder(dumps[before], q.order) \in Order
  BY <1>3, SearchesAssumption DEF EffectiveOrder, Order
<1> HIDE DEF start
<1>6. NoWalkYet \in EnumerationType
  <2>1. <<>> \in Seq(Int) BY EmptySeq
  <2> QED BY <2>1, SearchesAssumption DEF NoWalkYet, EnumerationType
<1>7. NoWalkYet.listed = <<>> /\ NoWalkYet.resume = 0 BY DEF NoWalkYet
<1>8. before \in Nat /\ after \in Nat BY <1>1, SearchesAssumption
<1>9. /\ w \in EnumerationType /\ w.kind = "diff" /\ w.query = q /\ w.before = before
      /\ w.after = after /\ w.start = start /\ Fresh(w)
  BY <1>4, <1>5, <1>6, <1>7, <1>8 DEF EnumerationType, Fresh
<1>10. \/ /\ after <= Len(dumps) /\ UNCHANGED dumps
          /\ \/ Len(dumps[before].bytes) = Len(dumps[after].bytes) /\ Step(Compared(dumps, w))
             \/ Step(Reject)
       \/ /\ after = Len(dumps) + 1 /\ start + (n - 1) <= MaxAddress
          /\ dumps' = Append(dumps, d) /\ Step(Compared(dumps', w))
  BY DEF FirstDiff, start
<1> HIDE DEF w, n, d
<1>11. CASE UNCHANGED dumps /\ Step(Reject)
  <2>1. enumeration' = Reject /\ UNCHANGED <<image, rom, dumps>> BY <1>11 DEF Step
  <2> QED BY <2>1, Refused
<1>12. CASE /\ after <= Len(dumps) /\ UNCHANGED dumps
            /\ Len(dumps[before].bytes) = Len(dumps[after].bytes) /\ Step(Compared(dumps, w))
  <2>1. after \in 1 .. Len(dumps) BY <1>1, <1>8, <1>12
  <2>2. FitsDiff(dumps, w) BY <1>1, <1>4, <1>9, <1>12, <2>1 DEF FitsDiff
  <2>3. enumeration' = Compared(dumps, w) /\ UNCHANGED <<image, rom, dumps>> BY <1>12 DEF Step
  <2>4. DiffHolds(dumps, enumeration') /\ Onward(enumeration', w) BY <1>1, <1>9, <2>2, <2>3, DiffPage
  <2> QED BY <1>1, <2>3, <2>4, Walks DEF Onward
<1>13. CASE /\ after = Len(dumps) + 1 /\ start + (n - 1) <= MaxAddress
            /\ dumps' = Append(dumps, d) /\ Step(Compared(dumps', w))
  <2>1. d \in SnapshotType /\ Len(d.bytes) = n
    <3>1. n \in Nat /\ start \in Nat BY <1>2, <1>4 DEF n
    <3>2. (start + n) - 1 <= MaxAddress BY <1>13, <3>1, SearchesAssumption
    <3> QED BY <3>1, <3>2, NewSnapshot DEF d
  <2>2. /\ dumps' \in Seq(SnapshotType) /\ Len(dumps') = Len(dumps) + 1
        /\ dumps'[after] = d /\ dumps'[before] = dumps[before]
    BY <1>1, <1>13, <2>1, OneMoreSnapshot
  <2>3. before \in 1 .. Len(dumps') /\ after \in 1 .. Len(dumps') BY <1>1, <1>13, <2>2
  <2>4. FitsDiff(dumps', w) BY <1>4, <1>9, <2>1, <2>2, <2>3 DEF FitsDiff, n
  <2>5. enumeration' = Compared(dumps', w) /\ UNCHANGED <<image, rom>> BY <1>13 DEF Step
  <2>6. DiffHolds(dumps', Compared(dumps', w)) /\ Onward(Compared(dumps', w), w)
    BY <1>9, <2>2, <2>4, DiffPage
  <2> QED BY <2>2, <2>5, <2>6, Walks DEF Onward
<1> QED BY <1>10, <1>11, <1>12, <1>13

LEMMA NextDiffKeeps ==
  ASSUME SearchesInv, NextDiff
  PROVE  SearchesInv'
<1> DEFINE w == [enumeration EXCEPT !.start = Anchor(dumps[enumeration.before], Unset)]
           s == dumps[enumeration.before]
<1>1. /\ dumps \in Seq(SnapshotType) /\ enumeration \in EnumerationType
      /\ enumeration.kind = "diff" /\ enumeration.state = "open" /\ FitsDiff(dumps, enumeration)
      /\ s.known => Enumerated(enumeration, DifferingOffsets(dumps, enumeration))
  BY DEF SearchesInv, NextDiff, DiffHolds
<1>2. s.start \in Nat /\ s.known \in BOOLEAN BY <1>1, SnapshotFacts DEF FitsDiff
<1>3. Anchor(s, Unset) \in Nat /\ (s.known => Anchor(s, Unset) = s.start)
  BY <1>2 DEF Anchor
<1>4. s.known => enumeration.start = s.start BY <1>1 DEF FitsDiff
<1>5. s.known => w = enumeration BY <1>1, <1>3, <1>4 DEF EnumerationType
<1>6. \/ Step(Compared(dumps, w))
      \/ Step(Reject)
  BY DEF NextDiff
<1>7. UNCHANGED dumps BY DEF NextDiff
<1>8. CASE Step(Reject)
  <2>1. enumeration' = Reject /\ UNCHANGED <<image, rom, dumps>> BY <1>7, <1>8 DEF Step
  <2> QED BY <2>1, Refused
<1>9. CASE Step(Compared(dumps, w))
  <2>1. /\ w \in EnumerationType /\ w.kind = "diff" /\ w.query = enumeration.query
        /\ w.before = enumeration.before /\ w.after = enumeration.after
        /\ w.start = Anchor(s, Unset)
    BY <1>1, <1>3 DEF EnumerationType
  <2> HIDE DEF w, s
  <2>2. FitsDiff(dumps, w) BY <1>1, <1>3, <2>1 DEF FitsDiff, s
  <2>3. s.known => w.state = "open" /\ Enumerated(w, DifferingOffsets(dumps, w)) BY <1>1, <1>5
  <2>4. enumeration' = Compared(dumps, w) /\ UNCHANGED <<image, rom>> BY <1>9 DEF Step
  <2>5. DiffHolds(dumps, enumeration') /\ Onward(enumeration', w)
    BY <1>1, <2>1, <2>2, <2>3, <2>4, DiffPage DEF s
  <2> QED BY <1>1, <1>7, <2>4, <2>5, Walks DEF Onward
<1> QED BY <1>6, <1>8, <1>9

LEMMA SearchesKeeps == SearchesInv /\ [SearchesNext]_searchVars => SearchesInv'
<1> SUFFICES ASSUME SearchesInv, [SearchesNext]_searchVars PROVE SearchesInv' OBVIOUS
<1>1. CASE UNCHANGED searchVars BY <1>1 DEF searchVars, SearchesInv
<1>2. ASSUME NEW first \in Address, NEW known \in BOOLEAN, Dump(first, DumpCap, known)
      PROVE  SearchesInv'
  BY <1>2, DumpKeeps
<1>3. ASSUME NEW q \in SearchQueries, SearchFresh(q) PROVE SearchesInv' BY <1>3, SearchFreshKeeps
<1>4. ASSUME NEW q \in SearchQueries, NEW id \in DOMAIN dumps, SearchSnapshot(q, id)
      PROVE  SearchesInv'
  BY <1>4, SearchSnapshotKeeps
<1>5. ASSUME NEW q \in DiffQueries, NEW before \in DOMAIN dumps, NEW after \in 1 .. MaxDumps,
             FirstDiff(q, before, after)
      PROVE  SearchesInv'
  BY <1>5, FirstDiffKeeps
<1>6. CASE NextSearch BY <1>6, NextSearchKeeps
<1>7. CASE NextDiff BY <1>7, NextDiffKeeps
<1>8. CASE LoadOther
  <2>1. UNCHANGED <<image, dumps, enumeration>> /\ rom' = 1 BY <1>8 DEF LoadOther
  <2> QED BY <2>1 DEF SearchesInv
<1>9. ASSUME NEW address \in Address, NEW byte \in Byte, Poke(address, byte) PROVE SearchesInv'
  <2>1. UNCHANGED <<rom, dumps, enumeration>> /\ image' = [image EXCEPT ![address] = byte]
    BY <1>9 DEF Poke
  <2>2. image' \in [Address -> Byte] BY <1>9, <2>1 DEF SearchesInv
  <2> QED BY <2>1, <2>2 DEF SearchesInv
<1> QED BY <1>1, <1>2, <1>3, <1>4, <1>5, <1>6, <1>7, <1>8, <1>9 DEF SearchesNext

(***************************************************************************)
(* The rows of a finished walk, said about addresses and single bytes.     *)
(***************************************************************************)
LEMMA WithinWindow ==
  ASSUME NEW start \in Nat, NEW n \in Nat, NEW m \in Nat \ {0}, NEW o \in Int
  PROVE  /\ o \in 0 .. n - m <=> /\ (start + o) \in start .. start + n - 1
                                 /\ ((start + o) + m - 1) \in start .. start + n - 1
         /\ (start + o) - start = o
<1>1. CASE o \in 0 .. n - m BY <1>1
<1>2. CASE ~(o \in 0 .. n - m)
  <2>1. o < 0 \/ o + m > n BY <1>2
  <2> QED BY <1>2, <2>1
<1> QED BY <1>1, <1>2

LEMMA MatchesAreExact ==
  ASSUME dumps \in Seq(SnapshotType), enumeration \in EnumerationType,
         FitsSearch(dumps, enumeration)
  PROVE  RowsAt(enumeration.start, SearchOffsets(dumps, enumeration)) = ExactMatches
<1> DEFINE w == enumeration
           s == dumps[w.before]
           b == s.bytes
           data == Window(s, w.offset, w.length)
           P == w.query.pattern
           m == Len(P)
           al == w.query.alignment
           origin == Origin(s)
           window == w.start .. w.start + w.length - 1
           matches(a) == \A i \in 1 .. m : P[i] = Wild \/ b[(a + (i - 1)) - origin + 1] = P[i]
<1>1. /\ w.start \in Nat /\ w.length \in Nat /\ w.offset \in Nat BY DEF EnumerationType
<1>2. P \in Seq(Byte \cup {Wild}) /\ m \in Nat \ {0} /\ al \in Nat /\ DOMAIN P = 1 .. m
  <2>1. w.query \in SearchQueries BY DEF FitsSearch
  <2>2. P \in Seq(Byte \cup {Wild}) /\ m \in Nat \ {0} /\ al \in Nat BY <2>1, QueryFacts
  <2> QED BY <2>2, LenProperties
<1>3. /\ Len(data) = w.length
      /\ \A i \in 1 .. w.length : data[i] = b[w.offset + i]
  BY WindowFacts
<1>4. origin = w.start - w.offset
  <2>1. s.start \in Nat BY SnapshotFacts DEF FitsSearch
  <2>2. s.known => w.start = s.start + w.offset BY DEF FitsSearch
  <2> QED BY <1>1, <2>1, <2>2 DEF Origin
<1>5. SearchOffsets(dumps, w) =
        {o \in 0 .. w.length - m : /\ al # 0 => o % al = 0
                                   /\ \A j \in 1 .. m : P[j] \in {Wild, data[o + j]}}
  BY <1>2, <1>3 DEF SearchOffsets, findPatternMatches
<1>6. ExactMatches = {a \in window : /\ al = 0 \/ (a - w.start) % al = 0
                                     /\ (a + m - 1) \in window /\ matches(a)}
  BY DEF ExactMatches, ByteAt
<1> HIDE DEF w, s, b, data, P, m, al, origin
<1>7. ASSUME NEW o \in 0 .. w.length - m
      PROVE  matches(w.start + o) <=> \A j \in 1 .. m : P[j] \in {Wild, data[o + j]}
  <2>1. ASSUME NEW j \in 1 .. m
        PROVE  b[((w.start + o) + (j - 1)) - origin + 1] = data[o + j]
    <3>1. ((w.start + o) + (j - 1)) - origin + 1 = w.offset + (o + j) BY <1>1, <1>2, <1>4
    <3>2. o + j \in 1 .. w.length BY <1>1, <1>2
    <3>3. data[o + j] = b[w.offset + (o + j)] BY <1>3, <3>2
    <3> QED BY <3>1, <3>3
  <2> QED BY <2>1
<1> HIDE DEF matches
<1>8. ASSUME NEW o \in Int
      PROVE  /\ o \in 0 .. w.length - m
                <=> (w.start + o) \in window /\ ((w.start + o) + m - 1) \in window
             /\ (w.start + o) - w.start = o
  BY <1>1, <1>2, WithinWindow
<1>9. ASSUME NEW o \in Int
      PROVE  o \in SearchOffsets(dumps, w) <=> (w.start + o) \in ExactMatches
  <2>1. CASE o \in 0 .. w.length - m BY <1>5, <1>6, <1>7, <1>8, <2>1
  <2>2. CASE ~(o \in 0 .. w.length - m) BY <1>5, <1>6, <1>8, <2>2
  <2> QED BY <2>1, <2>2
<1>10. \A o \in SearchOffsets(dumps, w) : o \in Int BY <1>1, <1>2, <1>5
<1>11. \A a \in ExactMatches : a \in Int BY <1>1, <1>6
<1>12. \A a : a \in RowsAt(w.start, SearchOffsets(dumps, w)) <=> a \in ExactMatches
  <2>1. ASSUME NEW a, a \in RowsAt(w.start, SearchOffsets(dumps, w)) PROVE a \in ExactMatches
    <3>1. PICK o \in SearchOffsets(dumps, w) : a = w.start + o BY <2>1 DEF RowsAt
    <3> QED BY <1>9, <1>10, <3>1
  <2>2. ASSUME NEW a, a \in ExactMatches PROVE a \in RowsAt(w.start, SearchOffsets(dumps, w))
    <3>1. a \in Int /\ a - w.start \in Int /\ w.start + (a - w.start) = a BY <1>1, <1>11, <2>2
    <3>2. a - w.start \in SearchOffsets(dumps, w) BY <1>9, <2>2, <3>1
    <3> QED BY <3>1, <3>2 DEF RowsAt
  <2> QED BY <2>1, <2>2
<1> QED BY <1>12 DEF w

\* A cell decoded at an offset, and read byte by byte at its address.
CellAt(b, start, a, width, order) ==
  IF width = 1 THEN b[a - start + 1]
  ELSE IF order = "big" THEN ByteBase * b[a - start + 1] + b[(a + 1) - start + 1]
       ELSE ByteBase * b[(a + 1) - start + 1] + b[a - start + 1]

HoldsBytes(b, n) == \A j \in 1 .. n : b[j] \in Int

LEMMA CellsDecode ==
  ASSUME NEW b, NEW n \in Nat, HoldsBytes(b, n), NEW start \in Nat,
         NEW width \in {1, 2}, NEW order \in Order, NEW o \in 0 .. n - width
  PROVE  decodeCell(b, o, width, order) = CellAt(b, start, start + o, width, order)
<1>1. (start + o) - start + 1 = o + 1 /\ ((start + o) + 1) - start + 1 = o + 2 OBVIOUS
<1>2. CASE width = 1 BY <1>1, <1>2 DEF decodeCell, CellAt
<1>3. CASE width = 2 /\ order = "big" BY <1>1, <1>3 DEF decodeCell, CellAt
<1>4. CASE width = 2 /\ order = "little"
  <2>1. o + 1 \in 1 .. n /\ o + 2 \in 1 .. n BY <1>4
  <2>2. b[o + 1] \in Int /\ b[o + 2] \in Int /\ ByteBase \in Int
    BY <2>1, SearchesAssumption DEF HoldsBytes
  <2>3. b[o + 1] + ByteBase * b[o + 2] = ByteBase * b[o + 2] + b[o + 1] BY <2>2
  <2>4. decodeCell(b, o, width, order) = b[o + 1] + ByteBase * b[o + 2] BY <1>4 DEF decodeCell
  <2>5. CellAt(b, start, start + o, width, order) = ByteBase * b[o + 2] + b[o + 1]
    BY <1>1, <1>4 DEF CellAt
  <2> QED BY <2>3, <2>4, <2>5
<1> QED BY <1>2, <1>3, <1>4 DEF Order

LEMMA DifferencesAreExact ==
  ASSUME dumps \in Seq(SnapshotType), enumeration \in EnumerationType,
         FitsDiff(dumps, enumeration), NEW start, start = enumeration.start
  PROVE  RowsAt(start, DifferingOffsets(dumps, enumeration)) = ExactDifferences(start)
<1> DEFINE w == enumeration
           b == dumps[w.before].bytes
           c == dumps[w.after].bytes
           n == Len(b)
           q == w.query
           window == start .. start + n - 1
           cellOf(d, a) == CellAt(d, start, a, q.width, w.order)
           differ(a) == Related(q, cellOf(b, a), cellOf(c, a))
<1>1. start \in Nat /\ w.order \in Order BY DEF EnumerationType
<1>2. q.width \in {1, 2} /\ q.misaligned \in BOOLEAN BY QueryFacts DEF FitsDiff
<1>3. n \in Nat /\ \A j \in 1 .. n : b[j] \in Int /\ c[j] \in Int
  <2>1. w.before \in 1 .. Len(dumps) /\ w.after \in 1 .. Len(dumps) /\ n = Len(c)
    BY DEF FitsDiff
  <2> QED BY <2>1, SnapshotFacts
<1>4. DifferingOffsets(dumps, w) =
        {o \in CellOffsets(n, start, q) : Related(q, decodeCell(b, o, q.width, w.order),
                                                     decodeCell(c, o, q.width, w.order))}
  BY DEF DifferingOffsets, DiffOffsets
<1>5. ExactDifferences(start) = {a \in window : /\ (a + q.width - 1) \in window
                                                /\ q.misaligned \/ a % q.width = 0
                                                /\ differ(a)}
  BY DEF ExactDifferences, ByteAt, CellAt
<1> HIDE DEF w, b, c, n, q
<1>6. /\ CellOffsets(n, start, q) \subseteq 0 .. n - q.width
      /\ \A o \in 0 .. n - q.width :
           o \in CellOffsets(n, start, q) <=> q.misaligned \/ (start + o) % q.width = 0
  BY ONLY <1>1, <1>2, <1>3, CellsAligned
<1>7. ASSUME NEW o \in 0 .. n - q.width
      PROVE  differ(start + o) <=> Related(q, decodeCell(b, o, q.width, w.order),
                                              decodeCell(c, o, q.width, w.order))
  <2>1. /\ start \in Nat /\ n \in Nat /\ q.width \in {1, 2} /\ w.order \in Order
        /\ o \in 0 .. n - q.width
    BY <1>1, <1>2, <1>3
  <2>2. HoldsBytes(b, n) BY <1>3 DEF HoldsBytes
  <2>3. HoldsBytes(c, n) BY <1>3 DEF HoldsBytes
  <2>4. decodeCell(b, o, q.width, w.order) = CellAt(b, start, start + o, q.width, w.order)
    BY ONLY <2>1, <2>2, CellsDecode
  <2>5. decodeCell(c, o, q.width, w.order) = CellAt(c, start, start + o, q.width, w.order)
    BY ONLY <2>1, <2>3, CellsDecode
  <2> QED BY <2>4, <2>5
<1> HIDE DEF differ, cellOf
<1>8. ASSUME NEW o \in Int
      PROVE  o \in 0 .. n - q.width <=> (start + o) \in window /\ ((start + o) + q.width - 1) \in window
  <2>1. q.width \in Nat \ {0} BY ONLY <1>2
  <2>2. start \in Nat /\ n \in Nat /\ o \in Int BY <1>1, <1>3
  <2> QED BY ONLY <2>1, <2>2, WithinWindow
<1>9. ASSUME NEW o \in Int
      PROVE  o \in DifferingOffsets(dumps, w) <=> (start + o) \in ExactDifferences(start)
  <2>1. CASE o \in 0 .. n - q.width BY <1>4, <1>5, <1>6, <1>7, <1>8, <2>1
  <2>2. CASE ~(o \in 0 .. n - q.width) BY <1>4, <1>5, <1>6, <1>8, <2>2
  <2> QED BY <2>1, <2>2
<1>10. \A o \in DifferingOffsets(dumps, w) : o \in Int BY <1>2, <1>3, <1>4, <1>6
<1>11. \A a \in ExactDifferences(start) : a \in Int BY <1>1, <1>3, <1>5
<1>12. \A a : a \in RowsAt(start, DifferingOffsets(dumps, w)) <=> a \in ExactDifferences(start)
  <2>1. ASSUME NEW a, a \in RowsAt(start, DifferingOffsets(dumps, w)) PROVE a \in ExactDifferences(start)
    <3>1. PICK o \in DifferingOffsets(dumps, w) : a = start + o BY <2>1 DEF RowsAt
    <3> QED BY <1>9, <1>10, <3>1
  <2>2. ASSUME NEW a, a \in ExactDifferences(start) PROVE a \in RowsAt(start, DifferingOffsets(dumps, w))
    <3>1. a \in Int /\ a - start \in Int /\ start + (a - start) = a BY <1>1, <1>11, <2>2
    <3>2. a - start \in DifferingOffsets(dumps, w) BY <1>9, <2>2, <3>1
    <3> QED BY <3>1, <3>2 DEF RowsAt
  <2> QED BY <2>1, <2>2
<1> QED BY <1>12 DEF w

(***************************************************************************)
(* A search walked to its end has listed exactly the matches of its window,*)
(* and a comparison against a snapshot of known address exactly the cells  *)
(* that differ as asked: once each, in order, at the addresses captured,   *)
(* whatever the machine did between the pages (tools_phase5.go:571-1148).  *)
(***************************************************************************)
THEOREM EnumerationsAreExact == SearchesSpec => []EnumerationExact
<1>1. SearchesInv => EnumerationExact
  <2> SUFFICES ASSUME SearchesInv PROVE SearchExact /\ DiffExact BY DEF EnumerationExact
  <2>1. dumps \in Seq(SnapshotType) /\ enumeration \in EnumerationType BY DEF SearchesInv
  <2>2. ASSUME enumeration.kind = "search"
        PROVE  /\ Ascending(enumeration.listed)
               /\ enumeration.state = "done" => ToSet(enumeration.listed) = ExactMatches
    <3>1. /\ FitsSearch(dumps, enumeration)
          /\ Enumerated(enumeration, SearchOffsets(dumps, enumeration))
      BY <2>2 DEF SearchesInv, SearchHolds
    <3> QED BY <2>1, <3>1, MatchesAreExact DEF Enumerated
  <2>3. ASSUME enumeration.kind = "diff", dumps[enumeration.before].known
        PROVE  /\ Ascending(enumeration.listed)
               /\ enumeration.state = "done" =>
                    ToSet(enumeration.listed) = ExactDifferences(dumps[enumeration.before].start)
    <3>1. /\ FitsDiff(dumps, enumeration)
          /\ Enumerated(enumeration, DifferingOffsets(dumps, enumeration))
          /\ dumps[enumeration.before].start = enumeration.start
      BY <2>3 DEF SearchesInv, DiffHolds, FitsDiff
    <3> QED BY <2>1, <3>1, DifferencesAreExact DEF Enumerated
  <2> QED BY <2>2, <2>3 DEF SearchExact, DiffExact
<1> QED BY <1>1, SearchesInitially, SearchesKeeps, PTL DEF SearchesSpec

(***************************************************************************)
(* Where the stored dumps lie, and what a walk is about before it begins.  *)
(***************************************************************************)
DumpsFit == \A i \in 1 .. Len(dumps) : dumps[i].start \in Address /\ Len(dumps[i].bytes) >= 1

SearchTypes ==
  DumpsFit /\ pokes \in 0 .. MaxPokes /\ (enumeration.kind = "none" => enumeration.before = 0)

\* A dump holds at least one byte and ends within the space, so it begins there.
LEMMA DumpFits ==
  ASSUME SearchesInv, DumpsFit, NEW first \in Nat, NEW n \in Nat, n >= 1, NEW known \in BOOLEAN,
         (first + n) - 1 <= MaxAddress, dumps' = Append(dumps, Dumped(first, n, known))
  PROVE  DumpsFit'
<1> DEFINE d == Dumped(first, n, known)
<1>1. d \in SnapshotType /\ Len(d.bytes) = n /\ d.start = first BY NewSnapshot
<1>2. dumps \in Seq(SnapshotType) BY DEF SearchesInv
<1>3. MaxAddress \in Nat BY SearchesAssumption
<1>4. first \in Address
  <2>1. first \in 0 .. MaxAddress
    <3>1. first \in Nat /\ n \in Nat /\ n >= 1 /\ (first + n) - 1 <= MaxAddress OBVIOUS
    <3> QED BY ONLY <1>3, <3>1
  <2> QED BY <2>1 DEF Address
<1> HIDE DEF d
<1>5. /\ Len(dumps') = Len(dumps) + 1 /\ Len(dumps) \in Nat /\ dumps'[Len(dumps) + 1] = d
      /\ \A i \in 1 .. Len(dumps) : dumps'[i] = dumps[i]
  BY <1>1, <1>2, OneMoreSnapshot DEF d
<1>6. ASSUME NEW i \in 1 .. Len(dumps')
      PROVE  dumps'[i].start \in Address /\ Len(dumps'[i].bytes) >= 1
  <2>1. i \in 1 .. Len(dumps) \/ i = Len(dumps) + 1 BY <1>5
  <2>2. CASE i \in 1 .. Len(dumps) BY <1>5, <2>2 DEF DumpsFit
  <2>3. CASE i = Len(dumps) + 1 BY <1>1, <1>4, <1>5, <2>3
  <2> QED BY <2>1, <2>2, <2>3
<1> QED BY <1>6 DEF DumpsFit

LEMMA DumpsStay == ASSUME DumpsFit, UNCHANGED dumps PROVE DumpsFit'
BY DEF DumpsFit

\* A page belongs to a walk of the same kind.
HasKind(w) == "kind" \in DOMAIN w

LEMMA PagesKeepKind ==
  ASSUME NEW offsets, NEW w, HasKind(w)
  PROVE  Page(offsets, w).kind = w.kind
<1>1. \A page : Listed(page, w).kind = w.kind /\ HasKind(Listed(page, w))
  BY DEF Listed, HasKind
<1>2. \A v, n : HasKind(v) => /\ [v EXCEPT !.resume = n, !.state = "open"].kind = v.kind
                              /\ [v EXCEPT !.state = "done"].kind = v.kind
  BY DEF HasKind
<1> QED BY <1>1, <1>2 DEF Page

LEMMA NoWalkShape == HasKind(NoWalkYet)
BY DEF NoWalkYet, HasKind

LEMMA SearchedKind ==
  ASSUME NEW q, NEW store, NEW id, NEW window
  PROVE  Searched(q, store, id, window).kind = "search"
<1> DEFINE w == [NoWalkYet EXCEPT !.kind = "search", !.query = q, !.before = id,
                   !.offset = window.offset, !.start = window.start, !.length = window.length]
<1>1. HasKind(w) /\ w.kind = "search" BY NoWalkShape DEF HasKind
<1> HIDE DEF w
<1> QED BY <1>1, PagesKeepKind DEF Searched, w

LEMMA SearchTyped ==
  ASSUME SearchesInv, SearchTypes, NEW q \in SearchQueries,
         SearchFresh(q) \/ \E id \in DOMAIN dumps : SearchSnapshot(q, id)
  PROVE  SearchTypes'
<1>1. CASE SearchFresh(q)
  <2> DEFINE win == FreshWindow(q.start, q.length)
  <2>1. q.start \in Nat \cup {Unset} /\ q.length \in Nat /\ DumpCap \in Nat \ {0}
    BY QueryFacts, SearchesAssumption
  <2>2. win.start + (win.length - 1) <= MaxAddress BY <1>1 DEF SearchFresh
  <2>3. win.start \in Nat /\ win.length \in Nat /\ win.length >= 1 BY <2>1 DEF FreshWindow
  <2>4. /\ dumps' = Append(dumps, Dumped(win.start, win.length, TRUE)) /\ pokes' = pokes
        /\ enumeration' = Searched(q, dumps', Len(dumps'), win)
    BY <1>1 DEF SearchFresh, Step
  <2> HIDE DEF win
  <2>5. (win.start + win.length) - 1 <= MaxAddress
    <3>1. MaxAddress \in Nat BY SearchesAssumption
    <3> QED BY ONLY <2>2, <2>3, <3>1
  <2>6. DumpsFit' BY <2>3, <2>4, <2>5, DumpFits DEF SearchTypes
  <2>7. enumeration'.kind = "search" BY <2>4, SearchedKind
  <2> QED BY <2>4, <2>6, <2>7 DEF SearchTypes
<1>2. ASSUME NEW id \in DOMAIN dumps, SearchSnapshot(q, id) PROVE SearchTypes'
  <2>1. UNCHANGED <<dumps, pokes>>
        /\ (enumeration' = Reject \/ \E win : enumeration' = Searched(q, dumps, id, win))
    BY <1>2 DEF SearchSnapshot, Step
  <2>2. enumeration \in EnumerationType BY DEF SearchesInv
  <2>3. Reject.kind = enumeration.kind /\ Reject.before = enumeration.before
    BY <2>2 DEF Reject, EnumerationType
  <2>4. enumeration'.kind = "none" => enumeration'.before = 0
    BY <2>1, <2>3, SearchedKind DEF SearchTypes
  <2> QED BY <2>1, <2>4, DumpsStay DEF SearchTypes
<1> QED BY <1>1, <1>2

LEMMA DiffTyped ==
  ASSUME SearchesInv, SearchTypes, NEW q \in DiffQueries, NEW before \in DOMAIN dumps,
         NEW after \in 1 .. MaxDumps, FirstDiff(q, before, after)
  PROVE  SearchTypes'
<1> DEFINE start == Anchor(dumps[before], q.start)
           w == [NoWalkYet EXCEPT !.kind = "diff", !.query = q, !.before = before, !.after = after,
                   !.start = start, !.order = EffectiveOrder(dumps[before], q.order)]
           n == Len(dumps[before].bytes)
<1>1. dumps \in Seq(SnapshotType) /\ before \in 1 .. Len(dumps) BY LenProperties DEF SearchesInv
<1>2. n \in Nat /\ n >= 1 /\ dumps[before].start \in Nat
  BY <1>1, SnapshotFacts DEF SearchTypes, DumpsFit
<1>3. q.start \in Nat \cup {Unset} BY QueryFacts
<1>4. start \in Nat BY <1>2, <1>3 DEF Anchor
<1>5. enumeration \in EnumerationType BY DEF SearchesInv
<1>6. Reject.kind = enumeration.kind /\ Reject.before = enumeration.before
  BY <1>5 DEF Reject, EnumerationType
<1>7. HasKind(w) /\ w.kind = "diff" BY NoWalkShape DEF HasKind
<1>8. /\ pokes' = pokes
      /\ \/ /\ UNCHANGED dumps /\ (enumeration' = Reject \/ enumeration' = Compared(dumps, w))
         \/ /\ start + (n - 1) <= MaxAddress /\ dumps' = Append(dumps, Dumped(start, n, TRUE))
            /\ enumeration' = Compared(dumps', w)
  BY DEF FirstDiff, Step
<1> HIDE DEF start, w
<1>9. \A store : Compared(store, w).kind = "diff" BY <1>7, PagesKeepKind DEF Compared
<1>10. enumeration'.kind = "none" => enumeration'.before = 0
  BY <1>6, <1>8, <1>9 DEF SearchTypes
<1> HIDE DEF n
<1>11. CASE UNCHANGED dumps BY <1>8, <1>10, <1>11, DumpsStay DEF SearchTypes
<1>12. CASE start + (n - 1) <= MaxAddress /\ dumps' = Append(dumps, Dumped(start, n, TRUE))
  <2>1. MaxAddress \in Nat BY SearchesAssumption
  <2>2. (start + n) - 1 <= MaxAddress BY <1>2, <1>4, <1>12, <2>1
  <2>3. DumpsFit' BY <1>2, <1>4, <1>12, <2>2, DumpFits DEF SearchTypes
  <2> QED BY <1>8, <1>10, <2>3 DEF SearchTypes
<1> QED BY <1>8, <1>11, <1>12

LEMMA SearchTypesKept == SearchesInv /\ SearchTypes /\ [SearchesNext]_searchVars => SearchTypes'
<1> SUFFICES ASSUME SearchesInv, SearchTypes, [SearchesNext]_searchVars PROVE SearchTypes' OBVIOUS
<1>1. CASE UNCHANGED searchVars BY <1>1, DumpsStay DEF searchVars, SearchTypes
<1>2. ASSUME NEW first \in Address, NEW known \in BOOLEAN, Dump(first, DumpCap, known)
      PROVE  SearchTypes'
  <2>1. DumpCap \in Nat /\ DumpCap >= 1 /\ MaxAddress \in Nat BY SearchesAssumption
  <2>2. first \in Nat BY <2>1 DEF Address
  <2>3. dumps' = Append(dumps, Dumped(first, DumpCap, known)) /\ UNCHANGED <<enumeration, pokes>>
        /\ first + (DumpCap - 1) <= MaxAddress
    BY <1>2 DEF Dump
  <2>4. (first + DumpCap) - 1 <= MaxAddress BY <2>1, <2>2, <2>3
  <2>5. DumpsFit' BY <2>1, <2>2, <2>3, <2>4, DumpFits DEF SearchTypes
  <2> QED BY <2>3, <2>5 DEF SearchTypes
<1>3. ASSUME NEW q \in SearchQueries, SearchFresh(q) \/ \E id \in DOMAIN dumps : SearchSnapshot(q, id)
      PROVE  SearchTypes'
  BY <1>3, SearchTyped
<1>4. ASSUME NEW q \in DiffQueries, NEW before \in DOMAIN dumps, NEW after \in 1 .. MaxDumps,
             FirstDiff(q, before, after)
      PROVE  SearchTypes'
  BY <1>4, DiffTyped
<1>5. enumeration \in EnumerationType BY DEF SearchesInv
<1>6. HasKind(enumeration) BY <1>5 DEF EnumerationType, HasKind
<1>7. CASE NextSearch
  <2>1. UNCHANGED <<dumps, pokes>> /\ enumeration.kind = "search"
        /\ \E offsets : enumeration' = Page(offsets, enumeration)
    BY <1>7 DEF NextSearch, Step
  <2>2. enumeration'.kind = "search" BY <1>6, <2>1, PagesKeepKind
  <2> QED BY <2>1, <2>2, DumpsStay DEF SearchTypes
<1>8. CASE NextDiff
  <2> DEFINE w == [enumeration EXCEPT !.start = Anchor(dumps[enumeration.before], Unset)]
  <2>1. UNCHANGED <<dumps, pokes>> /\ enumeration.kind = "diff"
        /\ (enumeration' = Reject \/ enumeration' = Compared(dumps, w))
    BY <1>8 DEF NextDiff, Step
  <2>2. HasKind(w) /\ w.kind = enumeration.kind BY <1>6 DEF HasKind
  <2> HIDE DEF w
  <2>3. Compared(dumps, w).kind = w.kind BY <2>2, PagesKeepKind DEF Compared
  <2>4. Reject.kind = enumeration.kind BY <1>5 DEF Reject, EnumerationType
  <2>5. enumeration'.kind = "diff" BY <2>1, <2>2, <2>3, <2>4
  <2> QED BY <2>1, <2>5, DumpsStay DEF SearchTypes
<1>9. CASE LoadOther
  <2>1. UNCHANGED <<dumps, enumeration, pokes>> BY <1>9 DEF LoadOther
  <2> QED BY <2>1, DumpsStay DEF SearchTypes
<1>10. ASSUME NEW address \in Address, NEW byte \in Byte, Poke(address, byte) PROVE SearchTypes'
  <2>1. UNCHANGED <<dumps, enumeration>> /\ pokes < MaxPokes /\ pokes' = pokes + 1
    BY <1>10 DEF Poke
  <2>2. pokes \in 0 .. MaxPokes /\ MaxPokes \in Nat BY SearchesAssumption DEF SearchTypes
  <2>3. pokes' \in 0 .. MaxPokes BY ONLY <2>1, <2>2
  <2> QED BY <2>1, <2>3, DumpsStay DEF SearchTypes
<1> QED BY <1>1, <1>2, <1>3, <1>4, <1>7, <1>8, <1>9, <1>10 DEF SearchesNext

\* The types of the searches: a dump holds bytes of the space from an address of it on, and a
\* walk is about one of the stored dumps (tools_phase5.go:571-600, 1436-1500).
THEOREM SearchesAreTyped == SearchesSpec => []SearchesTypeOK
<1>1. SearchesInit => SearchTypes
  <2> SUFFICES ASSUME SearchesInit PROVE SearchTypes OBVIOUS
  <2>1. dumps = <<>> /\ pokes = 0 /\ enumeration = NoWalkYet BY DEF SearchesInit, SearchesStart
  <2>2. NoWalkYet.before = 0 BY DEF NoWalkYet
  <2>3. Len(dumps) = 0 BY <2>1
  <2> QED BY <2>1, <2>2, <2>3, SearchesAssumption DEF SearchTypes, DumpsFit
<1>2. SearchesInv /\ SearchTypes => SearchesTypeOK
  <2> SUFFICES ASSUME SearchesInv, SearchTypes PROVE SearchesTypeOK OBVIOUS
  <2>1. /\ dumps \in Seq(SnapshotType) /\ image \in [Address -> Byte] /\ rom \in 0 .. 1
        /\ enumeration \in EnumerationType /\ pokes \in 0 .. MaxPokes
    BY DEF SearchesInv, SearchTypes
  <2>2. Len(dumps) \in Nat /\ DOMAIN dumps = 1 .. Len(dumps) BY <2>1, LenProperties
  <2>3. ASSUME NEW i \in DOMAIN dumps
        PROVE  /\ dumps[i].bytes \in Seq(Byte) /\ dumps[i].known \in BOOLEAN
               /\ dumps[i].start \in Address /\ dumps[i].rom \in 0 .. 1
    <3>1. dumps[i] \in SnapshotType BY <2>1, <2>2, ElementOfSeq
    <3>2. dumps[i].start \in Address BY <2>2 DEF SearchTypes, DumpsFit
    <3> QED BY <3>1, <3>2 DEF SnapshotType
  <2>4. enumeration.kind \in {"none", "search", "diff"}
        /\ enumeration.state \in {"idle", "open", "done", "refused"}
    BY <2>1 DEF EnumerationType
  <2>5. enumeration.before \in 0 .. Len(dumps)
    <3>1. CASE enumeration.kind = "none" BY <2>2, <3>1 DEF SearchTypes
    <3>2. CASE enumeration.kind = "search" BY <2>2, <3>2 DEF SearchesInv, SearchHolds, FitsSearch
    <3>3. CASE enumeration.kind = "diff" BY <2>2, <3>3 DEF SearchesInv, DiffHolds, FitsDiff
    <3> QED BY <2>4, <3>1, <3>2, <3>3
  <2> QED BY <2>1, <2>3, <2>4, <2>5 DEF SearchesTypeOK
<1> QED BY <1>1, <1>2, SearchTypesKept, SearchesInitially, SearchesKeeps, PTL DEF SearchesSpec

----------------------------------------------------------------------------
(***************************************************************************)
(* The listings. The order of a stream, and what a query picks of it.      *)
(***************************************************************************)
Precedes(stream, a, b) ==
  CASE stream \in {"audit", "mutations"} -> a.id > b.id
    [] stream = "events" -> a.id < b.id
    [] stream = "notes" -> a.at > b.at \/ (a.at = b.at /\ a.id > b.id)
    [] stream = "artifacts" -> OlderFirst(a, b)

Precedence(stream) == {p \in Row \X Row : Precedes(stream, p[1], p[2])}

Distinct(S) == \A a, b \in S : a.id = b.id => a = b

Picked(stream, query) ==
  {row \in rows : /\ row.kind \in query.kind
                  /\ stream = "mutations" => row.kind # LockEvent
                  /\ stream = "notes" => StaleMatches(row, query.stale)}

\* A list of all of a set, in an order.
InOrder(f, S, R) ==
  /\ f \in Seq(S)
  /\ \A i, j \in 1 .. Len(f) : i < j => <<f[i], f[j]>> \in R
  /\ \A x \in S : \E i \in 1 .. Len(f) : f[i] = x

\* A list with the member in place i preceded by i - 1.
RankedIn(f, S, R) ==
  /\ Len(f) \in Nat
  /\ \A i \in 1 .. Len(f) : f[i] \in S /\ Cardinality(Below(f[i], S, R)) = i - 1

\* What tells the rows of a stream apart when it continues after one of them.
KeyOf(stream, row) == IF stream = "notes" THEN <<row.at, row.id>> ELSE <<row.id>>

LEMMA PrecedesCases ==
  ASSUME NEW a, NEW b
  PROVE  /\ Precedes("audit", a, b) <=> a.id > b.id
         /\ Precedes("mutations", a, b) <=> a.id > b.id
         /\ Precedes("events", a, b) <=> a.id < b.id
         /\ Precedes("notes", a, b) <=> (a.at > b.at \/ (a.at = b.at /\ a.id > b.id))
         /\ Precedes("artifacts", a, b) <=> OlderFirst(a, b)
BY DEF Precedes

LEMMA RowFacts ==
  ASSUME NEW a \in Row
  PROVE  a.id \in Int /\ a.at \in Int /\ a.kind \in Kind /\ a.generation \in Int
BY ListingsAssumption DEF Row

LEMMA PrecedenceIsStrict ==
  ASSUME NEW stream \in Stream, NEW S, S \subseteq Row, Distinct(S)
  PROVE  StrictOn(Precedence(stream), S)
<1> DEFINE R == Precedence(stream)
<1>1. \A a, b \in S : <<a, b>> \in R <=> Precedes(stream, a, b) BY DEF Precedence
<1>2. \A a \in S : a.id \in Int /\ a.at \in Int BY RowFacts
<1>3. \A a, b \in S : a # b => a.id # b.id BY DEF Distinct
<1> HIDE DEF R
<1>4. CASE stream \in {"audit", "mutations"}
  <2>1. \A a, b \in S : <<a, b>> \in R <=> a.id > b.id BY <1>1, <1>4 DEF Precedes
  <2> QED BY <1>2, <1>3, <2>1 DEF StrictOn, R
<1>5. CASE stream = "events"
  <2>1. \A a, b \in S : <<a, b>> \in R <=> a.id < b.id BY <1>1, <1>5 DEF Precedes
  <2> QED BY <1>2, <1>3, <2>1 DEF StrictOn, R
<1>6. CASE stream = "notes"
  <2>1. \A a, b \in S : <<a, b>> \in R <=> a.at > b.at \/ (a.at = b.at /\ a.id > b.id)
    BY <1>1, <1>6 DEF Precedes
  <2> QED BY <1>2, <1>3, <2>1 DEF StrictOn, R
<1>7. CASE stream = "artifacts"
  <2>1. \A a, b \in S : <<a, b>> \in R <=> a.at < b.at \/ (a.at = b.at /\ a.id < b.id)
    BY <1>1, <1>7 DEF Precedes, OlderFirst
  <2> QED BY <1>2, <1>3, <2>1 DEF StrictOn, R
<1> QED BY <1>4, <1>5, <1>6, <1>7 DEF Stream

\* Of any two rows, and of any three.
LEMMA PrecedenceFacts ==
  ASSUME NEW stream \in Stream, NEW a \in Row, NEW b \in Row
  PROVE  /\ <<a, b>> \in Precedence(stream) <=> Precedes(stream, a, b)
         /\ <<a, b>> \in Precedence(stream) => a.at # b.at \/ a.id # b.id
         /\ <<a, b>> \in Precedence(stream) /\ stream \notin {"notes", "artifacts"} => a.id # b.id
         /\ \A c \in Row : <<a, b>> \in Precedence(stream) /\ <<b, c>> \in Precedence(stream)
                             => <<a, c>> \in Precedence(stream)
<1>1. \A x, y \in Row : <<x, y>> \in Precedence(stream) <=> Precedes(stream, x, y)
  BY DEF Precedence
<1>2. \A x \in Row : x.id \in Int /\ x.at \in Int BY RowFacts
<1>4. CASE stream \in {"audit", "mutations"}
  <2>1. \A x, y \in Row : <<x, y>> \in Precedence(stream) <=> x.id > y.id
    BY <1>1, <1>4 DEF Precedes
  <2> QED BY <1>1, <1>2, <2>1
<1>5. CASE stream = "events"
  <2>1. \A x, y \in Row : <<x, y>> \in Precedence(stream) <=> x.id < y.id
    BY <1>1, <1>5 DEF Precedes
  <2> QED BY <1>1, <1>2, <2>1
<1>6. CASE stream = "notes"
  <2>1. \A x, y \in Row : <<x, y>> \in Precedence(stream)
                          <=> x.at > y.at \/ (x.at = y.at /\ x.id > y.id)
    BY <1>1, <1>6 DEF Precedes
  <2> QED BY <1>1, <1>2, <1>6, <2>1
<1>7. CASE stream = "artifacts"
  <2>1. \A x, y \in Row : <<x, y>> \in Precedence(stream)
                          <=> x.at < y.at \/ (x.at = y.at /\ x.id < y.id)
    BY <1>1, <1>7 DEF Precedes, OlderFirst
  <2> QED BY <1>1, <1>2, <1>7, <2>1
<1> QED BY <1>4, <1>5, <1>6, <1>7 DEF Stream

LEMMA PrecedenceCarries ==
  ASSUME NEW stream \in Stream, NEW a \in Row, NEW b \in Row, NEW c \in Row,
         <<a, b>> \in Precedence(stream), <<b, c>> \in Precedence(stream)
  PROVE  <<a, c>> \in Precedence(stream)
BY PrecedenceFacts

\* A list with at each place a member of that place lists the set in order.
LEMMA ListedInOrder ==
  ASSUME NEW S, IsFiniteSet(S), NEW R, StrictOn(R, S), NEW o,
         o = [n \in 1 .. Cardinality(S) |-> o[n]],
         \A n \in 1 .. Cardinality(S) : o[n] \in S /\ Cardinality(Below(o[n], S, R)) = n - 1
  PROVE  InOrder(o, S, R) /\ RankedIn(o, S, R)
<1>1. o \in [1 .. Cardinality(S) -> S] OBVIOUS
<1>2. Lists(o, S, R) BY <1>1 DEF Lists
<1> DEFINE rank(x) == Cardinality(Below(x, S, R))
<1>0. IsFiniteSet(S) /\ StrictOn(R, S) OBVIOUS
<1>3. /\ Cardinality(S) \in Nat /\ o \in Seq(S) /\ Len(o) = Cardinality(S)
      /\ \A i, j \in 1 .. Cardinality(S) : i < j => <<o[i], o[j]>> \in R
      /\ \A x \in S : rank(x) + 1 \in 1 .. Cardinality(S) /\ o[rank(x) + 1] = x
  <2>1. /\ Cardinality(S) \in Nat /\ o \in Seq(S) /\ Len(o) = Cardinality(S)
        /\ \A i, j \in 1 .. Cardinality(S) : i < j => <<o[i], o[j]>> \in R /\ o[i] # o[j]
        /\ \A x \in S : /\ Cardinality(Below(x, S, R)) + 1 \in 1 .. Cardinality(S)
                        /\ o[Cardinality(Below(x, S, R)) + 1] = x
    BY ONLY <1>0, <1>2, ListsInOrder
  <2> QED BY <2>1
<1>4. \A x \in S : \E i \in 1 .. Len(o) : o[i] = x BY <1>3
<1> QED BY <1>3, <1>4 DEF InOrder, RankedIn

\* The part of an ordered list that belongs to a subset.
LEMMA PartInOrder ==
  ASSUME NEW S, NEW R, NEW f, InOrder(f, S, R), NEW T, T \subseteq S,
         NEW P, P = {i \in DOMAIN f : f[i] \in T}
  PROVE  InOrder(PlacedAt(f, P), T, R)
<1> DEFINE g == PlacedAt(f, P)
           n == Cardinality(P)
           h == Ascend(P)
<1>1. /\ f \in Seq(S) /\ DOMAIN f = 1 .. Len(f) /\ Len(f) \in Nat
      /\ \A i, j \in 1 .. Len(f) : i < j => <<f[i], f[j]>> \in R
      /\ \A x \in S : \E i \in 1 .. Len(f) : f[i] = x
  BY LenProperties DEF InOrder
<1>2. P \subseteq DOMAIN f OBVIOUS
<1>3. /\ IsFiniteSet(P) /\ P \subseteq Int /\ n \in Nat /\ g \in Seq(S) /\ Len(g) = n
      /\ \A i \in 1 .. n : g[i] = f[h[i]]
      /\ \A i \in 1 .. n : h[i] \in P
  BY <1>1, <1>2, AtFacts
<1>4. /\ \A i, j \in 1 .. n : i < j => h[i] < h[j]
      /\ \A x \in P : \E i \in 1 .. n : h[i] = x
  <2>1. IsFiniteSet(P) /\ P \subseteq Int BY <1>3
  <2> QED BY <2>1, AscendFacts
<1> HIDE DEF g, n, h
<1>5. \A i \in P : i \in 1 .. Len(f) /\ f[i] \in T BY <1>1
<1>6. \A i \in 1 .. n : g[i] \in T BY <1>3, <1>5
<1>7. g \in Seq(T)
  <2>1. g = [i \in 1 .. n |-> g[i]] BY <1>3, LenProperties
  <2>2. g \in [1 .. n -> T] BY <1>6, <2>1
  <2> QED BY <1>3, <2>2
<1>8. \A i, j \in 1 .. n : i < j => <<g[i], g[j]>> \in R
  <2> SUFFICES ASSUME NEW i \in 1 .. n, NEW j \in 1 .. n, i < j PROVE <<g[i], g[j]>> \in R
    OBVIOUS
  <2>1. h[i] \in 1 .. Len(f) /\ h[j] \in 1 .. Len(f) BY <1>3, <1>5
  <2>2. h[i] < h[j] BY <1>4
  <2> QED BY <1>1, <1>3, <2>1, <2>2
<1>9. \A x \in T : \E i \in 1 .. n : g[i] = x
  <2> SUFFICES ASSUME NEW x \in T PROVE \E i \in 1 .. n : g[i] = x OBVIOUS
  <2>1. PICK j \in 1 .. Len(f) : f[j] = x BY <1>1
  <2>2. j \in P BY <1>1, <2>1
  <2>3. PICK i \in 1 .. n : h[i] = j BY <1>4, <2>2
  <2> QED BY <1>3, <2>1, <2>3
<1> QED BY <1>3, <1>7, <1>8, <1>9 DEF InOrder, g

(***************************************************************************)
(* Each listing lists what its query picks, in the order of its stream.    *)
(***************************************************************************)
Stored == rows \subseteq Row /\ IsFiniteSet(rows) /\ Distinct(rows)

LEMMA PickedFacts ==
  ASSUME Stored, NEW stream \in Stream, NEW S, S \subseteq rows
  PROVE  /\ IsFiniteSet(S) /\ S \subseteq Row /\ StrictOn(Precedence(stream), S)
         /\ \A a, b \in S : <<a, b>> \in Precedence(stream) <=> Precedes(stream, a, b)
<1>1. S \in SUBSET rows /\ S \subseteq Row /\ Distinct(S) BY DEF Stored, Distinct
<1>2. IsFiniteSet(S) BY <1>1, FS_Subset DEF Stored
<1>3. \A a, b \in S : <<a, b>> \in Precedence(stream) <=> Precedes(stream, a, b)
  BY <1>1, PrecedenceFacts
<1> QED BY <1>1, <1>2, <1>3, PrecedenceIsStrict

LEMMA AuditInOrder ==
  ASSUME Stored, NEW stream \in {"audit", "mutations"}, NEW query
  PROVE  InOrder(AuditListing(query), {row \in rows : row.kind \in query.kind}, Precedence(stream))
<1> DEFINE S == {row \in rows : row.kind \in query.kind}
           R == Precedence(stream)
           o == AuditListing(query)
           before(x) == {y \in S : y.id > x.id}
           placed(n) == CHOOSE x \in S : Cardinality(before(x)) = n - 1
<1>1. S \subseteq rows /\ stream \in Stream BY DEF Stream
<1>2. o = [n \in 1 .. Cardinality(S) |-> placed(n)]
  BY DEF AuditListing, Ordered
<1> HIDE DEF S, o, placed
<1>3. /\ IsFiniteSet(S) /\ StrictOn(R, S)
      /\ \A a, b \in S : <<a, b>> \in R <=> a.id > b.id
  BY <1>1, PickedFacts, PrecedesCases
<1>4. \A x \in S : before(x) = Below(x, S, R) BY <1>3 DEF Below
<1> HIDE DEF R, before
<1>5. ASSUME NEW n \in 1 .. Cardinality(S)
      PROVE  o[n] \in S /\ Cardinality(Below(o[n], S, R)) = n - 1
  <2>1. \E x \in S : Cardinality(Below(x, S, R)) = n - 1 BY <1>3, EveryPlaceIsTaken
  <2>2. \E x \in S : Cardinality(before(x)) = n - 1 BY <1>4, <2>1
  <2>3. placed(n) \in S /\ Cardinality(before(placed(n))) = n - 1 BY <2>2 DEF placed
  <2>4. o[n] = placed(n) BY <1>2
  <2> QED BY <1>4, <2>3, <2>4
<1>6. o = [n \in 1 .. Cardinality(S) |-> o[n]] BY <1>2
<1>7. InOrder(o, S, R) BY <1>3, <1>5, <1>6, ListedInOrder
<1> QED BY <1>7 DEF S, o, R

LEMMA NotesInOrder ==
  ASSUME Stored, NEW query
  PROVE  InOrder(NoteListing(query), Picked("notes", query), Precedence("notes"))
<1> DEFINE S == {row \in rows : NoteMatches(row, query) /\ StaleMatches(row, query.stale)}
           R == Precedence("notes")
           o == NoteListing(query)
           before(x) == {y \in S : y.at > x.at \/ (y.at = x.at /\ y.id > x.id)}
           placed(n) == CHOOSE x \in S : Cardinality(before(x)) = n - 1
<1>1. S \subseteq rows /\ "notes" \in Stream /\ S = Picked("notes", query)
  BY DEF Stream, Picked, NoteMatches
<1>2. o = [n \in 1 .. Cardinality(S) |-> placed(n)]
  BY DEF NoteListing, Ordered
<1> HIDE DEF S, o, placed
<1>3. /\ IsFiniteSet(S) /\ StrictOn(R, S)
      /\ \A a, b \in S : <<a, b>> \in R <=> a.at > b.at \/ (a.at = b.at /\ a.id > b.id)
  BY <1>1, PickedFacts, PrecedesCases
<1>4. \A x \in S : before(x) = Below(x, S, R) BY <1>3 DEF Below
<1> HIDE DEF R, before
<1>5. ASSUME NEW n \in 1 .. Cardinality(S)
      PROVE  o[n] \in S /\ Cardinality(Below(o[n], S, R)) = n - 1
  <2>1. \E x \in S : Cardinality(Below(x, S, R)) = n - 1 BY <1>3, EveryPlaceIsTaken
  <2>2. \E x \in S : Cardinality(before(x)) = n - 1 BY <1>4, <2>1
  <2>3. placed(n) \in S /\ Cardinality(before(placed(n))) = n - 1 BY <2>2 DEF placed
  <2>4. o[n] = placed(n) BY <1>2
  <2> QED BY <1>4, <2>3, <2>4
<1>6. o = [n \in 1 .. Cardinality(S) |-> o[n]] BY <1>2
<1>7. InOrder(o, S, R) BY <1>3, <1>5, <1>6, ListedInOrder
<1> QED BY <1>1, <1>7 DEF o, R

LEMMA EventsInOrder ==
  ASSUME Stored, NEW query
  PROVE  InOrder(EventListing(query), Picked("events", query), Precedence("events"))
<1> DEFINE S == {row \in rows : EventMatches(row, query)}
           R == Precedence("events")
           o == EventListing(query)
           before(x) == {y \in S : y.id < x.id}
           placed(n) == CHOOSE x \in S : Cardinality(before(x)) = n - 1
<1>1. S \subseteq rows /\ "events" \in Stream /\ S = Picked("events", query)
  BY DEF Stream, Picked, EventMatches
<1>2. o = [n \in 1 .. Cardinality(S) |-> placed(n)]
  BY DEF EventListing, Ordered
<1> HIDE DEF S, o, placed
<1>3. /\ IsFiniteSet(S) /\ StrictOn(R, S)
      /\ \A a, b \in S : <<a, b>> \in R <=> a.id < b.id
  BY <1>1, PickedFacts, PrecedesCases
<1>4. \A x \in S : before(x) = Below(x, S, R) BY <1>3 DEF Below
<1> HIDE DEF R, before
<1>5. ASSUME NEW n \in 1 .. Cardinality(S)
      PROVE  o[n] \in S /\ Cardinality(Below(o[n], S, R)) = n - 1
  <2>1. \E x \in S : Cardinality(Below(x, S, R)) = n - 1 BY <1>3, EveryPlaceIsTaken
  <2>2. \E x \in S : Cardinality(before(x)) = n - 1 BY <1>4, <2>1
  <2>3. placed(n) \in S /\ Cardinality(before(placed(n))) = n - 1 BY <2>2 DEF placed
  <2>4. o[n] = placed(n) BY <1>2
  <2> QED BY <1>4, <2>3, <2>4
<1>6. o = [n \in 1 .. Cardinality(S) |-> o[n]] BY <1>2
<1>7. InOrder(o, S, R) BY <1>3, <1>5, <1>6, ListedInOrder
<1> QED BY <1>1, <1>7 DEF o, R

\* Of the artifacts, also how many are before each.
LEMMA ArtifactsInOrder ==
  ASSUME Stored, NEW query
  PROVE  /\ InOrder(ArtifactListing(query), Picked("artifacts", query), Precedence("artifacts"))
         /\ RankedIn(ArtifactListing(query), Picked("artifacts", query), Precedence("artifacts"))
<1> DEFINE S == {row \in rows : row.kind \in query.kind}
           R == Precedence("artifacts")
           o == ArtifactListing(query)
           before(x) == {y \in S : OlderFirst(y, x)}
           placed(n) == CHOOSE x \in S : Cardinality(before(x)) = n - 1
<1>1. S \subseteq rows /\ "artifacts" \in Stream /\ S = Picked("artifacts", query)
  BY DEF Stream, Picked
<1>2. o = [n \in 1 .. Cardinality(S) |-> placed(n)]
  BY DEF ArtifactListing, Ordered
<1> HIDE DEF S, o, placed
<1>3. /\ IsFiniteSet(S) /\ StrictOn(R, S)
      /\ \A a, b \in S : <<a, b>> \in R <=> OlderFirst(a, b)
  BY <1>1, PickedFacts, PrecedesCases
<1>4. \A x \in S : before(x) = Below(x, S, R) BY <1>3 DEF Below
<1> HIDE DEF R, before
<1>5. ASSUME NEW n \in 1 .. Cardinality(S)
      PROVE  o[n] \in S /\ Cardinality(Below(o[n], S, R)) = n - 1
  <2>1. \E x \in S : Cardinality(Below(x, S, R)) = n - 1 BY <1>3, EveryPlaceIsTaken
  <2>2. \E x \in S : Cardinality(before(x)) = n - 1 BY <1>4, <2>1
  <2>3. placed(n) \in S /\ Cardinality(before(placed(n))) = n - 1 BY <2>2 DEF placed
  <2>4. o[n] = placed(n) BY <1>2
  <2> QED BY <1>4, <2>3, <2>4
<1>6. o = [n \in 1 .. Cardinality(S) |-> o[n]] BY <1>2
<1>7. InOrder(o, S, R) /\ RankedIn(o, S, R)
  BY <1>3, <1>5, <1>6, ListedInOrder
<1> QED BY <1>1, <1>7 DEF o, R

LEMMA MutationsInOrder ==
  ASSUME Stored, NEW query
  PROVE  InOrder(MutationListing(query), Picked("mutations", query), Precedence("mutations"))
<1> DEFINE S == {row \in rows : row.kind \in query.kind}
           T == {row \in S : row.kind # LockEvent}
           f == AuditListing(query)
           P == {i \in DOMAIN f : f[i] \in T}
<1>1. InOrder(f, S, Precedence("mutations")) BY AuditInOrder
<1>2. \A i \in DOMAIN f : f[i] \in S
  <2>1. f \in Seq(S) BY <1>1 DEF InOrder
  <2> QED BY <2>1, LenProperties, ElementOfSeq
<1>3. MutationListing(query) = PlacedAt(f, {i \in DOMAIN f : f[i].kind # LockEvent})
  BY DEF MutationListing, Selected
<1>4. P = {i \in DOMAIN f : f[i].kind # LockEvent} BY <1>2
<1>5. T = Picked("mutations", query) BY DEF Picked
<1> HIDE DEF S, f
<1>6. InOrder(PlacedAt(f, P), T, Precedence("mutations")) BY <1>1, PartInOrder
<1> QED BY <1>3, <1>4, <1>5, <1>6 DEF f

\* Each stream's listing is what its query picks, in its order.
LEMMA ListingInOrder ==
  ASSUME Stored, NEW stream \in Stream, NEW query
  PROVE  InOrder(Listing(stream, query), Picked(stream, query), Precedence(stream))
<1>1. CASE stream = "audit"
  <2>1. Picked("audit", query) = {row \in rows : row.kind \in query.kind} BY DEF Picked
  <2> QED BY <1>1, <2>1, AuditInOrder DEF Listing
<1>2. CASE stream = "mutations" BY <1>2, MutationsInOrder DEF Listing
<1>3. CASE stream = "notes" BY <1>3, NotesInOrder DEF Listing
<1>4. CASE stream = "artifacts" BY <1>4, ArtifactsInOrder DEF Listing
<1>5. CASE stream = "events" BY <1>5, EventsInOrder DEF Listing
<1> QED BY <1>1, <1>2, <1>3, <1>4, <1>5 DEF Stream

(***************************************************************************)
(* A page of a set of rows: the first of them, and where the next begins.  *)
(***************************************************************************)
PageOf(answer, stream, T, query) ==
  /\ answer.page \in Seq(T)
  /\ \A i, j \in 1 .. Len(answer.page) : i < j => <<answer.page[i], answer.page[j]>> \in Precedence(stream)
  /\ answer.state \in {"open", "done"}
  /\ answer.state = "done" => \A x \in T : x \in ToSet(answer.page)
  /\ answer.state = "open" =>
       /\ Len(answer.page) > 0
       /\ answer.next = [position |-> KeyOf(stream, Last(answer.page)), query |-> query]
       /\ \A x \in T : \/ x \in ToSet(answer.page)
                       \/ <<Last(answer.page), x>> \in Precedence(stream)

LEMMA FirstOnes ==
  ASSUME NEW S, NEW s \in Seq(S), NEW k \in Nat, k <= Len(s), NEW u, u = SubSeq(s, 1, k)
  PROVE  /\ u \in Seq(S) /\ Len(u) = k /\ DOMAIN u = 1 .. k
         /\ \A i \in 1 .. k : u[i] = s[i] /\ u[i] \in S
<1>1. Len(s) \in Nat /\ \A i \in 1 .. Len(s) : s[i] \in S BY LenProperties, ElementOfSeq
<1>2. \A i \in 1 .. k : s[i] \in S BY <1>1
<1>3. /\ u \in Seq(S) /\ Len(u) = IF 1 <= k THEN k - 1 + 1 ELSE 0
      /\ \A i \in 1 .. k - 1 + 1 : u[i] = s[1 + i - 1]
  BY <1>2, SubSeqProperties
<1>4. \A i \in 1 .. k : i \in 1 .. k - 1 + 1 /\ 1 + i - 1 = i OBVIOUS
<1>5. Len(u) = k BY <1>3
<1> QED BY <1>2, <1>3, <1>4, <1>5, LenProperties

\* The envelope of a page cuts the rest of a listing after its first rows.
LEMMA CutPages ==
  ASSUME NEW stream \in Stream, NEW T, NEW rest, InOrder(rest, T, Precedence(stream)),
         NEW query, NEW position, \A x \in T : position[x] = KeyOf(stream, x)
  PROVE  PageOf(Cut(rest, query, position), stream, T, query)
<1> DEFINE R == Precedence(stream)
           n == Len(rest)
<1>1. /\ rest \in Seq(T) /\ n \in Nat /\ DOMAIN rest = 1 .. n /\ \A i \in 1 .. n : rest[i] \in T
      /\ \A i, j \in 1 .. n : i < j => <<rest[i], rest[j]>> \in R
      /\ \A x \in T : \E i \in 1 .. n : rest[i] = x
  BY LenProperties, ElementOfSeq DEF InOrder
<1>2. PageLimit \in Nat /\ PageLimit > 0 BY ListingsAssumption
<1> HIDE DEF R, n
<1>3. CASE n > PageLimit
  <2> DEFINE page == SubSeq(rest, 1, PageLimit)
             last == rest[PageLimit]
             next == [position |-> position[last], query |-> query]
  <2>1. Cut(rest, query, position) = [page |-> page, state |-> "open", next |-> next]
    BY <1>3 DEF Cut, n
  <2>2. /\ page \in Seq(T) /\ Len(page) = PageLimit /\ DOMAIN page = 1 .. PageLimit
        /\ \A i \in 1 .. PageLimit : page[i] = rest[i]
    BY <1>1, <1>2, <1>3, FirstOnes DEF n
  <2> HIDE DEF page
  <2>3. PageLimit \in 1 .. PageLimit /\ PageLimit \in 1 .. n BY <1>1, <1>2, <1>3
  <2>4. Last(page) = last /\ last \in T BY <1>1, <2>2, <2>3 DEF Last
  <2>5. next = [position |-> KeyOf(stream, last), query |-> query] BY <2>4
  <2> HIDE DEF next, last
  <2>6. ASSUME NEW i \in 1 .. PageLimit, NEW j \in 1 .. PageLimit, i < j
        PROVE  <<page[i], page[j]>> \in R
    <3>1. i \in 1 .. n /\ j \in 1 .. n BY <1>1, <1>2, <1>3
    <3> QED BY <1>1, <2>2, <2>6, <3>1
  <2>7. ASSUME NEW x \in T PROVE x \in ToSet(page) \/ <<last, x>> \in R
    <3>1. PICK i \in 1 .. n : rest[i] = x BY <1>1
    <3>2. CASE i <= PageLimit
      <4>1. i \in DOMAIN page /\ page[i] = x BY <1>2, <2>2, <3>1, <3>2
      <4> QED BY <4>1 DEF ToSet
    <3>3. CASE ~(i <= PageLimit)
      <4>1. PageLimit < i BY <1>1, <1>2, <3>3
      <4> QED BY <1>1, <2>3, <3>1, <4>1 DEF last
    <3> QED BY <3>2, <3>3
  <2> QED BY <1>2, <2>1, <2>2, <2>4, <2>5, <2>6, <2>7 DEF PageOf, R
<1>4. CASE ~(n > PageLimit)
  <2>1. Cut(rest, query, position) = [page |-> rest, state |-> "done", next |-> FirstRow]
    BY <1>4 DEF Cut, n
  <2>2. \A x \in T : x \in ToSet(rest) BY <1>1 DEF ToSet
  <2>3. \A i, j \in 1 .. Len(rest) : i < j => <<rest[i], rest[j]>> \in Precedence(stream)
    BY <1>1 DEF R, n
  <2> DEFINE answer == Cut(rest, query, position)
  <2>4. answer.page = rest /\ answer.state = "done" BY <2>1
  <2> HIDE DEF answer
  <2>5. rest \in Seq(T) BY <1>1
  <2>6. PageOf(answer, stream, T, query) BY ONLY <2>2, <2>3, <2>4, <2>5 DEF PageOf
  <2> QED BY <2>6 DEF answer
<1> QED BY <1>3, <1>4

\* What is left for a cursor: everything, or what comes after a row.
LeftFrom(stream, query, position, a) ==
  {x \in Picked(stream, query) : position = <<>> \/ <<a, x>> \in Precedence(stream)}

CursorAt(stream, position, a) == position = <<>> \/ (a \in Row /\ position = KeyOf(stream, a))

\* The members of an ordered list that pass a test are those of a set.
LEMMA RestInOrder ==
  ASSUME NEW S, NEW R, NEW f, InOrder(f, S, R), NEW T, T \subseteq S,
         NEW P, P \subseteq DOMAIN f, \A i \in DOMAIN f : f[i] \in S => (i \in P <=> f[i] \in T)
  PROVE  InOrder(PlacedAt(f, P), T, R)
<1>1. \A i \in DOMAIN f : f[i] \in S BY LenProperties, ElementOfSeq DEF InOrder
<1>2. P = {i \in DOMAIN f : f[i] \in T} BY <1>1
<1> QED BY <1>2, PartInOrder

LEMMA BelowAnchorInOrder ==
  ASSUME Stored, NEW stream \in {"audit", "mutations"}, NEW query, NEW f,
         InOrder(f, Picked(stream, query), Precedence(stream)),
         NEW position, NEW a, CursorAt(stream, position, a)
  PROVE  InOrder(BelowAnchor(f, position), LeftFrom(stream, query, position, a), Precedence(stream))
<1> DEFINE S == Picked(stream, query)
           T == LeftFrom(stream, query, position, a)
           P == {i \in DOMAIN f : f[i].id < position[1]}
<1>1. CASE position = <<>>
  <2>1. T = S BY <1>1 DEF LeftFrom
  <2>2. BelowAnchor(f, position) = f BY <1>1 DEF BelowAnchor
  <2> QED BY <2>1, <2>2
<1>2. CASE position # <<>>
  <2>1. a \in Row /\ position = <<a.id>> BY <1>2 DEF CursorAt, KeyOf
  <2>2. BelowAnchor(f, position) = PlacedAt(f, P) BY <1>2 DEF BelowAnchor, Selected
  <2>3. T \subseteq S BY DEF LeftFrom
  <2>4. ASSUME NEW x \in S PROVE x.id < position[1] <=> x \in T
    <3>1. x \in Row /\ stream \in Stream BY DEF Picked, Stored, Stream
    <3>2. <<a, x>> \in Precedence(stream) <=> a.id > x.id
      <4>1. <<a, x>> \in Precedence(stream) <=> Precedes(stream, a, x)
        BY <2>1, <3>1, PrecedenceFacts
      <4>2. CASE stream = "audit" BY <4>1, <4>2, PrecedesCases
      <4>3. CASE stream = "mutations" BY <4>1, <4>3, PrecedesCases
      <4> QED BY <4>2, <4>3
    <3>3. x.id \in Int /\ a.id \in Int BY <2>1, <3>1, RowFacts
    <3> QED BY <1>2, <2>1, <3>2, <3>3 DEF LeftFrom
  <2>5. \A i \in DOMAIN f : f[i] \in S => (i \in P <=> f[i] \in T) BY <2>4
  <2> HIDE DEF S, T
  <2>6. InOrder(f, S, Precedence(stream)) BY DEF S
  <2>7. InOrder(PlacedAt(f, P), T, Precedence(stream)) BY <2>3, <2>5, <2>6, RestInOrder
  <2> QED BY <2>2, <2>7 DEF T
<1> QED BY <1>1, <1>2

\* A page of an anchored stream is the beginning of what lies behind its cursor.
LEMMA AnswersPage ==
  ASSUME Stored, NEW stream \in Stream \ {"artifacts"}, NEW given, NEW cursor, NEW a,
         CursorAt(stream, cursor.position, a), NEW query,
         query = IF stream = "events" \/ cursor.position = <<>> THEN given ELSE cursor.query
  PROVE  PageOf(Answer(stream, given, cursor), stream,
                LeftFrom(stream, query, cursor.position, a), query)
<1> DEFINE S == Picked(stream, query)
           T == LeftFrom(stream, query, cursor.position, a)
           R == Precedence(stream)
           ids == [row \in rows |-> <<row.id>>]
           keys == [row \in rows |-> <<row.at, row.id>>]
<1>1. stream \in Stream /\ T \subseteq S /\ S \subseteq rows BY DEF LeftFrom, Picked
<1>2. stream # "notes" => \A x \in T : ids[x] = KeyOf(stream, x) BY <1>1 DEF KeyOf
<1>3. stream = "notes" => \A x \in T : keys[x] = KeyOf(stream, x) BY <1>1 DEF KeyOf
<1>4. ASSUME NEW x \in S, a \in Row
      PROVE  /\ x \in Row /\ x.id \in Int /\ a.id \in Int
             /\ <<a, x>> \in R <=> Precedes(stream, a, x)
  BY <1>1, <1>4, RowFacts, PrecedenceFacts DEF Stored
<1>5. CASE stream = "audit"
  <2> DEFINE rest == BelowAnchor(AuditListing(query), cursor.position)
  <2>1. AuditQuery(given, cursor) = query BY <1>5 DEF AuditQuery
  <2>2. Answer(stream, given, cursor) = Cut(rest, query, ids) BY <1>5, <2>1 DEF Answer, AuditPage
  <2>3. InOrder(AuditListing(query), S, R) BY <1>5, ListingInOrder DEF Listing
  <2>4. InOrder(rest, T, R) BY <1>5, <2>3, BelowAnchorInOrder
  <2> QED BY <1>1, <1>2, <1>5, <2>2, <2>4, CutPages
<1>6. CASE stream = "mutations"
  <2> DEFINE rest == BelowAnchor(MutationListing(query), cursor.position)
  <2>1. AuditQuery(given, cursor) = query BY <1>6 DEF AuditQuery
  <2>2. Answer(stream, given, cursor) = Cut(rest, query, ids) BY <1>6, <2>1 DEF Answer, MutationPage
  <2>3. InOrder(MutationListing(query), S, R) BY <1>6, ListingInOrder DEF Listing
  <2>4. InOrder(rest, T, R) BY <1>6, <2>3, BelowAnchorInOrder
  <2> QED BY <1>1, <1>2, <1>6, <2>2, <2>4, CutPages
<1>7. CASE stream = "notes"
  <2> DEFINE f == NoteListing(query)
             P == {i \in DOMAIN f : AfterAnchor(f[i], cursor.position)}
             rest == IF cursor.position = <<>> THEN f ELSE PlacedAt(f, P)
  <2>1. NoteQuery(given, cursor) = query BY <1>7 DEF NoteQuery
  <2>2. Answer(stream, given, cursor) = Cut(rest, query, keys)
    BY <1>7, <2>1 DEF Answer, NotePage, Selected
  <2>3. InOrder(f, S, R) BY <1>7, ListingInOrder DEF Listing
  <2>4. InOrder(rest, T, R)
    <3>1. CASE cursor.position = <<>>
      <4>1. T = S BY <3>1 DEF LeftFrom
      <4> QED BY <2>3, <3>1, <4>1
    <3>2. CASE cursor.position # <<>>
      <4>1. a \in Row /\ cursor.position = <<a.at, a.id>> BY <1>7, <3>2 DEF CursorAt, KeyOf
      <4>2. ASSUME NEW x \in S PROVE AfterAnchor(x, cursor.position) <=> x \in T
        <5>1. <<a, x>> \in R <=> (a.at > x.at \/ (a.at = x.at /\ a.id > x.id))
          BY <1>4, <1>7, <4>1, PrecedesCases
        <5>2. x.id \in Int /\ a.id \in Int /\ x.at \in Int /\ a.at \in Int
          BY <1>4, <4>1, RowFacts
        <5>3. AfterAnchor(x, cursor.position) <=> (x.at < a.at \/ (x.at = a.at /\ x.id < a.id))
          BY <4>1 DEF AfterAnchor
        <5>4. x \in T <=> <<a, x>> \in R BY <3>2 DEF LeftFrom
        <5> QED BY <5>1, <5>2, <5>3, <5>4
      <4>3. \A i \in DOMAIN f : f[i] \in S => (i \in P <=> f[i] \in T) BY <4>2
      <4> HIDE DEF S, T, R, f
      <4>4. InOrder(PlacedAt(f, P), T, R) BY <1>1, <2>3, <4>3, RestInOrder
      <4> QED BY <3>2, <4>4
    <3> QED BY <3>1, <3>2
  <2> QED BY <1>1, <1>3, <1>7, <2>2, <2>4, CutPages
<1>8. CASE stream = "events"
  <2> DEFINE f == EventListing(query)
             P == {i \in DOMAIN f : f[i].id > cursor.position[1]}
             rest == IF cursor.position = <<>> THEN f ELSE PlacedAt(f, P)
  <2>1. EventQuery(given, cursor) = query BY <1>8 DEF EventQuery
  <2>2. Answer(stream, given, cursor) = Cut(rest, query, ids)
    BY <1>8, <2>1 DEF Answer, EventPage, Selected
  <2>3. InOrder(f, S, R) BY <1>8, ListingInOrder DEF Listing
  <2>4. InOrder(rest, T, R)
    <3>1. CASE cursor.position = <<>>
      <4>1. T = S BY <3>1 DEF LeftFrom
      <4> QED BY <2>3, <3>1, <4>1
    <3>2. CASE cursor.position # <<>>
      <4>1. a \in Row /\ cursor.position = <<a.id>> BY <1>8, <3>2 DEF CursorAt, KeyOf
      <4>2. ASSUME NEW x \in S PROVE x.id > cursor.position[1] <=> x \in T
        <5>1. <<a, x>> \in R <=> a.id < x.id BY <1>4, <1>8, <4>1, PrecedesCases
        <5>2. x \in T <=> <<a, x>> \in R BY <3>2 DEF LeftFrom
        <5> QED BY <1>4, <4>1, <5>1, <5>2
      <4>3. \A i \in DOMAIN f : f[i] \in S => (i \in P <=> f[i] \in T) BY <4>2
      <4> HIDE DEF S, T, R, f
      <4>4. InOrder(PlacedAt(f, P), T, R) BY <1>1, <2>3, <4>3, RestInOrder
      <4> QED BY <3>2, <4>4
    <3> QED BY <3>1, <3>2
  <2> QED BY <1>1, <1>2, <1>8, <2>2, <2>4, CutPages
<1> QED BY <1>5, <1>6, <1>7, <1>8 DEF Stream

(***************************************************************************)
(* What a walk has listed, and one page more: after an anchor.             *)
(***************************************************************************)
OnceIn(l) == \A i, j \in 1 .. Len(l) : i # j /\ l[i].id = l[j].id => l[i].id \in moved

Straight(l, stream) ==
  /\ l \in Seq(Row)
  /\ \A i, j \in 1 .. Len(l) : i < j => <<l[i], l[j]>> \in Precedence(stream)
  /\ stream = "notes" =>
       \A i \in 1 .. Len(l), r \in rows : r.id = l[i].id /\ r.id \notin moved => r.at = l[i].at

JoinedLists(l, page, both) ==
  /\ both \in Seq(Row) /\ Len(both) = Len(l) + Len(page) /\ Len(l) \in Nat /\ Len(page) \in Nat
  /\ \A i \in 1 .. Len(l) : both[i] = l[i]
  /\ \A i \in 1 .. Len(page) : both[Len(l) + i] = page[i]
  /\ \A i \in 1 .. Len(both) : i \in 1 .. Len(l) \/ (i > Len(l) /\ i - Len(l) \in 1 .. Len(page))
  /\ ToSet(both) = ToSet(l) \cup ToSet(page)
  /\ Len(page) > 0 => Last(both) = Last(page)

LEMMA ListsJoin ==
  ASSUME NEW l \in Seq(Row), NEW page \in Seq(Row)
  PROVE  JoinedLists(l, page, l \o page)
<1> DEFINE both == l \o page
           k == Len(l)
           m == Len(page)
<1>1. k \in Nat /\ m \in Nat /\ DOMAIN l = 1 .. k /\ DOMAIN page = 1 .. m BY LenProperties
<1>2. /\ both \in Seq(Row) /\ Len(both) = k + m
      /\ \A i \in 1 .. k + m : both[i] = IF i <= k THEN l[i] ELSE page[i - k]
  BY <1>1, ConcatLists
<1>3. DOMAIN both = 1 .. k + m BY <1>2, LenProperties
<1> HIDE DEF both, k, m
<1>4. \A i \in 1 .. k : i \in 1 .. k + m /\ i <= k BY <1>1
<1>5. \A i \in 1 .. m : k + i \in 1 .. k + m /\ ~(k + i <= k) /\ (k + i) - k = i BY <1>1
<1>6. \A i \in 1 .. k + m : i \in 1 .. k \/ (i > k /\ i - k \in 1 .. m /\ k + (i - k) = i) BY <1>1
<1>7. \A i \in 1 .. k : both[i] = l[i] BY <1>2, <1>4
<1>8. \A i \in 1 .. m : both[k + i] = page[i] BY <1>2, <1>5
<1>9. ToSet(both) = ToSet(l) \cup ToSet(page)
  <2>1. \A i \in 1 .. k : l[i] \in ToSet(both) BY <1>3, <1>4, <1>7 DEF ToSet
  <2>2. \A i \in 1 .. m : page[i] \in ToSet(both)
    <3> SUFFICES ASSUME NEW i \in 1 .. m PROVE page[i] \in ToSet(both) OBVIOUS
    <3>1. k + i \in DOMAIN both /\ both[k + i] = page[i] BY <1>3, <1>5, <1>8
    <3> QED BY <3>1 DEF ToSet
  <2>3. \A i \in 1 .. k + m : both[i] \in ToSet(l) \cup ToSet(page)
    <3> SUFFICES ASSUME NEW i \in 1 .. k + m PROVE both[i] \in ToSet(l) \cup ToSet(page) OBVIOUS
    <3>1. CASE i \in 1 .. k BY <1>1, <1>7, <3>1 DEF ToSet
    <3>2. CASE ~(i \in 1 .. k)
      <4>1. i - k \in 1 .. m /\ both[i] = page[i - k] BY <1>6, <1>8, <3>2
      <4> QED BY <1>1, <4>1 DEF ToSet
    <3> QED BY <3>1, <3>2
  <2>4. ToSet(l) \subseteq ToSet(both) BY <1>1, <2>1 DEF ToSet
  <2>5. ToSet(page) \subseteq ToSet(both) BY <1>1, <2>2 DEF ToSet
  <2>6. ToSet(both) \subseteq ToSet(l) \cup ToSet(page) BY <1>3, <2>3 DEF ToSet
  <2> QED BY <2>4, <2>5, <2>6
<1>10. m > 0 => Last(both) = Last(page)
  <2>1. ASSUME m > 0 PROVE both[k + m] = page[m]
    <3>1. m \in 1 .. m BY <1>1, <2>1
    <3> QED BY <1>8, <3>1
  <2> QED BY <1>2, <2>1 DEF Last, m
<1> QED BY <1>1, <1>2, <1>6, <1>7, <1>8, <1>9, <1>10 DEF JoinedLists, both, k, m

\* A page behind the last row listed continues the list in order and once each.
LEMMA AnchoredContinues ==
  ASSUME Stored, NEW stream \in Stream \ {"artifacts"}, NEW l, Straight(l, stream), OnceIn(l),
         NEW T, T \subseteq rows,
         Len(l) > 0 => \A x \in T : <<Last(l), x>> \in Precedence(stream),
         NEW answer, NEW query, PageOf(answer, stream, T, query)
  PROVE  Straight(l \o answer.page, stream) /\ OnceIn(l \o answer.page)
<1> DEFINE page == answer.page
           both == l \o page
           k == Len(l)
           m == Len(page)
           R == Precedence(stream)
<1>1. l \in Seq(Row) /\ page \in Seq(T) BY DEF Straight, PageOf
<1>2. page \in Seq(Row) /\ \A i \in 1 .. m : page[i] \in T /\ page[i] \in rows /\ page[i] \in Row
  <2>1. T \subseteq Row BY DEF Stored
  <2>2. \A i \in 1 .. m : page[i] \in T BY <1>1, ElementOfSeq
  <2> QED BY <1>1, <2>1, <2>2
<1>3. JoinedLists(l, page, both) BY <1>1, <1>2, ListsJoin
<1>4. \A i \in 1 .. k : l[i] \in Row BY <1>1, ElementOfSeq
<1>5. \A i \in 1 .. k, j \in 1 .. m : <<l[i], page[j]>> \in R
  <2> SUFFICES ASSUME NEW i \in 1 .. k, NEW j \in 1 .. m PROVE <<l[i], page[j]>> \in R
    OBVIOUS
  <2>1. k \in Nat /\ k > 0 /\ k \in 1 .. k BY <1>3 DEF JoinedLists
  <2>2. <<l[k], page[j]>> \in R BY <1>2, <2>1 DEF Last
  <2>3. CASE i = k BY <2>2, <2>3
  <2>4. CASE i < k
    <3>1. <<l[i], l[k]>> \in R BY <2>1, <2>4 DEF Straight
    <3>2. l[i] \in Row /\ l[k] \in Row /\ page[j] \in Row /\ stream \in Stream BY <1>2, <1>4, <2>1
    <3> QED BY <2>2, <3>1, <3>2, PrecedenceCarries
  <2> QED BY <2>1, <2>3, <2>4
<1> DEFINE straight(u) == \A i, j \in 1 .. Len(u) : i < j => <<u[i], u[j]>> \in R
<1>6. straight(l) /\ straight(page) BY DEF Straight, PageOf
<1>7. /\ both \in Seq(Row) /\ Len(both) = k + m /\ k \in Nat /\ m \in Nat
      /\ \A i \in 1 .. k : both[i] = l[i]
      /\ \A i \in 1 .. m : both[k + i] = page[i]
      /\ \A i \in 1 .. k + m : i \in 1 .. k \/ (i > k /\ i - k \in 1 .. m)
  BY <1>3 DEF JoinedLists
<1> HIDE DEF both, k, m, page, R
<1>8. \A i \in 1 .. k + m : i > k => i - k \in 1 .. m /\ both[i] = page[i - k]
  <2>1. \A i \in 1 .. k + m : k + (i - k) = i BY <1>7
  <2> QED BY <1>7, <2>1
<1>9. ASSUME NEW i \in 1 .. k + m, NEW j \in 1 .. k + m, i < j
      PROVE  <<both[i], both[j]>> \in R
  <2>1. CASE j <= k
    <3>1. i \in 1 .. k /\ j \in 1 .. k BY <1>7, <1>9, <2>1
    <3> QED BY <1>6, <1>7, <1>9, <3>1 DEF k
  <2>2. CASE i <= k /\ j > k
    <3>1. i \in 1 .. k BY <1>7, <2>2
    <3> QED BY <1>5, <1>7, <1>8, <2>2, <3>1
  <2>3. CASE i > k
    <3>1. j > k /\ i - k < j - k BY <1>7, <1>9, <2>3
    <3>2. i - k \in 1 .. m /\ j - k \in 1 .. m /\ both[i] = page[i - k] /\ both[j] = page[j - k]
      BY <1>8, <2>3, <3>1
    <3> QED BY <1>6, <3>1, <3>2 DEF m
  <2> QED BY <1>7, <2>1, <2>2, <2>3
<1>10. ASSUME stream = "notes", NEW i \in 1 .. k + m, NEW r \in rows, r.id = both[i].id, r.id \notin moved
       PROVE  r.at = both[i].at
  <2>1. CASE i \in 1 .. k BY <1>7, <1>10, <2>1 DEF Straight, k
  <2>2. CASE i > k
    <3>1. both[i] \in rows BY <1>2, <1>8, <2>2
    <3> QED BY <1>10, <3>1 DEF Stored, Distinct
  <2> QED BY <1>7, <2>1, <2>2
<1>11. Straight(both, stream) BY <1>7, <1>9, <1>10 DEF Straight, R
<1>12. ASSUME NEW i \in 1 .. k + m, NEW j \in 1 .. k + m, i < j, both[i].id = both[j].id,
              both[i].id \notin moved
       PROVE  FALSE
  <2>1. <<both[i], both[j]>> \in R BY <1>9, <1>12
  <2>2. both[i] \in Row /\ both[j] \in Row BY <1>7, ElementOfSeq
  <2>3. stream = "notes" BY <1>12, <2>1, <2>2, PrecedenceFacts DEF R
  <2>4. both[i].at # both[j].at BY <1>12, <2>1, <2>2, PrecedenceFacts DEF R
  <2>5. CASE j \in 1 .. k
    <3>1. i \in 1 .. k /\ i # j BY <1>7, <1>12, <2>5
    <3>2. l[i].id = l[j].id /\ l[i].id \notin moved BY <1>7, <1>12, <2>5, <3>1
    <3> QED BY <2>5, <3>1, <3>2 DEF OnceIn, k
  <2>6. CASE j > k
    <3>1. both[j] \in rows BY <1>2, <1>8, <2>6
    <3> QED BY <1>10, <1>12, <2>3, <2>4, <3>1
  <2> QED BY <1>7, <2>5, <2>6
<1>13. OnceIn(both)
  <2> SUFFICES ASSUME NEW i \in 1 .. k + m, NEW j \in 1 .. k + m, i # j, both[i].id = both[j].id
               PROVE  both[i].id \in moved
    BY <1>7 DEF OnceIn
  <2>1. i < j \/ j < i OBVIOUS
  <2> QED BY <1>12, <2>1
<1> QED BY <1>11, <1>13 DEF both, page

(***************************************************************************)
(* And after a number of rows: the artifacts, by their places.             *)
(***************************************************************************)
Place(x, query) == Cardinality(Below(x, Picked("artifacts", query), Precedence("artifacts"))) + 1

\* A page of the listing that begins after n rows.
PageFrom(answer, n, query) ==
  /\ answer.page \in Seq(Picked("artifacts", query)) /\ answer.state \in {"open", "done", "refused"}
  /\ \A i \in 1 .. Len(answer.page) : Place(answer.page[i], query) = n + i
  /\ \A x \in Picked("artifacts", query) :
       /\ Place(x, query) > n /\ Place(x, query) <= n + Len(answer.page)
            => answer.page[Place(x, query) - n] = x
       /\ answer.state = "done" => Place(x, query) <= n + Len(answer.page)
  /\ answer.state = "open" => /\ Len(answer.page) > 0
                              /\ answer.next.position = <<n + Len(answer.page)>>

LEMMA PlacesAreNumbers ==
  ASSUME Stored, NEW query, NEW x
  PROVE  Place(x, query) \in Nat
<1>1. Below(x, Picked("artifacts", query), Precedence("artifacts")) \in SUBSET rows
  BY DEF Below, Picked
<1>2. IsFiniteSet(Below(x, Picked("artifacts", query), Precedence("artifacts")))
  BY <1>1, FS_Subset DEF Stored
<1> QED BY <1>2, FS_CardinalityType DEF Place

\* A page of the artifacts is the places its offset counts.
LEMMA ArtifactsPage ==
  ASSUME Stored, NEW given, NEW cursor, NEW n \in Nat, cursor.position = IF n = 0 THEN <<>> ELSE <<n>>
  PROVE  PageFrom(Answer("artifacts", given, cursor), n, given)
<1> DEFINE S == Picked("artifacts", given)
           f == ArtifactListing(given)
           k == Len(f)
           rest == SubSeq(f, n + 1, k)
           m == Len(rest)
           place(x) == Place(x, given)
           after == [row \in rows |-> <<n + PageLimit>>]
           answer == Answer("artifacts", given, cursor)
<1>1. InOrder(f, S, Precedence("artifacts")) /\ RankedIn(f, S, Precedence("artifacts"))
  BY ArtifactsInOrder
<1>2. /\ f \in Seq(S) /\ k \in Nat /\ \A i \in 1 .. k : f[i] \in S /\ place(f[i]) = i
      /\ \A x \in S : place(x) \in 1 .. k /\ f[place(x)] = x
  <2>1. f \in Seq(S) /\ k \in Nat BY <1>1 DEF InOrder, RankedIn
  <2>2. ASSUME NEW i \in 1 .. k PROVE f[i] \in S /\ place(f[i]) = i
    <3>1. f[i] \in S /\ Cardinality(Below(f[i], S, Precedence("artifacts"))) = i - 1
      BY <1>1 DEF RankedIn
    <3>2. (i - 1) + 1 = i OBVIOUS
    <3> QED BY <3>1, <3>2 DEF Place
  <2>3. ASSUME NEW x \in S PROVE place(x) \in 1 .. k /\ f[place(x)] = x
    <3>1. PICK i \in 1 .. k : f[i] = x BY <1>1 DEF InOrder
    <3> QED BY <2>2, <3>1
  <2> QED BY <2>1, <2>2, <2>3
<1>3. answer = IF n > k THEN [page |-> <<>>, state |-> "refused", next |-> FirstRow]
               ELSE Cut(rest, given, after)
  <2>1. (IF cursor.position = <<>> THEN 0 ELSE cursor.position[1]) = n OBVIOUS
  <2> QED BY <2>1 DEF Answer, ArtifactPage
<1>4. PageLimit \in Nat /\ PageLimit > 0 BY ListingsAssumption
<1>5. \A x \in S : x \in rows BY DEF Picked
<1>6. \A x \in S : place(x) \in Nat BY PlacesAreNumbers
<1> HIDE DEF f, k, place, answer
<1>7. CASE n > k
  <2>1. answer.page = <<>> /\ answer.state = "refused" BY <1>3, <1>7
  <2>2. <<>> \in Seq(S) /\ Len(<<>>) = 0 BY EmptySeq
  <2>3. \A x \in S : ~(place(x) > n /\ place(x) <= n + 0) BY <1>6
  <2>4. \A i \in 1 .. 0 : FALSE OBVIOUS
  <2> QED BY <2>1, <2>2, <2>3, <2>4 DEF PageFrom, place, answer
<1>8. ASSUME n <= k
      PROVE  rest \in Seq(S) /\ m = k - n /\ \A i \in 1 .. k - n : rest[i] = f[n + i] /\ n + i \in 1 .. k
  <2>1. \A i \in n + 1 .. k : f[i] \in S BY <1>2
  <2>2. /\ rest \in Seq(S) /\ Len(rest) = IF n + 1 <= k THEN k - (n + 1) + 1 ELSE 0
        /\ \A i \in 1 .. k - (n + 1) + 1 : rest[i] = f[n + 1 + i - 1]
    BY <1>2, <2>1, SubSeqProperties
  <2>3. /\ k - (n + 1) + 1 = k - n /\ (~(n + 1 <= k) => k - n = 0)
        /\ \A i \in 1 .. k - n : n + 1 + i - 1 = n + i /\ n + i \in 1 .. k
    BY <1>2, <1>8
  <2> QED BY <2>2, <2>3
<1> HIDE DEF rest, m
<1>9. ASSUME n <= k, NEW u \in Nat, u <= m, NEW page, page = SubSeq(rest, 1, u)
      PROVE  /\ page \in Seq(S) /\ Len(page) = u
             /\ \A i \in 1 .. u : place(page[i]) = n + i
             /\ \A x \in S : place(x) > n /\ place(x) <= n + u => page[place(x) - n] = x
             /\ u > 0 => page[u] = rest[u] /\ rest[u] \in rows
  <2>1. /\ page \in Seq(S) /\ Len(page) = u /\ \A i \in 1 .. u : page[i] = rest[i] /\ page[i] \in S
    <3>1. rest \in Seq(S) /\ u <= Len(rest) BY <1>8, <1>9 DEF m
    <3> QED BY <1>9, <3>1, FirstOnes
  <2>2. ASSUME NEW i \in 1 .. u PROVE n + i \in 1 .. k /\ page[i] = f[n + i]
    <3>1. i \in 1 .. k - n BY <1>2, <1>8, <1>9
    <3> QED BY <1>8, <1>9, <2>1, <3>1
  <2>3. \A i \in 1 .. u : place(page[i]) = n + i BY <1>2, <2>2
  <2>4. ASSUME NEW x \in S, place(x) > n, place(x) <= n + u PROVE page[place(x) - n] = x
    <3>1. place(x) - n \in 1 .. u /\ n + (place(x) - n) = place(x) BY <1>6, <2>4
    <3>2. page[place(x) - n] = f[place(x)] BY <2>2, <3>1
    <3> QED BY <1>2, <3>2
  <2>5. ASSUME u > 0 PROVE page[u] = rest[u] /\ rest[u] \in rows
    <3>1. u \in 1 .. u BY <2>5
    <3> QED BY <1>5, <2>1, <3>1
  <2> QED BY <2>1, <2>3, <2>4, <2>5
<1>10. CASE n <= k /\ m > PageLimit
  <2> DEFINE page == SubSeq(rest, 1, PageLimit)
             next == [position |-> after[rest[PageLimit]], query |-> given]
  <2>1. answer = [page |-> page, state |-> "open", next |-> next]
    BY <1>2, <1>3, <1>10 DEF Cut, m
  <2>2. PageLimit <= m BY <1>2, <1>4, <1>8, <1>10
  <2>3. /\ page \in Seq(S) /\ Len(page) = PageLimit
        /\ \A i \in 1 .. PageLimit : place(page[i]) = n + i
        /\ \A x \in S : place(x) > n /\ place(x) <= n + PageLimit => page[place(x) - n] = x
        /\ rest[PageLimit] \in rows
    BY <1>4, <1>9, <1>10, <2>2
  <2> HIDE DEF page
  <2>4. next.position = <<n + PageLimit>> BY <2>3
  <2> HIDE DEF next
  <2>5. answer.page = page /\ answer.state = "open" /\ answer.next.position = <<n + PageLimit>>
    BY <2>1, <2>4
  <2> QED BY <1>4, <2>3, <2>5 DEF PageFrom, place, answer
<1>11. CASE n <= k /\ ~(m > PageLimit)
  <2> DEFINE page == SubSeq(rest, 1, m)
  <2>1. rest \in Seq(S) /\ m = k - n /\ m \in Nat /\ m <= m BY <1>2, <1>8, <1>11
  <2>2. page = rest BY <2>1, SubSeqFull DEF m
  <2>3. answer = [page |-> rest, state |-> "done", next |-> FirstRow]
    BY <1>2, <1>3, <1>11 DEF Cut, m
  <2>4. /\ page \in Seq(S) /\ Len(page) = m
        /\ \A i \in 1 .. m : place(page[i]) = n + i
        /\ \A x \in S : place(x) > n /\ place(x) <= n + m => page[place(x) - n] = x
    BY <1>9, <1>11, <2>1
  <2> HIDE DEF page
  <2>5. \A x \in S : place(x) <= n + m BY <1>2, <2>1
  <2>6. answer.page = page /\ answer.state = "done" BY <2>2, <2>3
  <2> QED BY <2>4, <2>5, <2>6 DEF PageFrom, place, answer
<1> QED BY <1>2, <1>7, <1>10, <1>11

PlacesKept(l, query) ==
  /\ l \in Seq(Row)
  /\ \A i \in 1 .. Len(l) : l[i].id \notin moved =>
       l[i] \in Picked("artifacts", query) /\ Place(l[i], query) = i
  /\ \A x \in Picked("artifacts", query) :
       x.id \notin moved /\ Place(x, query) <= Len(l) => l[Place(x, query)] = x

\* A page that begins where the list ends keeps every row at its place.
LEMMA PlacesContinue ==
  ASSUME Stored, NEW query, NEW l, PlacesKept(l, query), NEW answer,
         PageFrom(answer, Len(l), query)
  PROVE  PlacesKept(l \o answer.page, query)
<1> DEFINE page == answer.page
           both == l \o page
           k == Len(l)
           m == Len(page)
           S == Picked("artifacts", query)
           place(x) == Place(x, query)
<1>1. l \in Seq(Row) /\ page \in Seq(S) BY DEF PlacesKept, PageFrom
<1>2. page \in Seq(Row) /\ \A i \in 1 .. m : page[i] \in S
  <2>1. S \subseteq Row BY DEF Stored, Picked
  <2> QED BY <1>1, <2>1, ElementOfSeq
<1>3. JoinedLists(l, page, both) BY <1>1, <1>2, ListsJoin
<1>4. /\ both \in Seq(Row) /\ Len(both) = k + m /\ k \in Nat /\ m \in Nat
      /\ \A i \in 1 .. k : both[i] = l[i]
      /\ \A i \in 1 .. m : both[k + i] = page[i]
      /\ \A i \in 1 .. k + m : i \in 1 .. k \/ (i > k /\ i - k \in 1 .. m)
  BY <1>3 DEF JoinedLists
<1>5. /\ \A i \in 1 .. k : l[i].id \notin moved => l[i] \in S /\ place(l[i]) = i
      /\ \A x \in S : x.id \notin moved /\ place(x) <= k => l[place(x)] = x
  BY DEF PlacesKept
<1>6. /\ \A i \in 1 .. m : place(page[i]) = k + i
      /\ \A x \in S : place(x) > k /\ place(x) <= k + m => page[place(x) - k] = x
  BY DEF PageFrom
<1>7. \A x \in S : place(x) \in Nat /\ place(x) > 0
  <2> SUFFICES ASSUME NEW x \in S PROVE place(x) \in Nat /\ place(x) > 0 OBVIOUS
  <2>1. Below(x, S, Precedence("artifacts")) \in SUBSET rows BY DEF Below, Picked
  <2>2. Cardinality(Below(x, S, Precedence("artifacts"))) \in Nat
    BY <2>1, FS_Subset, FS_CardinalityType DEF Stored
  <2> QED BY <2>2 DEF Place
<1> HIDE DEF both, k, m, page, S, place
<1>8. ASSUME NEW i \in 1 .. k + m, both[i].id \notin moved PROVE both[i] \in S /\ place(both[i]) = i
  <2>1. CASE i \in 1 .. k BY <1>4, <1>5, <1>8, <2>1
  <2>2. CASE i > k /\ i - k \in 1 .. m
    <3>1. k + (i - k) = i BY <1>4
    <3>2. both[i] = page[i - k] BY <1>4, <2>2, <3>1
    <3> QED BY <1>2, <1>6, <2>2, <3>1, <3>2
  <2> QED BY <1>4, <2>1, <2>2
<1>9. ASSUME NEW x \in S, x.id \notin moved, place(x) <= k + m PROVE both[place(x)] = x
  <2>1. CASE place(x) <= k
    <3>1. place(x) \in 1 .. k BY <1>4, <1>7, <2>1
    <3> QED BY <1>4, <1>5, <1>9, <2>1, <3>1
  <2>2. CASE place(x) > k
    <3>1. place(x) - k \in 1 .. m /\ k + (place(x) - k) = place(x) BY <1>4, <1>7, <1>9, <2>2
    <3>2. page[place(x) - k] = x BY <1>6, <1>9, <2>2
    <3>3. both[k + (place(x) - k)] = page[place(x) - k] BY <1>4, <3>1
    <3> QED BY <3>1, <3>2, <3>3
  <2> QED BY <1>4, <1>7, <2>1, <2>2
<1> QED BY <1>4, <1>8, <1>9 DEF PlacesKept, both, page, S, place

\* No row is at two places.
LEMMA PlacesListOnce ==
  ASSUME Stored, NEW query, NEW l, PlacesKept(l, query)
  PROVE  OnceIn(l)
<1> SUFFICES ASSUME NEW i \in 1 .. Len(l), NEW j \in 1 .. Len(l), l[i].id = l[j].id, l[i].id \notin moved
             PROVE  i = j
  BY DEF OnceIn
<1>1. /\ l[i] \in rows /\ Place(l[i], query) = i /\ l[j] \in rows /\ Place(l[j], query) = j
  BY DEF PlacesKept, Picked
<1>2. l[i] = l[j] BY <1>1 DEF Stored, Distinct
<1> QED BY <1>1, <1>2

(***************************************************************************)
(* One page more of a walk, for the rows that were kept so far.            *)
(***************************************************************************)
Continued(answer, both, stream, query, kept) ==
  /\ Straight(both, stream) /\ OnceIn(both) /\ answer.state \in {"open", "done"}
  /\ answer.state = "done" => \A r \in kept : r \in ToSet(both)
  /\ answer.state = "open" =>
       /\ Len(both) > 0
       /\ answer.next = [position |-> KeyOf(stream, Last(both)), query |-> query]
       /\ \A r \in kept : r \in ToSet(both) \/ <<Last(both), r>> \in Precedence(stream)

LEMMA AnchoredPages ==
  ASSUME Stored, NEW stream \in Stream \ {"artifacts"}, NEW l, Straight(l, stream), OnceIn(l),
         NEW given, NEW cursor,
         cursor.position = IF Len(l) = 0 THEN <<>> ELSE KeyOf(stream, Last(l)),
         NEW query, query = IF stream = "events" \/ Len(l) = 0 THEN given ELSE cursor.query,
         NEW kept, kept \subseteq Picked(stream, query),
         Len(l) > 0 => \A r \in kept : r \in ToSet(l) \/ <<Last(l), r>> \in Precedence(stream),
         NEW answer, answer = Answer(stream, given, cursor)
  PROVE  Continued(answer, l \o answer.page, stream, query, kept)
<1> DEFINE a == Last(l)
           T == LeftFrom(stream, query, cursor.position, a)
           page == answer.page
           both == l \o page
<1>1. l \in Seq(Row) /\ Len(l) \in Nat /\ DOMAIN l = 1 .. Len(l) BY LenProperties DEF Straight
<1>2. Len(l) > 0 => a \in Row
  <2>1. Len(l) > 0 => Len(l) \in 1 .. Len(l) BY <1>1
  <2> QED BY <1>1, <2>1, ElementOfSeq DEF Last
<1>3. (cursor.position = <<>>) <=> Len(l) = 0 BY DEF KeyOf
<1>4. CursorAt(stream, cursor.position, a) BY <1>1, <1>2, <1>3 DEF CursorAt
<1>5. query = IF stream = "events" \/ cursor.position = <<>> THEN given ELSE cursor.query
  BY <1>3
<1> HIDE DEF a
<1>6. PageOf(answer, stream, T, query) BY <1>4, <1>5, AnswersPage
<1>7. T \subseteq rows /\ (Len(l) > 0 => \A x \in T : <<a, x>> \in Precedence(stream))
  BY <1>1, <1>3 DEF LeftFrom, Picked
<1>8. Straight(both, stream) /\ OnceIn(both) BY <1>6, <1>7, AnchoredContinues DEF a
<1>9. page \in Seq(Row)
  <2>1. T \subseteq Row BY <1>7 DEF Stored
  <2>2. page \in Seq(T) BY <1>6 DEF PageOf
  <2> QED BY <2>1, <2>2
<1>10. JoinedLists(l, page, both) BY <1>1, <1>9, ListsJoin
<1>11. ASSUME NEW r \in kept PROVE r \in ToSet(l) \/ r \in T
  <2>1. CASE Len(l) = 0 BY <1>3, <2>1 DEF LeftFrom
  <2>2. CASE Len(l) > 0 BY <2>2 DEF LeftFrom, a
  <2> QED BY <1>1, <2>1, <2>2
<1> HIDE DEF T, page, both
<1>12. ToSet(both) = ToSet(l) \cup ToSet(page) /\ (Len(page) > 0 => Last(both) = Last(page))
  BY <1>10 DEF JoinedLists
<1>13. Len(page) > 0 => Len(both) > 0 BY <1>10 DEF JoinedLists
<1>14. answer.state \in {"open", "done"} BY <1>6 DEF PageOf
<1>15. ASSUME answer.state = "done", NEW r \in kept PROVE r \in ToSet(both)
  BY <1>6, <1>11, <1>12, <1>15 DEF PageOf, page
<1>16. ASSUME answer.state = "open"
       PROVE  /\ Len(both) > 0
              /\ answer.next = [position |-> KeyOf(stream, Last(both)), query |-> query]
              /\ \A r \in kept : r \in ToSet(both) \/ <<Last(both), r>> \in Precedence(stream)
  BY <1>6, <1>11, <1>12, <1>13, <1>16 DEF PageOf, page
<1> QED BY <1>8, <1>14, <1>15, <1>16 DEF Continued, both, page

CountedOn(answer, both, query, kept) ==
  /\ PlacesKept(both, query) /\ OnceIn(both) /\ answer.state \in {"open", "done", "refused"}
  /\ answer.state = "done" => \A r \in kept : r.id \notin moved => r \in ToSet(both)
  /\ answer.state = "open" => Len(both) > 0 /\ answer.next.position = <<Len(both)>>

LEMMA ArtifactPages ==
  ASSUME Stored, NEW query, NEW l, PlacesKept(l, query), NEW cursor,
         cursor.position = IF Len(l) = 0 THEN <<>> ELSE <<Len(l)>>,
         NEW kept, kept \subseteq Picked("artifacts", query),
         NEW answer, answer = Answer("artifacts", query, cursor)
  PROVE  CountedOn(answer, l \o answer.page, query, kept)
<1> DEFINE page == answer.page
           both == l \o page
           n == Len(l)
           S == Picked("artifacts", query)
<1>1. l \in Seq(Row) /\ n \in Nat BY LenProperties DEF PlacesKept
<1>2. PageFrom(answer, n, query) BY <1>1, ArtifactsPage
<1>3. PlacesKept(both, query) BY <1>2, PlacesContinue
<1>4. OnceIn(both) BY <1>3, PlacesListOnce
<1>5. page \in Seq(Row)
  <2>1. S \subseteq Row BY DEF Stored, Picked
  <2>2. page \in Seq(S) BY <1>2 DEF PageFrom
  <2> QED BY <2>1, <2>2
<1>6. Len(both) = n + Len(page) /\ Len(page) \in Nat /\ both \in Seq(Row)
  BY <1>1, <1>5, ListsJoin DEF JoinedLists
<1> HIDE DEF both, page, n
<1>7. answer.state \in {"open", "done", "refused"} BY <1>2 DEF PageFrom
<1>8. ASSUME answer.state = "done", NEW r \in kept, r.id \notin moved PROVE r \in ToSet(both)
  <2>1. r \in S OBVIOUS
  <2>2. Place(r, query) <= Len(both) BY <1>2, <1>6, <1>8, <2>1 DEF PageFrom, page
  <2>3. both[Place(r, query)] = r BY <1>3, <1>8, <2>1, <2>2 DEF PlacesKept
  <2>4. Place(r, query) \in Nat /\ Place(r, query) > 0
    <3>1. Below(r, S, Precedence("artifacts")) \in SUBSET rows BY DEF Below, Picked
    <3>2. Cardinality(Below(r, S, Precedence("artifacts"))) \in Nat
      BY <3>1, FS_Subset, FS_CardinalityType DEF Stored
    <3> QED BY <3>2 DEF Place
  <2>5. Place(r, query) \in DOMAIN both BY <1>1, <1>6, <2>2, <2>4, LenProperties
  <2> QED BY <2>3, <2>5 DEF ToSet
<1>9. ASSUME answer.state = "open"
      PROVE  Len(both) > 0 /\ answer.next.position = <<Len(both)>>
  BY <1>1, <1>2, <1>6, <1>9 DEF PageFrom, page
<1> QED BY <1>3, <1>4, <1>7, <1>8, <1>9 DEF CountedOn, both, page

(***************************************************************************)
(* The inductive invariant of a walk. An open walk of an anchored stream   *)
(* has listed rows in the order of the stream and still has every steady   *)
(* row it has not listed behind its last one; an open walk of the          *)
(* artifacts has every row that was not moved at the place its offset      *)
(* counts.                                                                 *)
(***************************************************************************)
WalkShape ==
  /\ walk = [stream |-> walk.stream, query |-> walk.query, resend |-> walk.resend,
             cursor |-> walk.cursor, listed |-> walk.listed, state |-> walk.state]
  /\ walk.stream \in Stream /\ walk.query \in Query /\ walk.resend \in BOOLEAN
  /\ walk.listed \in Seq(Row) /\ walk.state \in {"idle", "open", "done", "refused"}

Clocks ==
  /\ lastId \in 0 .. MaxRows /\ moment \in 0 .. MaxMoment /\ generation \in {0, 1}
  /\ walk.stream \in Counted => \A r \in rows : r.id <= lastId

AnchoredOpen ==
  /\ Straight(walk.listed, walk.stream) /\ Len(walk.listed) > 0
  /\ walk.cursor.position = KeyOf(walk.stream, Last(walk.listed))
  /\ walk.stream # "events" => walk.cursor.query = walk.query
  /\ \A r \in steady : \/ r \in ToSet(walk.listed)
                       \/ <<Last(walk.listed), r>> \in Precedence(walk.stream)

CountedOpen ==
  /\ walk.resend /\ PlacesKept(walk.listed, walk.query) /\ Len(walk.listed) > 0
  /\ walk.cursor.position = <<Len(walk.listed)>>

OpenWalk ==
  walk.state = "open" => IF walk.stream = "artifacts" THEN CountedOpen ELSE AnchoredOpen

WalkInv ==
  /\ Stored /\ WalkShape /\ Clocks
  /\ steady \subseteq Picked(walk.stream, walk.query)
  /\ walk.state = "idle" => walk.listed = <<>>
  /\ OnceIn(walk.listed) /\ OpenWalk /\ NothingOmitted

LEMMA WalkBegins == ListingsInit => WalkInv
<1> SUFFICES ASSUME NEW s \in Stream, ListingsStart(s) PROVE WalkInv BY DEF ListingsInit
<1>1. rows = {} /\ steady = {} /\ lastId = 0 /\ moment = 0 /\ generation = 0
  BY DEF ListingsStart
<1>2. walk = [stream |-> s, query |-> Unfiltered, resend |-> TRUE, cursor |-> FirstRow,
              listed |-> <<>>, state |-> "idle"]
  BY DEF ListingsStart, NoWalk
<1>3. Stored BY <1>1, FS_EmptySet DEF Stored, Distinct
<1>4. Unfiltered \in Query BY DEF Unfiltered, Query
<1>5. <<>> \in Seq(Row) /\ Len(<<>>) = 0 OBVIOUS
<1>6. WalkShape BY <1>2, <1>4, <1>5 DEF WalkShape
<1>7. Clocks BY <1>1, ListingsAssumption DEF Clocks
<1>8. OnceIn(walk.listed) BY <1>2, <1>5 DEF OnceIn
<1> QED BY <1>1, <1>2, <1>3, <1>6, <1>7, <1>8 DEF WalkInv, OpenWalk, NothingOmitted

\* What a step leaves alone when it leaves the rows alone.
LEMMA PlacesStay ==
  ASSUME UNCHANGED <<rows, moved, generation>>, NEW l, NEW query, PlacesKept(l, query),
         walk'.listed = l, walk'.query = query
  PROVE  PlacesKept(walk.listed, walk.query)'
<1>1. \A x : Place(x, query)' = Place(x, query) BY DEF Place, Picked, Below
<1>2. Picked("artifacts", query)' = Picked("artifacts", query) BY DEF Picked
<1>3. PlacesKept(l, query)' BY <1>1, <1>2 DEF PlacesKept
<1> QED BY <1>3 DEF PlacesKept, Place, Below, Picked

LEMMA StraightStays ==
  ASSUME UNCHANGED <<rows, moved>>, NEW l, NEW stream, Straight(l, stream),
         walk'.listed = l, walk'.stream = stream
  PROVE  Straight(walk.listed, walk.stream)'
BY DEF Straight

LEMMA OnceStays ==
  ASSUME UNCHANGED moved, NEW l, OnceIn(l), walk'.listed = l
  PROVE  OnceIn(walk.listed)'
BY DEF OnceIn

LEMMA FirstPages ==
  ASSUME WalkInv, NEW query \in Query, NEW resend \in BOOLEAN, FirstPage(query, resend)
  PROVE  WalkInv'
<1> DEFINE stream == walk.stream
           answer == Answer(stream, query, FirstRow)
           kept == Picked(stream, query)
<1>0. Stored /\ WalkShape /\ Clocks BY DEF WalkInv
<1>1. stream \in Stream BY <1>0 DEF WalkShape
<1>2. walk' = [stream |-> stream, query |-> query, resend |-> resend, cursor |-> answer.next,
               listed |-> answer.page, state |-> answer.state]
  BY <1>0 DEF FirstPage, WalkShape
<1>3. UNCHANGED <<rows, lastId, moment, generation, moved>> BY DEF FirstPage
<1>4. steady' = kept
  <2>1. InOrder(Listing(stream, query), kept, Precedence(stream)) BY <1>0, <1>1, ListingInOrder
  <2> DEFINE f == Listing(stream, query)
  <2>2. f \in Seq(kept) BY <2>1 DEF InOrder
  <2>3. DOMAIN f = 1 .. Len(f) /\ \A i \in 1 .. Len(f) : f[i] \in kept
    BY <2>2, LenProperties, ElementOfSeq
  <2>4. \A x \in kept : \E i \in 1 .. Len(f) : f[i] = x BY <2>1 DEF InOrder
  <2>5. ToSet(f) = kept BY <2>3, <2>4 DEF ToSet
  <2> QED BY <2>5 DEF FirstPage
<1>5. <<>> \in Seq(Row) /\ Len(<<>>) = 0 OBVIOUS
<1>6. FirstRow.position = <<>> BY DEF FirstRow
<1>7. Stored' /\ Clocks'
  <2>1. walk'.stream = walk.stream BY <1>2
  <2> QED BY <1>0, <1>3, <2>1 DEF Stored, Clocks, Distinct
<1>8. Picked(stream, query)' = kept
  BY <1>2, <1>3 DEF Picked, StaleMatches, Stale
<1>9. (walk'.stream = stream /\ walk'.query = query /\ walk'.listed = answer.page
       /\ walk'.state = answer.state /\ walk'.cursor = answer.next /\ walk'.resend = resend)
  BY <1>2
<1> HIDE DEF answer, kept
<1>10. CASE stream = "artifacts"
  <2>1. PlacesKept(<<>>, query)
    <3>1. \A x \in Picked("artifacts", query) : ~ (Place(x, query) <= 0)
      <4> SUFFICES ASSUME NEW x \in Picked("artifacts", query), Place(x, query) <= 0 PROVE FALSE
        OBVIOUS
      <4>1. Below(x, Picked("artifacts", query), Precedence("artifacts")) \in SUBSET rows
        BY DEF Below, Picked
      <4>2. Cardinality(Below(x, Picked("artifacts", query), Precedence("artifacts"))) \in Nat
        BY <1>0, <4>1, FS_Subset, FS_CardinalityType DEF Stored
      <4> QED BY <4>2 DEF Place
    <3> QED BY <1>5, <3>1 DEF PlacesKept
  <2>2. CountedOn(answer, <<>> \o answer.page, query, kept)
    BY <1>0, <1>5, <1>6, <1>10, <2>1, ArtifactPages DEF answer, kept
  <2>3. answer.page \in Seq(Row)
    <3>1. PageFrom(Answer("artifacts", query, FirstRow), 0, query) BY <1>0, <1>6, ArtifactsPage
    <3>2. answer.page \in Seq(Picked("artifacts", query)) BY <1>10, <3>1 DEF PageFrom, answer
    <3>3. Picked("artifacts", query) \subseteq Row BY <1>0 DEF Stored, Picked
    <3> QED BY <3>2, <3>3
  <2>4. <<>> \o answer.page = answer.page BY <2>3, ConcatEmptySeq
  <2>5. CountedOn(answer, answer.page, query, kept) BY <2>2, <2>4
  <2>6. resend BY <1>10 DEF FirstPage
  <2>7. OnceIn(walk.listed)' BY <1>3, <1>9, <2>5, OnceStays DEF CountedOn
  <2>8. PlacesKept(walk.listed, walk.query)'
    BY <1>3, <1>9, <2>5, PlacesStay DEF CountedOn
  <2>9. WalkShape' BY <1>1, <1>2, <2>3, <2>5 DEF WalkShape, CountedOn
  <2>10. answer.state = "open" => CountedOpen'
    BY <1>9, <2>5, <2>6, <2>8 DEF CountedOpen, CountedOn
  <2>11. OpenWalk' BY <1>9, <1>10, <2>10 DEF OpenWalk
  <2>12. NothingOmitted' BY <1>3, <1>4, <1>9, <2>5 DEF NothingOmitted, CountedOn
  <2>13. (steady \subseteq Picked(walk.stream, walk.query))' BY <1>4, <1>8, <1>9 DEF Picked
  <2>14. (walk.state # "idle")' BY <1>9, <2>5 DEF CountedOn
  <2> QED BY <1>7, <2>7, <2>9, <2>11, <2>12, <2>13, <2>14 DEF WalkInv
<1>11. CASE stream # "artifacts"
  <2>1. Straight(<<>>, stream) /\ OnceIn(<<>>) BY <1>5 DEF Straight, OnceIn
  <2>2. Continued(answer, <<>> \o answer.page, stream, query, kept)
    <3>1. stream \in Stream \ {"artifacts"} BY <1>1, <1>11
    <3>2. FirstRow.position = IF Len(<<>>) = 0 THEN <<>> ELSE KeyOf(stream, Last(<<>>))
      BY <1>5, <1>6
    <3>3. query = IF stream = "events" \/ Len(<<>>) = 0 THEN query ELSE FirstRow.query BY <1>5
    <3>4. kept \subseteq Picked(stream, query) BY DEF kept
    <3>5. Len(<<>>) > 0 => \A r \in kept : r \in ToSet(<<>>) \/ <<Last(<<>>), r>> \in Precedence(stream)
      BY <1>5
    <3>6. answer = Answer(stream, query, FirstRow) BY DEF answer
    <3> HIDE DEF stream
    <3> QED BY ONLY <1>0, <2>1, <3>1, <3>2, <3>3, <3>4, <3>5, <3>6, AnchoredPages
  <2>3. answer.page \in Seq(Row)
    <3> DEFINE T == LeftFrom(stream, query, FirstRow.position, 0)
    <3>1. PageOf(Answer(stream, query, FirstRow), stream, T, query)
      BY <1>0, <1>1, <1>6, <1>11, AnswersPage DEF CursorAt
    <3>2. answer.page \in Seq(T) BY <3>1 DEF PageOf, answer
    <3>3. T \subseteq Row BY <1>0 DEF Stored, Picked, LeftFrom
    <3> QED BY <3>2, <3>3
  <2>4. <<>> \o answer.page = answer.page BY <2>3, ConcatEmptySeq
  <2>5. Continued(answer, answer.page, stream, query, kept) BY <2>2, <2>4
  <2>6. OnceIn(walk.listed)' BY <1>3, <1>9, <2>5, OnceStays DEF Continued
  <2>7. Straight(walk.listed, walk.stream)' BY <1>3, <1>9, <2>5, StraightStays DEF Continued
  <2>8. WalkShape' BY <1>1, <1>2, <2>3, <2>5 DEF WalkShape, Continued
  <2>9. answer.state = "open" => AnchoredOpen'
    BY <1>4, <1>9, <2>5, <2>7 DEF AnchoredOpen, Continued, KeyOf
  <2>10. OpenWalk' BY <1>9, <1>11, <2>9 DEF OpenWalk
  <2>11. NothingOmitted' BY <1>3, <1>4, <1>9, <2>5 DEF NothingOmitted, Continued
  <2>12. (steady \subseteq Picked(walk.stream, walk.query))' BY <1>4, <1>8, <1>9 DEF Picked
  <2>13. (walk.state # "idle")' BY <1>9, <2>5 DEF Continued
  <2> QED BY <1>7, <2>6, <2>8, <2>10, <2>11, <2>12, <2>13 DEF WalkInv
<1> QED BY <1>10, <1>11

LEMMA NextPages ==
  ASSUME WalkInv, NextPage
  PROVE  WalkInv'
<1> DEFINE stream == walk.stream
           l == walk.listed
           cursor == walk.cursor
           given == IF walk.resend THEN walk.query ELSE Unfiltered
           answer == Answer(stream, given, cursor)
           both == l \o answer.page
<1>0. Stored /\ WalkShape /\ Clocks /\ OnceIn(l) /\ steady \subseteq Picked(stream, walk.query)
  BY DEF WalkInv
<1>1. stream \in Stream /\ walk.query \in Query /\ walk.resend \in BOOLEAN /\ l \in Seq(Row)
  BY <1>0 DEF WalkShape
<1>2. walk' = [stream |-> stream, query |-> walk.query, resend |-> walk.resend,
               cursor |-> answer.next, listed |-> both, state |-> answer.state]
  BY <1>0 DEF NextPage, WalkShape
<1>3. UNCHANGED <<rows, lastId, moment, generation, steady, moved>> BY DEF NextPage
<1>4. walk.state = "open" BY DEF NextPage
<1>5. Stored' /\ Clocks'
  <2>1. walk'.stream = walk.stream BY <1>2
  <2> QED BY <1>0, <1>3, <2>1 DEF Stored, Clocks, Distinct
<1>6. (walk'.stream = stream /\ walk'.query = walk.query /\ walk'.listed = both
       /\ walk'.state = answer.state /\ walk'.cursor = answer.next /\ walk'.resend = walk.resend)
  BY <1>2
<1>7. (steady \subseteq Picked(walk.stream, walk.query))'
  BY <1>0, <1>3, <1>6 DEF Picked, StaleMatches, Stale
<1> HIDE DEF answer, both, given
<1>10. CASE stream = "artifacts"
  <2>1. CountedOpen BY <1>4, <1>10 DEF WalkInv, OpenWalk
  <2>2. given = walk.query BY <2>1 DEF CountedOpen, given
  <2>3. cursor.position = IF Len(l) = 0 THEN <<>> ELSE <<Len(l)>> BY <2>1 DEF CountedOpen
  <2>4. answer = Answer("artifacts", walk.query, cursor) BY <1>10, <2>2 DEF answer
  <2>5. PlacesKept(l, walk.query) BY <2>1 DEF CountedOpen
  <2>6. steady \subseteq Picked("artifacts", walk.query) BY <1>0, <1>10
  <2>7. CountedOn(answer, both, walk.query, steady)
    <3> HIDE DEF l, cursor
    <3>1. CountedOn(answer, l \o answer.page, walk.query, steady)
      BY ONLY <1>0, <2>3, <2>4, <2>5, <2>6, ArtifactPages
    <3> QED BY <3>1 DEF both
  <2>8. both \in Seq(Row) BY <2>7 DEF CountedOn, PlacesKept
  <2>9. OnceIn(walk.listed)' BY <1>3, <1>6, <2>7, OnceStays DEF CountedOn
  <2>10. PlacesKept(walk.listed, walk.query)' BY <1>3, <1>6, <2>7, PlacesStay DEF CountedOn
  <2>11. WalkShape' BY <1>1, <1>2, <2>7, <2>8 DEF WalkShape, CountedOn
  <2>12. answer.state = "open" => CountedOpen'
    BY <1>6, <2>1, <2>7, <2>10 DEF CountedOpen, CountedOn
  <2>13. OpenWalk' BY <1>6, <1>10, <2>12 DEF OpenWalk
  <2>14. NothingOmitted' BY <1>3, <1>6, <2>7 DEF NothingOmitted, CountedOn
  <2>15. (walk.state # "idle")' BY <1>6, <2>7 DEF CountedOn
  <2> QED BY <1>5, <1>7, <2>9, <2>11, <2>13, <2>14, <2>15 DEF WalkInv
<1>11. CASE stream # "artifacts"
  <2>1. AnchoredOpen BY <1>4, <1>11 DEF WalkInv, OpenWalk
  <2>2. Len(l) > 0 /\ Len(l) # 0 BY <1>1, <2>1, LenProperties DEF AnchoredOpen
  <2> DEFINE q == IF stream = "events" \/ Len(l) = 0 THEN given ELSE cursor.query
  <2>3. steady \subseteq Picked(stream, q)
    <3>1. CASE stream # "events"
      <4>1. q = walk.query BY <2>1, <2>2, <3>1 DEF AnchoredOpen
      <4> QED BY <1>0, <4>1
    <3>2. CASE stream = "events"
      <4>1. q = given BY <3>2
      <4>2. walk.query.kind \subseteq Kind BY <1>1 DEF Query
      <4>3. walk.query.kind \subseteq given.kind BY <1>1, <4>2 DEF given, Unfiltered
      <4> QED BY <1>0, <3>2, <4>1, <4>3 DEF Picked
    <3> QED BY <3>1, <3>2
  <2>4. cursor.position = IF Len(l) = 0 THEN <<>> ELSE KeyOf(stream, Last(l))
    BY <2>1, <2>2 DEF AnchoredOpen
  <2>5. Straight(l, stream) BY <2>1 DEF AnchoredOpen
  <2>6. Len(l) > 0 => \A r \in steady : r \in ToSet(l) \/ <<Last(l), r>> \in Precedence(stream)
    BY <2>1 DEF AnchoredOpen
  <2>7. answer = Answer(stream, given, cursor) BY DEF answer
  <2>8. stream \in Stream \ {"artifacts"} BY <1>1, <1>11
  <2>9. q = IF stream = "events" \/ Len(l) = 0 THEN given ELSE cursor.query OBVIOUS
  <2>10. stream # "events" => q = walk.query BY <2>1, <2>2 DEF AnchoredOpen
  <2> HIDE DEF q
  <2>11. Continued(answer, both, stream, q, steady)
    <3> HIDE DEF l, cursor, stream
    <3>1. Continued(answer, l \o answer.page, stream, q, steady)
      BY ONLY <1>0, <2>3, <2>4, <2>5, <2>6, <2>7, <2>8, <2>9, AnchoredPages
    <3> QED BY <3>1 DEF both
  <2>12. both \in Seq(Row) BY <2>11 DEF Continued, Straight
  <2>13. OnceIn(walk.listed)' BY <1>3, <1>6, <2>11, OnceStays DEF Continued
  <2>14. Straight(walk.listed, walk.stream)' BY <1>3, <1>6, <2>11, StraightStays DEF Continued
  <2>15. WalkShape' BY <1>1, <1>2, <2>11, <2>12 DEF WalkShape, Continued
  <2>16. answer.state = "open" => AnchoredOpen'
    BY <1>3, <1>6, <2>10, <2>11, <2>14 DEF AnchoredOpen, Continued, KeyOf
  <2>17. OpenWalk' BY <1>6, <1>11, <2>16 DEF OpenWalk
  <2>18. NothingOmitted' BY <1>3, <1>6, <2>11 DEF NothingOmitted, Continued
  <2>19. (walk.state # "idle")' BY <1>6, <2>11 DEF Continued
  <2> QED BY <1>5, <1>7, <2>13, <2>15, <2>17, <2>18, <2>19 DEF WalkInv
<1> QED BY <1>10, <1>11

\* What a change of the artifacts leaves where it was.
PlacesHold(newRows, displaced) ==
  /\ \A r \in newRows : r.id \notin displaced => r \in rows
  /\ \A r \in rows : r.id \notin displaced =>
       r \in newRows /\ Below(r, newRows, Precedence("artifacts")) = Below(r, rows, Precedence("artifacts"))

\* The rows that were not displaced keep their places.
LEMMA PlacesSurvive ==
  ASSUME NEW l, NEW query, PlacesKept(l, query), NEW displaced, PlacesHold(rows', displaced),
         moved' = moved \cup displaced, walk'.listed = l, walk'.query = query
  PROVE  PlacesKept(walk.listed, walk.query)'
<1> DEFINE S == Picked("artifacts", query)
           R == Precedence("artifacts")
<1>1. \A x : x \in S <=> x \in rows /\ x.kind \in query.kind BY DEF Picked
<1>2. \A x : x \in S' <=> x \in rows' /\ x.kind \in query.kind BY DEF Picked
<1>3. \A x : x \in rows' /\ x.id \notin moved' => x \in rows BY DEF PlacesHold
<1>4. ASSUME NEW x \in rows, x.id \notin moved'
      PROVE  x \in rows' /\ Place(x, query)' = Place(x, query)
  <2>1. x \in rows' /\ Below(x, rows', R) = Below(x, rows, R) BY <1>4 DEF PlacesHold
  <2>2. \A y : (y \in rows' /\ <<y, x>> \in R) <=> (y \in rows /\ <<y, x>> \in R)
    <3> SUFFICES ASSUME NEW y
                 PROVE (y \in rows' /\ <<y, x>> \in R) <=> (y \in rows /\ <<y, x>> \in R)
      OBVIOUS
    <3> HIDE DEF R
    <3>1. (y \in Below(x, rows', R)) <=> (y \in rows' /\ <<y, x>> \in R) BY DEF Below
    <3>2. (y \in Below(x, rows, R)) <=> (y \in rows /\ <<y, x>> \in R) BY DEF Below
    <3> QED BY <2>1, <3>1, <3>2
  <2>3. {y \in S' : <<y, x>> \in R} = {y \in S : <<y, x>> \in R} BY <1>1, <1>2, <2>2
  <2>4. Place(x, query)' = Cardinality({y \in S' : <<y, x>> \in R}) + 1
    BY DEF Place, Below, Precedence, Precedes, OlderFirst
  <2>5. Place(x, query) = Cardinality({y \in S : <<y, x>> \in R}) + 1 BY DEF Place, Below
  <2> QED BY <2>1, <2>3, <2>4, <2>5
<1>5. l \in Seq(Row) BY DEF PlacesKept
<1>6. ASSUME NEW i \in 1 .. Len(l), l[i].id \notin moved'
      PROVE  l[i] \in S' /\ Place(l[i], query)' = i
  <2>1. l[i].id \notin moved BY <1>6
  <2>2. l[i] \in S /\ Place(l[i], query) = i BY <2>1 DEF PlacesKept
  <2> QED BY <1>1, <1>2, <1>4, <1>6, <2>2
<1>7. ASSUME NEW x \in S', x.id \notin moved', Place(x, query)' <= Len(l)
      PROVE  l[Place(x, query)'] = x
  <2>1. x \in rows /\ x \in S BY <1>1, <1>2, <1>3, <1>7
  <2>2. Place(x, query)' = Place(x, query) BY <1>4, <1>7, <2>1
  <2>3. x.id \notin moved BY <1>7
  <2> QED BY <1>7, <2>1, <2>2, <2>3 DEF PlacesKept
<1>8. (walk.listed)' = l /\ (walk.query)' = query OBVIOUS
<1> QED BY <1>5, <1>6, <1>7, <1>8 DEF PlacesKept

\* A change of the rows that issues no number twice, and that names what it moved.
Sound(newRows, newGeneration, displaced) ==
  /\ newRows \subseteq Row /\ IsFiniteSet(newRows) /\ Distinct(newRows) /\ newGeneration \in {0, 1}
  /\ walk.stream = "notes" =>
       \A x \in newRows : x.id \in displaced \/ \E r \in rows : r.id = x.id /\ r.at = x.at
  /\ walk.stream = "artifacts" => PlacesHold(newRows, displaced)

\* A sound change of the rows keeps the invariant of the walk.
LEMMA ChangesKeep ==
  ASSUME WalkInv, NEW newRows, NEW newGeneration, NEW displaced,
         Change(newRows, newGeneration, displaced), Sound(newRows, newGeneration, displaced),
         moment' \in 0 .. MaxMoment, lastId' \in 0 .. MaxRows,
         walk.stream \in Counted => \A r \in newRows : r.id <= lastId'
  PROVE  WalkInv'
<1>1. walk' = walk /\ rows' = newRows /\ generation' = newGeneration /\ walk.state # "done"
  BY DEF Change, Busy
<1>2. moved' = IF walk.state = "open" THEN moved \cup displaced ELSE moved BY DEF Change
<1>3. Stored' BY <1>1 DEF Sound, Stored, Distinct
<1>4. WalkShape' BY <1>1 DEF WalkInv, WalkShape
<1>5. Clocks' BY <1>1 DEF Clocks, Sound
<1>6. steady' \subseteq steady BY DEF Change
<1>7. (steady \subseteq Picked(walk.stream, walk.query))'
  <2> SUFFICES ASSUME NEW r \in steady' PROVE r \in Picked(walk.stream, walk.query)'
    OBVIOUS
  <2>1. r \in steady /\ r \in newRows BY DEF Change
  <2>2. r \in Picked(walk.stream, walk.query) BY <2>1 DEF WalkInv
  <2>3. walk.stream = "notes" => StaleMatches(r, walk.query.stale)'
    <3> SUFFICES ASSUME walk.stream = "notes" PROVE StaleMatches(r, walk.query.stale)' OBVIOUS
    <3>1. CASE walk.query.stale = "only"
      <4>1. r.generation # newGeneration BY <3>1 DEF Change
      <4> QED BY <1>1, <3>1, <4>1 DEF StaleMatches, Stale
    <3>2. CASE walk.query.stale = "include" BY <1>1, <3>2 DEF StaleMatches, Stale
    <3>3. CASE walk.query.stale \notin {"only", "include"}
      <4>1. r.generation = newGeneration BY <3>3 DEF Change
      <4> QED BY <1>1, <3>3, <4>1 DEF StaleMatches, Stale
    <3> QED BY <3>1, <3>2, <3>3
  <2> QED BY <1>1, <2>1, <2>2, <2>3 DEF Picked
<1>8. (walk.state = "idle" => walk.listed = <<>>)' BY <1>1 DEF WalkInv
<1>9. OnceIn(walk.listed)'
  <2>1. moved \subseteq moved' BY <1>2
  <2>2. OnceIn(walk.listed) BY DEF WalkInv
  <2> QED BY <1>1, <2>1, <2>2 DEF OnceIn
<1>10. NothingOmitted' BY <1>1 DEF NothingOmitted
<1>11. ASSUME walk.state = "open", walk.stream # "artifacts" PROVE AnchoredOpen'
  <2>1. AnchoredOpen BY <1>11 DEF WalkInv, OpenWalk
  <2>2. Straight(walk.listed, walk.stream)'
    <3>1. Straight(walk.listed, walk.stream) BY <2>1 DEF AnchoredOpen
    <3>2. ASSUME walk.stream = "notes", NEW i \in 1 .. Len(walk.listed), NEW x \in newRows,
                 x.id = walk.listed[i].id, x.id \notin moved'
          PROVE  x.at = walk.listed[i].at
      <4>1. x.id \notin displaced /\ x.id \notin moved BY <1>2, <1>11, <3>2
      <4>2. PICK r \in rows : r.id = x.id /\ r.at = x.at BY <3>2, <4>1 DEF Sound
      <4> QED BY <3>1, <3>2, <4>1, <4>2 DEF Straight
    <3> QED BY <1>1, <3>1, <3>2 DEF Straight
  <2> QED BY <1>1, <1>6, <2>1, <2>2 DEF AnchoredOpen, KeyOf
<1>12. ASSUME walk.state = "open", walk.stream = "artifacts" PROVE CountedOpen'
  <2>1. CountedOpen BY <1>12 DEF WalkInv, OpenWalk
  <2>2. PlacesHold(rows', displaced) BY <1>1, <1>12 DEF Sound
  <2>3. PlacesKept(walk.listed, walk.query)' 
    BY <1>1, <1>2, <1>12, <2>1, <2>2, PlacesSurvive DEF CountedOpen
  <2> QED BY <1>1, <2>1, <2>3 DEF CountedOpen
<1>13. OpenWalk' BY <1>1, <1>11, <1>12 DEF OpenWalk
<1> QED BY <1>3, <1>4, <1>5, <1>7, <1>8, <1>9, <1>10, <1>13 DEF WalkInv

LEMMA RecordRows ==
  ASSUME WalkInv, NEW kind \in Kind, RecordRow(kind)
  PROVE  WalkInv'
<1> DEFINE new == [id |-> lastId + 1, at |-> 0, kind |-> kind, generation |-> 0]
           all == rows \cup {new}
           cut == Retained(all)
<1>1. walk.stream \in Counted /\ lastId < MaxRows /\ lastId' = lastId + 1
      /\ Change(cut, generation, {}) /\ moment' = moment
  BY DEF RecordRow
<1>2. Stored /\ Clocks BY DEF WalkInv
<1>3. lastId \in Nat /\ lastId <= MaxRows /\ MaxRows \in Nat /\ MaxMoment \in Nat
  BY <1>2, ListingsAssumption DEF Clocks
<1>4. new \in Row /\ new.id = lastId + 1 BY <1>1, <1>3 DEF Row
<1>5. \A r \in rows : r \in Row /\ r.id \in Int /\ r.id <= lastId
  BY <1>1, <1>2, RowFacts DEF Stored, Clocks
<1> HIDE DEF new
<1>6. Distinct(all)
  <2> SUFFICES ASSUME NEW a \in all, NEW b \in all, a.id = b.id PROVE a = b BY DEF Distinct
  <2>1. CASE a = new /\ b = new BY <2>1
  <2>2. CASE a \in rows /\ b \in rows BY <1>2, <2>2 DEF Stored, Distinct
  <2>3. CASE a = new /\ b \in rows BY <1>3, <1>4, <1>5, <2>3
  <2>4. CASE a \in rows /\ b = new BY <1>3, <1>4, <1>5, <2>4
  <2> QED BY <2>1, <2>2, <2>3, <2>4
<1>7. all \subseteq Row /\ IsFiniteSet(all) BY <1>2, <1>4, FS_AddElement DEF Stored
<1>8. cut \subseteq all BY DEF Retained
<1>9. cut \subseteq Row /\ IsFiniteSet(cut) /\ Distinct(cut)
  BY <1>6, <1>7, <1>8, FS_Subset DEF Distinct
<1>10. \A r \in cut : r.id <= lastId'
  <2> SUFFICES ASSUME NEW r \in cut PROVE r.id <= lastId' OBVIOUS
  <2>1. r \in rows \/ r = new BY <1>8
  <2> QED BY <1>1, <1>3, <1>4, <1>5, <2>1
<1>11. walk.stream # "notes" /\ walk.stream # "artifacts" BY <1>1 DEF Counted
<1>12. generation \in {0, 1} /\ moment \in 0 .. MaxMoment BY <1>2 DEF Clocks
<1>13. Sound(cut, generation, {}) BY <1>9, <1>11, <1>12 DEF Sound
<1>14. lastId' \in 0 .. MaxRows BY <1>1, <1>3
<1> HIDE DEF cut
<1> QED BY <1>1, <1>10, <1>12, <1>13, <1>14, ChangesKeep

LEMMA Creates ==
  ASSUME WalkInv, NEW id \in 1 .. MaxRows, NEW at \in 0 .. MaxMoment, NEW kind \in Kind,
         Create(id, at, kind)
  PROVE  WalkInv'
<1> DEFINE new == [id |-> id, at |-> at, kind |-> kind, generation |-> generation]
           all == rows \cup {new}
           displaced == {id} \cup {row.id : row \in {r \in rows : walk.stream = "artifacts" /\ OlderFirst(new, r)}}
<1>1. walk.stream \in {"notes", "artifacts"} /\ lastId < MaxRows /\ lastId' = lastId + 1
      /\ Change(all, generation, displaced) /\ moment' = moment /\ \A r \in rows : r.id # id
  BY DEF Create
<1>2. Stored /\ Clocks BY DEF WalkInv
<1>3. lastId \in Nat /\ lastId <= MaxRows /\ MaxRows \in Nat
  BY <1>2, ListingsAssumption DEF Clocks
<1>4. generation \in {0, 1} /\ moment \in 0 .. MaxMoment BY <1>2 DEF Clocks
<1>5. new \in Row /\ new.id = id BY <1>4 DEF Row
<1>6. id \in displaced OBVIOUS
<1>7. \A r \in rows : walk.stream = "artifacts" /\ OlderFirst(new, r) => r.id \in displaced OBVIOUS
<1> HIDE DEF new, displaced
<1>8. Distinct(all)
  <2> SUFFICES ASSUME NEW a \in all, NEW b \in all, a.id = b.id PROVE a = b BY DEF Distinct
  <2>1. CASE a = new /\ b = new BY <2>1
  <2>2. CASE a \in rows /\ b \in rows BY <1>2, <2>2 DEF Stored, Distinct
  <2>3. CASE a = new /\ b \in rows BY <1>1, <1>5, <2>3
  <2>4. CASE a \in rows /\ b = new BY <1>1, <1>5, <2>4
  <2> QED BY <2>1, <2>2, <2>3, <2>4
<1>9. all \subseteq Row /\ IsFiniteSet(all) BY <1>2, <1>5, FS_AddElement DEF Stored
<1>10. \A x \in all : x.id \in displaced \/ \E r \in rows : r.id = x.id /\ r.at = x.at
  BY <1>5, <1>6
<1>11. ASSUME walk.stream = "artifacts" PROVE PlacesHold(all, displaced)
  <2>1. \A r \in all : r.id \notin displaced => r \in rows BY <1>5, <1>6
  <2>2. ASSUME NEW r \in rows, r.id \notin displaced
        PROVE  Below(r, all, Precedence("artifacts")) = Below(r, rows, Precedence("artifacts"))
    <3>1. ~ OlderFirst(new, r) BY <1>7, <1>11, <2>2
    <3>2. r \in Row BY <1>2 DEF Stored
    <3>3. "artifacts" \in Stream BY DEF Stream
    <3>4. ~ Precedes("artifacts", new, r) BY <3>1, PrecedesCases
    <3>5. <<new, r>> \notin Precedence("artifacts") BY <1>5, <3>2, <3>3, <3>4, PrecedenceFacts
    <3> QED BY <3>5 DEF Below
  <2> QED BY <2>1, <2>2 DEF PlacesHold
<1>12. Sound(all, generation, displaced) BY <1>4, <1>8, <1>9, <1>10, <1>11 DEF Sound
<1>13. lastId' \in 0 .. MaxRows BY <1>1, <1>3
<1>14. walk.stream \notin Counted BY <1>1 DEF Counted
<1> HIDE DEF all
<1> QED BY <1>1, <1>4, <1>12, <1>13, <1>14, ChangesKeep

\* An annotation is replaced by one with its id.
LEMMA NotesReplaced ==
  ASSUME WalkInv, NEW row \in rows, NEW new \in Row, new.id = row.id, NEW displaced,
         new.at = row.at \/ row.id \in displaced,
         walk.stream = "notes", Change((rows \ {row}) \cup {new}, generation, displaced),
         UNCHANGED <<lastId, moment>>
  PROVE  WalkInv'
<1> DEFINE all == (rows \ {row}) \cup {new}
<1>1. Stored /\ Clocks BY DEF WalkInv
<1>2. Distinct(all)
  <2> SUFFICES ASSUME NEW a \in all, NEW b \in all, a.id = b.id PROVE a = b BY DEF Distinct
  <2>1. CASE a = new /\ b = new BY <2>1
  <2>2. CASE a \in rows /\ b \in rows BY <1>1, <2>2 DEF Stored, Distinct
  <2>3. CASE a = new /\ b \in rows \ {row} BY <1>1, <2>3 DEF Stored, Distinct
  <2>4. CASE a \in rows \ {row} /\ b = new BY <1>1, <2>4 DEF Stored, Distinct
  <2> QED BY <2>1, <2>2, <2>3, <2>4
<1>3. IsFiniteSet(rows \ {row}) BY <1>1, FS_Subset DEF Stored
<1>4. all \subseteq Row /\ IsFiniteSet(all) BY <1>1, <1>3, FS_AddElement DEF Stored
<1>5. \A x \in all : x.id \in displaced \/ \E r \in rows : r.id = x.id /\ r.at = x.at OBVIOUS
<1>6. generation \in {0, 1} /\ moment' \in 0 .. MaxMoment /\ lastId' \in 0 .. MaxRows
  BY <1>1 DEF Clocks
<1>7. Sound(all, generation, displaced) BY <1>2, <1>4, <1>5, <1>6 DEF Sound
<1>8. walk.stream \notin Counted BY DEF Counted
<1>9. Change(all, generation, displaced) OBVIOUS
<1> HIDE DEF all
<1> QED BY <1>6, <1>7, <1>8, <1>9, ChangesKeep

LEMMA Updates ==
  ASSUME WalkInv, NEW row \in rows, NEW kind \in Kind, Update(row, kind)
  PROVE  WalkInv'
<1> DEFINE new == [row EXCEPT !.kind = kind]
<1>1. row \in Row BY DEF WalkInv, Stored
<1>2. new \in Row /\ new.id = row.id /\ new.at = row.at BY <1>1 DEF Row
<1>3. walk.stream = "notes" /\ Change((rows \ {row}) \cup {new}, generation, {})
      /\ UNCHANGED <<lastId, moment>>
  BY DEF Update
<1> HIDE DEF new
<1> QED BY <1>2, <1>3, NotesReplaced

LEMMA Overwrites ==
  ASSUME WalkInv, NEW row \in rows, NEW at \in 0 .. moment, Overwrite(row, at)
  PROVE  WalkInv'
<1> DEFINE new == [row EXCEPT !.at = at]
<1>1. row \in Row BY DEF WalkInv, Stored
<1>2. moment \in 0 .. MaxMoment /\ MaxMoment \in Nat BY ListingsAssumption DEF WalkInv, Clocks
<1>3. at \in 0 .. MaxMoment BY <1>2
<1>4. new \in Row /\ new.id = row.id BY <1>1, <1>3 DEF Row
<1>5. walk.stream = "notes" /\ Change((rows \ {row}) \cup {new}, generation, {row.id})
      /\ UNCHANGED <<lastId, moment>>
  BY DEF Overwrite
<1> HIDE DEF new
<1> QED BY <1>4, <1>5, NotesReplaced

\* Rows go and the rest stay.
LEMMA RowsGo ==
  ASSUME WalkInv, NEW newRows, newRows \subseteq rows, NEW newGeneration \in {0, 1}, NEW displaced,
         walk.stream = "notes" \/ (walk.stream = "artifacts" /\ \A r \in rows : r.id \in displaced),
         Change(newRows, newGeneration, displaced), UNCHANGED <<lastId, moment>>
  PROVE  WalkInv'
<1>1. Stored /\ Clocks BY DEF WalkInv
<1>2. newRows \subseteq Row /\ IsFiniteSet(newRows) /\ Distinct(newRows)
  BY <1>1, FS_Subset DEF Stored, Distinct
<1>3. walk.stream = "artifacts" => PlacesHold(newRows, displaced) BY DEF PlacesHold
<1>4. Sound(newRows, newGeneration, displaced) BY <1>2, <1>3 DEF Sound
<1>5. walk.stream \notin Counted BY DEF Counted
<1>6. moment' \in 0 .. MaxMoment /\ lastId' \in 0 .. MaxRows BY <1>1 DEF Clocks
<1> QED BY <1>4, <1>5, <1>6, ChangesKeep

LEMMA WalkStays ==
  ASSUME WalkInv, UNCHANGED <<rows, lastId, generation, walk, steady, moved>>,
         moment' \in 0 .. MaxMoment
  PROVE  WalkInv'
<1>1. Stored' /\ WalkShape' /\ Clocks' /\ (walk.state = "idle" => walk.listed = <<>>)'
  BY DEF WalkInv, Stored, Distinct, WalkShape, Clocks
<1>2. (steady \subseteq Picked(walk.stream, walk.query))'
  BY DEF WalkInv, Picked, StaleMatches, Stale
<1>3. OnceIn(walk.listed)' BY OnceStays DEF WalkInv
<1>4. NothingOmitted' BY DEF WalkInv, NothingOmitted
<1>5. ASSUME walk.state = "open", walk.stream # "artifacts" PROVE AnchoredOpen'
  <2>1. AnchoredOpen BY <1>5 DEF WalkInv, OpenWalk
  <2>2. Straight(walk.listed, walk.stream)' BY <2>1, StraightStays DEF AnchoredOpen
  <2> QED BY <2>1, <2>2 DEF AnchoredOpen, KeyOf
<1>6. ASSUME walk.state = "open", walk.stream = "artifacts" PROVE CountedOpen'
  <2>1. CountedOpen BY <1>6 DEF WalkInv, OpenWalk
  <2>2. PlacesKept(walk.listed, walk.query)' BY <2>1, PlacesStay DEF CountedOpen
  <2> QED BY <2>1, <2>2 DEF CountedOpen
<1>7. OpenWalk' BY <1>5, <1>6 DEF OpenWalk
<1> QED BY <1>1, <1>2, <1>3, <1>4, <1>7 DEF WalkInv

LEMMA WalkSteps == WalkInv /\ [ListingsNext]_listingVars => WalkInv'
<1> SUFFICES ASSUME WalkInv, [ListingsNext]_listingVars PROVE WalkInv' OBVIOUS
<1>1. moment \in 0 .. MaxMoment /\ MaxMoment \in Nat /\ generation \in {0, 1}
  BY ListingsAssumption DEF WalkInv, Clocks
<1>2. CASE \E query \in Query, resend \in BOOLEAN : FirstPage(query, resend) BY <1>2, FirstPages
<1>3. CASE NextPage BY <1>3, NextPages
<1>4. CASE \E kind \in Kind : RecordRow(kind) BY <1>4, RecordRows
<1>5. CASE \E kind \in Kind : \E id \in 1..MaxRows, at \in 0..MaxMoment : Create(id, at, kind)
  BY <1>5, Creates
<1>6. CASE \E row \in rows : \E kind \in Kind : Update(row, kind) BY <1>6, Updates
<1>7. CASE \E row \in rows : \E at \in 0..moment : Overwrite(row, at) BY <1>7, Overwrites
<1>8. ASSUME NEW row \in rows, Delete(row) PROVE WalkInv'
  <2>1. rows \ {row} \subseteq rows OBVIOUS
  <2>2. walk.stream = "notes" /\ Change(rows \ {row}, generation, {}) /\ UNCHANGED <<lastId, moment>>
    BY <1>8 DEF Delete
  <2> QED BY <1>1, <2>1, <2>2, RowsGo
<1>9. CASE AdvanceGeneration
  <2>1. walk.stream = "notes" /\ Change(rows, 1, {}) /\ UNCHANGED <<lastId, moment>>
    BY <1>9 DEF AdvanceGeneration
  <2>2. rows \subseteq rows /\ 1 \in {0, 1} OBVIOUS
  <2> QED BY ONLY WalkInv, <2>1, <2>2, RowsGo
<1>10. ASSUME NEW cutoff \in 1..MaxMoment, ExpireRows(cutoff) PROVE WalkInv'
  <2> DEFINE left == {row \in rows : row.at >= cutoff}
             ids == {row.id : row \in rows}
  <2>1. walk.stream = "artifacts" /\ Change(left, generation, ids) /\ UNCHANGED <<lastId, moment>>
    BY <1>10 DEF ExpireRows
  <2>2. left \subseteq rows /\ \A r \in rows : r.id \in ids OBVIOUS
  <2> HIDE DEF left, ids
  <2> QED BY <1>1, <2>1, <2>2, RowsGo
<1>11. CASE NextMoment BY <1>1, <1>11, WalkStays DEF NextMoment
<1>12. CASE UNCHANGED listingVars BY <1>1, <1>12, WalkStays DEF listingVars
<1> QED BY <1>2, <1>3, <1>4, <1>5, <1>6, <1>7, <1>8, <1>9, <1>10, <1>11, <1>12 DEF ListingsNext

(***************************************************************************)
(* A walk is exact for every cap, page size, kind and bound: whatever is   *)
(* recorded, created, edited, deleted, made stale or dropped between its   *)
(* pages, it lists nothing twice and leaves nothing out, the rows whose    *)
(* place was changed under it excepted (audit.go:79-88,                    *)
(* tools_target.go:404-480, tools_annotations.go:688-791,                  *)
(* tools_events.go:350-440, tools_phase1.go:1134-1190).                    *)
(***************************************************************************)
THEOREM WalksAreExact == ListingsSpec => []WalkExact
<1>1. WalkInv => WalkExact
  <2> SUFFICES ASSUME WalkInv PROVE WalkExact OBVIOUS
  <2>1. walk.listed \in Seq(Row) BY DEF WalkInv, WalkShape
  <2>2. DOMAIN walk.listed = 1 .. Len(walk.listed) BY <2>1, LenProperties
  <2>3. ListedOnce BY <2>2 DEF WalkInv, OnceIn, ListedOnce
  <2> QED BY <2>3 DEF WalkInv, WalkExact
<1> QED BY <1>1, WalkBegins, WalkSteps, PTL DEF ListingsSpec

(***************************************************************************)
(* What a walk's cursor carries, and what a counted stream keeps.          *)
(***************************************************************************)

\* The rows a stream retains are told apart by how many are newer.
LEMMA RetainedFit ==
  ASSUME NEW S, S \subseteq Row, IsFiniteSet(S), Distinct(S)
  PROVE  Cardinality(Retained(S)) <= RetainedCap
<1> DEFINE newer(r) == {other \in S : other.id > r.id}
           kept == Retained(S)
           ranks == 0 .. (RetainedCap - 1)
           rank == [r \in kept |-> Cardinality(newer(r))]
<1>1. kept = {r \in S : Cardinality(newer(r)) < RetainedCap} BY DEF Retained
<1>2. \A r \in S : r.id \in Int BY RowFacts
<1>3. \A r \in S : newer(r) \in SUBSET S OBVIOUS
<1> HIDE DEF newer, kept
<1>4. ASSUME NEW r \in S PROVE IsFiniteSet(newer(r)) /\ Cardinality(newer(r)) \in Nat
  BY <1>3, FS_Subset, FS_CardinalityType
<1>5. RetainedCap \in Nat \ {0} BY ListingsAssumption
<1>6. ASSUME NEW r \in kept PROVE r \in S /\ rank[r] = Cardinality(newer(r)) /\ rank[r] \in ranks
  <2>1. r \in S /\ Cardinality(newer(r)) < RetainedCap BY <1>1
  <2>2. rank[r] = Cardinality(newer(r)) OBVIOUS
  <2>3. rank[r] \in Nat /\ rank[r] < RetainedCap BY <1>4, <2>1, <2>2
  <2> QED BY <1>5, <2>1, <2>2, <2>3
<1>7. ASSUME NEW a \in S, NEW b \in S, a.id < b.id PROVE Cardinality(newer(b)) < Cardinality(newer(a))
  <2>1. newer(b) \subseteq newer(a) BY <1>2, <1>7 DEF newer
  <2>2. b \in newer(a) /\ b \notin newer(b) BY <1>2, <1>7 DEF newer
  <2>3. /\ Cardinality(newer(b)) <= Cardinality(newer(a))
        /\ Cardinality(newer(b)) # Cardinality(newer(a))
    BY <1>4, <2>1, <2>2, FS_Subset
  <2>4. Cardinality(newer(a)) \in Nat /\ Cardinality(newer(b)) \in Nat BY <1>4
  <2> QED BY ONLY <2>3, <2>4
<1>8. ASSUME NEW a \in kept, NEW b \in kept, rank[a] = rank[b] PROVE a = b
  <2>1. a \in S /\ b \in S /\ Cardinality(newer(a)) = Cardinality(newer(b))
    BY <1>6, <1>8
  <2>2. Cardinality(newer(a)) \in Nat /\ Cardinality(newer(b)) \in Nat BY <1>4, <2>1
  <2>3. ~ a.id < b.id /\ ~ b.id < a.id BY <1>7, <2>1, <2>2
  <2>4. a.id = b.id BY <1>2, <2>1, <2>3
  <2> QED BY <2>1, <2>4 DEF Distinct
<1>9. rank \in [kept -> ranks]
  <2>1. \A r \in kept : rank[r] \in ranks BY <1>6
  <2> QED BY <2>1
<1> HIDE DEF rank
<1>10. rank \in Injection(kept, ranks) BY <1>8, <1>9 DEF Injection, IsInjective
<1>11. IsFiniteSet(ranks) /\ Cardinality(ranks) = RetainedCap
  <2>1. 0 \in Int /\ RetainedCap - 1 \in Int /\ ~ 0 > RetainedCap - 1
        /\ ((RetainedCap - 1) - 0) + 1 = RetainedCap
    BY <1>5
  <2> QED BY <2>1, FS_Interval
<1>12. Cardinality(kept) <= RetainedCap
  <2> HIDE DEF ranks
  <2> QED BY <1>10, <1>11, FS_Injection
<1> QED BY <1>12 DEF kept

LEMMA CutsCarryQuery ==
  ASSUME NEW rest, NEW query \in Query, NEW position
  PROVE  Cut(rest, query, position).next.query \in Query
<1>1. Unfiltered \in Query BY DEF Unfiltered, Query
<1>2. FirstRow.query \in Query BY <1>1 DEF FirstRow
<1> QED BY <1>2 DEF Cut

LEMMA CursorsCarryQuery ==
  ASSUME NEW stream \in Stream, NEW given \in Query, NEW cursor, cursor.query \in Query
  PROVE  Answer(stream, given, cursor).next.query \in Query
<1>1. FirstRow.query \in Query BY DEF FirstRow, Unfiltered, Query
<1>2. AuditQuery(given, cursor) \in Query /\ NoteQuery(given, cursor) \in Query
      /\ EventQuery(given, cursor) \in Query
  BY DEF AuditQuery, NoteQuery, EventQuery
<1>3. AuditPage(given, cursor).next.query \in Query BY <1>2, CutsCarryQuery DEF AuditPage
<1>4. MutationPage(given, cursor).next.query \in Query BY <1>2, CutsCarryQuery DEF MutationPage
<1>5. NotePage(given, cursor).next.query \in Query BY <1>2, CutsCarryQuery DEF NotePage
<1>6. EventPage(given, cursor).next.query \in Query BY <1>2, CutsCarryQuery DEF EventPage
<1>7. ArtifactPage(given, cursor).next.query \in Query
  BY <1>1, CutsCarryQuery DEF ArtifactPage
<1> QED BY <1>3, <1>4, <1>5, <1>6, <1>7 DEF Answer, Stream

ListedTypes ==
  /\ walk.cursor.query \in Query /\ moved \subseteq 1 .. MaxRows /\ changes \in 0 .. MaxChanges
  /\ walk.stream \in Counted => Cardinality(rows) <= RetainedCap

LEMMA ChangesTyped ==
  ASSUME WalkInv, ListedTypes, NEW newRows, NEW newGeneration, NEW displaced,
         Change(newRows, newGeneration, displaced), displaced \subseteq 1 .. MaxRows,
         walk.stream \in Counted => Cardinality(newRows) <= RetainedCap
  PROVE  ListedTypes'
<1>1. walk' = walk /\ rows' = newRows /\ changes < MaxChanges BY DEF Change, Busy
<1>2. changes' = changes \/ changes' = changes + 1 BY DEF Change
<1>3. changes \in 0 .. MaxChanges /\ MaxChanges \in Nat BY ListingsAssumption DEF ListedTypes
<1>4. changes' \in 0 .. MaxChanges BY ONLY <1>1, <1>2, <1>3
<1>5. moved' \subseteq 1 .. MaxRows BY DEF Change, ListedTypes
<1> QED BY <1>1, <1>4, <1>5 DEF ListedTypes

LEMMA PagesTyped ==
  ASSUME WalkInv, ListedTypes,
         NextPage \/ \E query \in Query, resend \in BOOLEAN : FirstPage(query, resend)
  PROVE  ListedTypes'
<1>1. WalkShape BY DEF WalkInv
<1>2. walk.stream \in Stream /\ walk.query \in Query /\ walk.cursor.query \in Query
  BY <1>1 DEF WalkShape, ListedTypes
<1>3. Unfiltered \in Query BY DEF Unfiltered, Query
<1>4. walk'.stream = walk.stream /\ walk'.cursor.query \in Query /\ UNCHANGED <<rows, moved, changes>>
  <2>1. CASE NextPage
    <3> DEFINE given == IF walk.resend THEN walk.query ELSE Unfiltered
               answer == Answer(walk.stream, given, walk.cursor)
    <3>1. answer.next.query \in Query BY <1>2, <1>3, CursorsCarryQuery
    <3>2. walk' = [walk EXCEPT !.listed = @ \o answer.page, !.cursor = answer.next,
                               !.state = answer.state]
          /\ UNCHANGED <<rows, moved, changes>>
      BY <2>1 DEF NextPage
    <3> HIDE DEF answer
    <3>3. walk'.stream = walk.stream /\ walk'.cursor = answer.next
      BY <1>1, <3>2 DEF WalkShape
    <3> QED BY <3>1, <3>2, <3>3
  <2>2. ASSUME NEW query \in Query, NEW resend \in BOOLEAN, FirstPage(query, resend)
        PROVE  walk'.stream = walk.stream /\ walk'.cursor.query \in Query
               /\ UNCHANGED <<rows, moved, changes>>
    <3> DEFINE answer == Answer(walk.stream, query, FirstRow)
    <3>1. FirstRow.query \in Query BY <1>3 DEF FirstRow
    <3>2. answer.next.query \in Query BY <1>2, <3>1, CursorsCarryQuery
    <3>3. walk' = [walk EXCEPT !.query = query, !.resend = resend, !.listed = answer.page,
                               !.cursor = answer.next, !.state = answer.state]
          /\ UNCHANGED <<rows, moved, changes>>
      BY <2>2 DEF FirstPage
    <3> HIDE DEF answer
    <3>4. walk'.stream = walk.stream /\ walk'.cursor = answer.next
      BY <1>1, <3>3 DEF WalkShape
    <3> QED BY <3>2, <3>3, <3>4
  <2> QED BY <2>1, <2>2
<1> QED BY <1>4 DEF ListedTypes

LEMMA ListedStep == WalkInv /\ ListedTypes /\ [ListingsNext]_listingVars => ListedTypes'
<1> SUFFICES ASSUME WalkInv, ListedTypes, [ListingsNext]_listingVars PROVE ListedTypes' OBVIOUS
<1>1. Stored /\ Clocks BY DEF WalkInv
<1>2. \A r \in rows : r.id \in 1 .. MaxRows BY <1>1 DEF Stored, Row
<1>3. ASSUME NEW kind \in Kind, RecordRow(kind) PROVE ListedTypes'
  <2> DEFINE new == [id |-> lastId + 1, at |-> 0, kind |-> kind, generation |-> 0]
             all == rows \cup {new}
  <2>1. walk.stream \in Counted /\ lastId < MaxRows /\ Change(Retained(all), generation, {})
    BY <1>3 DEF RecordRow
  <2>2. lastId \in Nat /\ MaxRows \in Nat /\ MaxMoment \in Nat
    BY <1>1, ListingsAssumption DEF Clocks
  <2>3. new \in Row /\ new.id = lastId + 1 BY <2>1, <2>2 DEF Row
  <2>4. \A r \in rows : r.id \in Int /\ r.id <= lastId BY <1>1, <2>1, <2>2, RowFacts DEF Stored, Clocks
  <2> HIDE DEF new
  <2>5. Distinct(all)
    <3> SUFFICES ASSUME NEW a \in all, NEW b \in all, a.id = b.id PROVE a = b BY DEF Distinct
    <3>1. CASE a \in rows /\ b \in rows BY <1>1, <3>1 DEF Stored, Distinct
    <3>2. CASE ~ (a \in rows /\ b \in rows) BY <2>2, <2>3, <2>4, <3>2
    <3> QED BY <3>1, <3>2
  <2>6. all \subseteq Row /\ IsFiniteSet(all) BY <1>1, <2>3, FS_AddElement DEF Stored
  <2> HIDE DEF all
  <2>7. Cardinality(Retained(all)) <= RetainedCap BY <2>5, <2>6, RetainedFit
  <2> QED BY <2>1, <2>7, ChangesTyped
<1>4. ASSUME NEW kind \in Kind, NEW id \in 1..MaxRows, NEW at \in 0..MaxMoment, Create(id, at, kind)
      PROVE  ListedTypes'
  <2> DEFINE new == [id |-> id, at |-> at, kind |-> kind, generation |-> generation]
             displaced == {id} \cup {row.id : row \in {r \in rows : walk.stream = "artifacts" /\ OlderFirst(new, r)}}
  <2>1. walk.stream \notin Counted /\ Change(rows \cup {new}, generation, displaced)
    BY <1>4 DEF Create, Counted
  <2>2. displaced \subseteq 1 .. MaxRows BY <1>2
  <2> HIDE DEF new, displaced
  <2> QED BY <2>1, <2>2, ChangesTyped
<1>5. ASSUME NEW newRows, NEW newGeneration, NEW displaced, displaced \subseteq 1 .. MaxRows,
             walk.stream \notin Counted, Change(newRows, newGeneration, displaced)
      PROVE  ListedTypes'
  BY <1>5, ChangesTyped
<1>6. ASSUME NEW row \in rows,
             (\E kind \in Kind : Update(row, kind)) \/ (\E at \in 0..moment : Overwrite(row, at))
               \/ Delete(row)
      PROVE  ListedTypes'
  <2>1. {} \subseteq 1 .. MaxRows /\ {row.id} \subseteq 1 .. MaxRows BY <1>2
  <2>2. walk.stream \notin Counted BY <1>6 DEF Update, Overwrite, Delete, Counted
  <2>3. \E newRows, newGeneration, displaced :
          displaced \subseteq 1 .. MaxRows /\ Change(newRows, newGeneration, displaced)
    BY <1>6, <2>1 DEF Update, Overwrite, Delete
  <2> QED BY <1>5, <2>2, <2>3
<1>7. CASE AdvanceGeneration
  <2>1. walk.stream \notin Counted /\ Change(rows, 1, {}) BY <1>7 DEF AdvanceGeneration, Counted
  <2> QED BY <1>5, <2>1
<1>8. ASSUME NEW cutoff \in 1..MaxMoment, ExpireRows(cutoff) PROVE ListedTypes'
  <2> DEFINE ids == {row.id : row \in rows}
  <2>1. walk.stream \notin Counted /\ Change({row \in rows : row.at >= cutoff}, generation, ids)
    BY <1>8 DEF ExpireRows, Counted
  <2>2. ids \subseteq 1 .. MaxRows BY <1>2
  <2> HIDE DEF ids
  <2> QED BY <1>5, <2>1, <2>2
<1>9. CASE NextMoment BY <1>9 DEF NextMoment, ListedTypes
<1>10. CASE UNCHANGED listingVars BY <1>10 DEF listingVars, ListedTypes
<1>11. CASE NextPage \/ \E query \in Query, resend \in BOOLEAN : FirstPage(query, resend)
  BY <1>11, PagesTyped
<1> QED BY <1>3, <1>4, <1>6, <1>7, <1>8, <1>9, <1>10, <1>11 DEF ListingsNext

(***************************************************************************)
(* The types of a walk. A counted stream keeps no more rows than its cap,  *)
(* and a cursor always carries a query (audit.go:79-88,                    *)
(* tools_target.go:404-480).                                               *)
(***************************************************************************)
THEOREM ListingsAreTyped == ListingsSpec => []ListingsTypeOK
<1>1. ListingsInit => ListedTypes
  <2> SUFFICES ASSUME NEW s \in Stream, ListingsStart(s) PROVE ListedTypes BY DEF ListingsInit
  <2>1. rows = {} /\ moved = {} /\ changes = 0 BY DEF ListingsStart
  <2>2. walk.cursor = FirstRow BY DEF ListingsStart, NoWalk
  <2>3. FirstRow.query \in Query BY DEF FirstRow, Unfiltered, Query
  <2>4. Cardinality(rows) = 0 BY <2>1, FS_EmptySet
  <2> QED BY <2>1, <2>2, <2>3, <2>4, ListingsAssumption DEF ListedTypes
<1>2. WalkInv /\ ListedTypes => ListingsTypeOK
  <2> SUFFICES ASSUME WalkInv, ListedTypes PROVE ListingsTypeOK OBVIOUS
  <2>1. Stored /\ WalkShape /\ Clocks /\ steady \subseteq Picked(walk.stream, walk.query)
    BY DEF WalkInv
  <2>2. steady \subseteq rows BY <2>1 DEF Picked
  <2>3. \A i \in DOMAIN walk.listed : walk.listed[i] \in Row
    BY <2>1, ElementOfSeq, LenProperties DEF WalkShape
  <2>4. generation \in 0 .. 1 BY <2>1 DEF Clocks
  <2> QED BY <2>1, <2>2, <2>3, <2>4 DEF Stored, WalkShape, Clocks, ListedTypes, ListingsTypeOK
<1> QED BY <1>1, <1>2, ListedStep, WalkBegins, WalkSteps, PTL DEF ListingsSpec

-----------------------------------------------------------------------------
(***************************************************************************)
(* The trace captures. Where the lines of a capture are in the log.        *)
(***************************************************************************)
Skipped == Max({0, Len(log) - EntryLimit})

LEMMA RecentFacts ==
  ASSUME log \in Seq(Instruction)
  PROVE  /\ Skipped \in Nat /\ Recent \in Seq(Instruction) /\ Len(Recent) = Len(log) - Skipped
         /\ \A i \in 1 .. Len(Recent) : Recent[i] = log[i + Skipped]
         /\ \A i \in Int : i > Len(log) - EntryLimit /\ i >= 1 <=> i >= Skipped + 1
         /\ Skipped <= Len(log)
<1> DEFINE n == Len(log)
<1>1. n \in Nat /\ EntryLimit \in Nat /\ EntryLimit > 0 BY LenProperties, TraceCaptureAssumption
<1> HIDE DEF n
<1>2. {0, n - EntryLimit} \subseteq Int BY <1>1
<1>3. Skipped = IF n > EntryLimit THEN n - EntryLimit ELSE 0
  <2>1. CASE n > EntryLimit
    <3> DEFINE S == {0, n - EntryLimit}
    <3>0. n - EntryLimit \in S /\ n - EntryLimit \in Int /\ \A x \in S : x <= n - EntryLimit
      BY <1>1, <2>1
    <3> HIDE DEF S
    <3>1. Max(S) = n - EntryLimit BY <1>2, <3>0, MaxIs DEF S
    <3> QED BY <2>1, <3>1 DEF Skipped, n, S
  <2>2. CASE ~ (n > EntryLimit)
    <3> DEFINE S == {0, n - EntryLimit}
    <3>0. 0 \in S /\ 0 \in Int /\ \A x \in S : x <= 0
      BY <1>1, <2>2
    <3> HIDE DEF S
    <3>1. Max(S) = 0 BY <1>2, <3>0, MaxIs DEF S
    <3> QED BY <2>2, <3>1 DEF Skipped, n, S
  <2> QED BY <2>1, <2>2
<1>4. Skipped \in Nat /\ Skipped <= n BY <1>1, <1>3
<1>5. Recent = SubSeq(log, Skipped + 1, n) BY DEF Recent, Skipped, n
<1>6. DOMAIN log = 1 .. n BY LenProperties DEF n
<1>7. /\ SubSeq(log, Skipped + 1, n) \in Seq(Instruction)
      /\ Len(SubSeq(log, Skipped + 1, n)) = n - Skipped
      /\ \A i \in 1 .. n - Skipped : SubSeq(log, Skipped + 1, n)[i] = log[i + Skipped]
  <2>0. \A i \in 1 .. n : log[i] \in Instruction BY ElementOfSeq DEF n
  <2>1. \A i \in Skipped + 1 .. n : log[i] \in Instruction BY <1>4, <2>0
  <2>2. SubSeq(log, Skipped + 1, n) \in Seq(Instruction)
    BY <1>1, <1>4, <1>6, SubSeqProperties
  <2>3. Len(SubSeq(log, Skipped + 1, n)) = n - Skipped
    BY <1>1, <1>4, <1>6, SubSeqProperties
  <2>4. \A i \in 1 .. n - Skipped : SubSeq(log, Skipped + 1, n)[i] = log[i + Skipped]
    BY <1>1, <1>4, <1>6, SubSeqProperties
  <2> QED BY <2>2, <2>3, <2>4
<1>8. \A i \in Int : i > n - EntryLimit /\ i >= 1 <=> i >= Skipped + 1 BY <1>1, <1>3
<1> QED BY <1>4, <1>5, <1>7, <1>8 DEF n

\* The lines of a capture are what the log shows, one for one and in its order.
Echoed(listed, g) ==
  /\ listed \in Seq(Instruction) /\ Len(listed) \in Nat /\ DOMAIN listed = 1 .. Len(listed)
  /\ \A k \in 1 .. Len(listed) : g[k] \in Shown /\ g[k] \in Int /\ listed[k] = log[g[k]]
  /\ \A j, k \in 1 .. Len(listed) : j < k => g[j] < g[k]
  /\ \A i \in Shown : \E k \in 1 .. Len(listed) : g[k] = i

LEMMA LinesAreShown ==
  ASSUME log \in Seq(Instruction)
  PROVE  \E g : Echoed(Filtered(Recent, capture.filter), g)
<1> DEFINE text == Recent
           filter == capture.filter
           P == {i \in DOMAIN text : Passes(text[i], filter)}
           listed == PlacedAt(text, P)
           g == [k \in 1 .. Cardinality(P) |-> Ascend(P)[k] + Skipped]
<1>1. /\ Skipped \in Nat /\ text \in Seq(Instruction) /\ Len(text) = Len(log) - Skipped
      /\ \A i \in 1 .. Len(text) : text[i] = log[i + Skipped]
      /\ \A i \in Int : i > Len(log) - EntryLimit /\ i >= 1 <=> i >= Skipped + 1
      /\ Skipped <= Len(log)
  BY RecentFacts
<1>2. Len(log) \in Nat /\ DOMAIN log = 1 .. Len(log) BY LenProperties
<1> HIDE DEF text, filter
<1>3. Len(text) \in Nat /\ DOMAIN text = 1 .. Len(text) BY <1>1, LenProperties
<1>4. /\ IsFiniteSet(P) /\ P \subseteq Int /\ Cardinality(P) \in Nat /\ P \subseteq DOMAIN text
      /\ listed \in Seq(Instruction) /\ Len(listed) = Cardinality(P)
      /\ \A n \in 1 .. Cardinality(P) : listed[n] = text[Ascend(P)[n]]
      /\ \A n \in 1 .. Cardinality(P) : Ascend(P)[n] \in P
  BY <1>1, AtFacts
<1>5. /\ \A i, j \in 1 .. Cardinality(P) : i < j => Ascend(P)[i] < Ascend(P)[j]
      /\ \A x \in P : \E i \in 1 .. Cardinality(P) : Ascend(P)[i] = x
  BY <1>4, AscendFacts
<1>6. \A i \in 1 .. Len(text) : i \in P <=> Passes(text[i], filter) BY <1>3
<1>7. \A i \in P : i \in 1 .. Len(text) BY <1>3, <1>4
<1> DEFINE m == Cardinality(P)
           a == Ascend(P)
<1> HIDE DEF P, listed
<1>8. \A i \in P : i + Skipped \in Shown
  <2> SUFFICES ASSUME NEW i \in P PROVE i + Skipped \in Shown OBVIOUS
  <2>1. i \in 1 .. Len(text) /\ i + Skipped \in 1 .. Len(log) /\ i + Skipped >= Skipped + 1
    BY <1>1, <1>2, <1>3, <1>7
  <2>2. i + Skipped > Len(log) - EntryLimit BY <1>1, <2>1
  <2>3. Passes(log[i + Skipped], filter) BY <1>1, <1>6, <2>1
  <2> QED BY <1>2, <2>1, <2>2, <2>3 DEF Shown, filter
<1>9. \A i \in Shown : i - Skipped \in P /\ i \in Int
  <2> SUFFICES ASSUME NEW i \in Shown PROVE i - Skipped \in P /\ i \in Int OBVIOUS
  <2>1. i \in 1 .. Len(log) /\ i > Len(log) - EntryLimit /\ Passes(log[i], filter)
    BY <1>2 DEF Shown, filter
  <2>2. i >= Skipped + 1 BY <1>1, <2>1
  <2>3. i - Skipped \in 1 .. Len(text) /\ (i - Skipped) + Skipped = i BY <1>1, <1>2, <2>1, <2>2
  <2>4. text[i - Skipped] = log[i] BY <1>1, <2>3
  <2> QED BY <1>6, <2>1, <2>3, <2>4
<1> HIDE DEF m, a
<1>10. m \in Nat /\ Len(listed) = m /\ DOMAIN listed = 1 .. m
  BY <1>4, LenProperties DEF m
<1>11. \A k \in 1 .. m : g[k] = a[k] + Skipped BY DEF m, a
<1>12. \A k \in 1 .. m : a[k] \in P /\ a[k] \in Int /\ listed[k] = text[a[k]] BY <1>4 DEF m, a
<1> HIDE DEF g
<1>13. ASSUME NEW k \in 1 .. m PROVE g[k] \in Shown /\ g[k] \in Int /\ listed[k] = log[g[k]]
  <2>1. text[a[k]] = log[a[k] + Skipped] BY <1>1, <1>7, <1>12
  <2> QED BY <1>1, <1>8, <1>11, <1>12, <2>1
<1>14. ASSUME NEW j \in 1 .. m, NEW k \in 1 .. m, j < k PROVE g[j] < g[k]
  <2>1. a[j] < a[k] BY <1>5, <1>14 DEF m, a
  <2> QED BY <1>1, <1>11, <1>12, <2>1
<1>15. ASSUME NEW i \in Shown PROVE \E k \in 1 .. m : g[k] = i
  <2>1. i - Skipped \in P BY <1>9
  <2>2. PICK k \in 1 .. m : a[k] = i - Skipped BY <1>5, <2>1 DEF m, a
  <2>3. g[k] = i BY <1>1, <1>9, <1>11, <2>2
  <2> QED BY <2>3
<1>16. listed = Filtered(text, filter) BY DEF listed, P, Filtered, Selected
<1>17. Echoed(listed, g) BY <1>4, <1>10, <1>13, <1>14, <1>15 DEF Echoed
<1> QED BY <1>16, <1>17 DEF text, filter

First(i) == \A j \in Shown : j < i => log[j] # log[i]

Chosen == {i \in Shown : capture.filter.repeated \/ First(i)}

\* The rows of a trace: what was chosen of the log, with the lengths decoded for it.
Tabled(table, lengths) ==
  /\ table \in Seq([pc : Instruction, length : {lengths[a] : a \in Instruction}])
  /\ Len(table) = Cardinality(Chosen) /\ Cardinality(Chosen) \in Nat /\ IsFiniteSet(Chosen)
  /\ \A n \in 1 .. Len(table) :
       /\ table[n].pc = log[Ascend(Chosen)[n]] /\ table[n].length = lengths[table[n].pc]
       /\ table[n].pc \in ToSet(Filtered(Recent, capture.filter))

LEMMA RowsAre ==
  ASSUME log \in Seq(Instruction), NEW lengths
  PROVE  Tabled(Rows(Recent, capture.filter, lengths), lengths)
<1> DEFINE filter == capture.filter
           listed == Filtered(Recent, filter)
           kept == {i \in DOMAIN listed : filter.repeated \/ \A j \in 1..i - 1 : listed[j] # listed[i]}
           table == [n \in 1..Cardinality(kept) |->
                       LET a == listed[Ascend(kept)[n]] IN [pc |-> a, length |-> lengths[a]]]
<1>1. PICK g : Echoed(listed, g) BY LinesAreShown
<1>2. /\ listed \in Seq(Instruction) /\ Len(listed) \in Nat /\ DOMAIN listed = 1 .. Len(listed)
      /\ \A k \in 1 .. Len(listed) : g[k] \in Shown /\ g[k] \in Int /\ listed[k] = log[g[k]]
      /\ \A j, k \in 1 .. Len(listed) : j < k => g[j] < g[k]
      /\ \A i \in Shown : \E k \in 1 .. Len(listed) : g[k] = i
  BY <1>1 DEF Echoed
<1>3. Rows(Recent, filter, lengths) = table BY DEF Rows
<1>8. ToSet(listed) = {listed[i] : i \in DOMAIN listed} BY DEF ToSet
<1> HIDE DEF listed
<1>4. IsFiniteSet(kept) /\ kept \subseteq 1 .. Len(listed) /\ kept \subseteq Int
  <2>1. IsFiniteSet(1 .. Len(listed))
    <3>1. 1 \in Int /\ Len(listed) \in Int BY <1>2
    <3> QED BY ONLY <3>1, FS_Interval
  <2>2. kept \subseteq 1 .. Len(listed) BY <1>2
  <2> QED BY <1>2, <2>1, <2>2, FS_Subset
<1>5. \A k \in 1 .. Len(listed) : k \in kept <=> filter.repeated \/ \A j \in 1..k - 1 : listed[j] # listed[k]
  BY <1>2
<1>6. \A n \in 1 .. Cardinality(kept) : table[n].pc = listed[Ascend(kept)[n]]
                                     /\ table[n] = [pc |-> table[n].pc, length |-> lengths[table[n].pc]]
  OBVIOUS
<1>7. DOMAIN table = 1 .. Cardinality(kept) OBVIOUS
<1> DEFINE m == Cardinality(kept)
<1>9. /\ m \in Nat /\ \A n \in 1 .. m : Ascend(kept)[n] \in kept BY <1>4, AscendFacts
<1> HIDE DEF kept
<1>10. ASSUME NEW k \in 1 .. Len(listed)
       PROVE  (\A j \in 1..k - 1 : listed[j] # listed[k]) <=> First(g[k])
  <2>1. ASSUME \A j \in 1..k - 1 : listed[j] # listed[k], NEW i \in Shown, i < g[k]
        PROVE  log[i] # log[g[k]]
    <3>1. PICK j \in 1 .. Len(listed) : g[j] = i BY <1>2
    <3>2. ~ (j >= k)
      <4>1. CASE j = k BY <1>2, <2>1, <3>1, <4>1
      <4>2. CASE j > k
        <5>1. g[k] < g[j] BY <1>2, <4>2
        <5> QED BY <1>2, <2>1, <3>1, <5>1
      <4> QED BY <4>1, <4>2, <1>2
    <3>3. j \in 1 .. k - 1 BY <1>2, <3>2
    <3>4. listed[j] # listed[k] BY <2>1, <3>3
    <3> QED BY <1>2, <3>1, <3>4
  <2>2. ASSUME First(g[k]), NEW j \in 1 .. k - 1 PROVE listed[j] # listed[k]
    <3>1. j \in 1 .. Len(listed) /\ j < k BY <1>2
    <3>2. g[j] < g[k] /\ g[j] \in Shown BY <1>2, <3>1
    <3>3. log[g[j]] # log[g[k]] BY <2>2, <3>2 DEF First
    <3> QED BY <1>2, <3>1, <3>3
  <2> QED BY <2>1, <2>2 DEF First
<1>11. (\A i \in Chosen : \E k \in kept : g[k] = i) /\ \A k \in kept : g[k] \in Chosen
  <2>1. ASSUME NEW i \in Chosen PROVE \E k \in kept : g[k] = i
    <3>1. PICK k \in 1 .. Len(listed) : g[k] = i BY <1>2 DEF Chosen
    <3>2. filter.repeated \/ First(i) BY DEF Chosen
    <3> QED BY <1>5, <1>10, <3>1, <3>2
  <2>2. ASSUME NEW k \in kept PROVE g[k] \in Chosen
    <3>1. k \in 1 .. Len(listed) BY <1>4
    <3> QED BY <1>2, <1>5, <1>10, <3>1 DEF Chosen
  <2> QED BY <2>1, <2>2
<1>12. \A k \in kept : g[k] \in Int BY <1>2, <1>4
<1>13. \A j, k \in kept : j < k => g[j] < g[k] BY <1>2, <1>4
<1>14. /\ IsFiniteSet(Chosen) /\ Cardinality(Chosen) = m
       /\ \A n \in 1 .. m : Ascend(Chosen)[n] = g[Ascend(kept)[n]]
  <2>1. IsFiniteSet(kept) BY <1>4
  <2>2. kept \subseteq Int BY <1>4
  <2>3. \A i \in Chosen : \E k \in kept : g[k] = i BY <1>11
  <2>4. \A k \in kept : g[k] \in Chosen BY <1>11
  <2>5. Grows(g, kept, Chosen) BY ONLY <2>1, <2>2, <2>3, <2>4, <1>12, <1>13 DEF Grows
  <2> QED BY ONLY <2>5, AscendMaps
<1> HIDE DEF table, m
<1>15. ASSUME NEW n \in 1 .. m
       PROVE  /\ table[n].pc = log[Ascend(Chosen)[n]] /\ table[n].pc \in Instruction
              /\ table[n].pc \in ToSet(listed)
  <2>1. Ascend(kept)[n] \in 1 .. Len(listed) BY <1>4, <1>9
  <2>2. table[n].pc = listed[Ascend(kept)[n]] BY <1>6 DEF m
  <2>3. listed[Ascend(kept)[n]] = log[g[Ascend(kept)[n]]] BY <1>2, <2>1
  <2>4. listed[Ascend(kept)[n]] \in Instruction BY <1>2, <2>1, ElementOfSeq
  <2> QED BY <1>2, <1>8, <1>14, <2>1, <2>2, <2>3, <2>4
<1>16. ASSUME NEW n \in 1 .. m
       PROVE  /\ table[n].length = lengths[table[n].pc]
              /\ table[n] \in [pc : Instruction, length : {lengths[a] : a \in Instruction}]
  <2>1. table[n] = [pc |-> table[n].pc, length |-> lengths[table[n].pc]] BY <1>6 DEF m
  <2>2. table[n].pc \in Instruction BY <1>15
  <2>3. table[n].length = lengths[table[n].pc] BY <2>1
  <2> QED BY <2>1, <2>2, <2>3
<1>17. /\ table \in Seq([pc : Instruction, length : {lengths[a] : a \in Instruction}])
       /\ Len(table) = m
  <2> DEFINE S == [pc : Instruction, length : {lengths[a] : a \in Instruction}]
  <2>1. \A n \in 1 .. m : table[n] \in S BY <1>16
  <2>2. table = [n \in 1 .. m |-> table[n]] BY DEF table, m
  <2> HIDE DEF S
  <2>3. table \in [1 .. m -> S] BY <2>1, <2>2
  <2>4. table \in Seq(S) /\ Len(table) = m BY <1>9, <2>3
  <2> QED BY <2>4 DEF S
<1> QED BY <1>3, <1>9, <1>14, <1>15, <1>16, <1>17 DEF Tabled, listed

(***************************************************************************)
(* The invariant of a capture: what was read of the log is still its end,  *)
(* what was decoded of code nobody hit is its length, the answer is    *)
(* composed of both, and the requested watchpoint has advanced in the      *)
(* window if and only if the last line of the log made it fire.            *)
(***************************************************************************)
PastDecoding == {"pc", "details", "hits", "done"}
After == {"decoding"} \cup PastDecoding

CaptureTypes ==
  /\ code \in [Instruction -> Nat \ {0}] /\ pc \in Instruction /\ rolling \in BOOLEAN
  /\ log \in Seq(Instruction)
  /\ triggers \in [Trigger -> [placed : BOOLEAN, armed : BOOLEAN, hits : Nat]]
  /\ capture = [kind |-> capture.kind, phase |-> capture.phase, filter |-> capture.filter,
                trigger |-> capture.trigger, wasRunning |-> capture.wasRunning,
                baseline |-> capture.baseline, text |-> capture.text, fired |-> capture.fired,
                left |-> capture.left, lengths |-> capture.lengths, intact |-> capture.intact,
                pc |-> capture.pc, found |-> capture.found, struck |-> capture.struck]
  /\ capture.kind \in {"none", "trace", "coverage", "watchpoint"}
  /\ capture.phase \in {"idle", "warming", "window"} \cup After
  /\ capture.wasRunning \in BOOLEAN /\ capture.intact \in BOOLEAN
  /\ capture.left \subseteq Instruction /\ capture.lengths \in [Instruction -> Nat]

ReadBack == capture.phase \in After => capture.text = Recent

DecodedRight ==
  /\ capture.phase \in After /\ capture.intact =>
       \A a \in ToSet(Filtered(capture.text, capture.filter)) :
         a \in capture.left \/ capture.lengths[a] = code[a]
  /\ capture.phase \in PastDecoding => capture.left = {}

ReportRight ==
  /\ capture.phase \in {"pc", "details", "hits"} =>
       /\ capture.kind # "coverage" /\ capture.trigger \in capture.fired
       /\ report = [NoReport EXCEPT !.rows = Rows(capture.text, capture.filter, capture.lengths)]
  /\ capture.phase = "done" =>
       IF capture.kind = "coverage" THEN report = Coverage
       ELSE /\ report.rows = Rows(capture.text, capture.filter, capture.lengths)
            /\ report.event # {} <=> capture.trigger \in capture.fired

StruckIn(w) == \E a \in Instruction : <<w, a>> \in capture.struck

StruckLast(w) == StruckIn(w) => Len(log) > 0 /\ <<w, Last(log)>> \in capture.struck

TriggerRight ==
  capture.kind = "watchpoint" =>
    LET w == capture.trigger
    IN /\ w \in Trigger /\ capture.filter = Whole /\ StruckLast(w) /\ capture.baseline[w] \in Nat
       /\ capture.phase \in {"warming", "window"} =>
            /\ triggers[w].placed /\ triggers[w].hits >= capture.baseline[w]
            /\ StruckIn(w) <=> triggers[w].hits > capture.baseline[w]
       /\ capture.phase = "warming" => ~ triggers[w].armed /\ ~ StruckIn(w)
       /\ capture.phase = "window" /\ StruckIn(w) => ~ rolling
       /\ capture.phase \in After => (StruckIn(w) <=> w \in capture.fired)

CaptureInv == CaptureTypes /\ ReadBack /\ DecodedRight /\ ReportRight /\ TriggerRight

\* Nothing that the answer is made of changes, and code only where the capture says so.
Unmoved ==
  /\ capture' = [capture EXCEPT !.intact = capture'.intact]
  /\ capture'.intact \in BOOLEAN /\ (capture'.intact => capture.intact)
  /\ code' = code \/ (~ capture'.intact /\ code' \in [Instruction -> Nat \ {0}])
                  \/ (capture.phase = "idle" /\ code' \in [Instruction -> Nat \ {0}])
  /\ pc' \in Instruction /\ rolling' \in BOOLEAN /\ log' = log /\ report' = report
  /\ triggers' \in [Trigger -> [placed : BOOLEAN, armed : BOOLEAN, hits : Nat]]
  /\ Recording => rolling' = rolling /\ triggers' = triggers

LEMMA UnmovedKeeps ==
  ASSUME CaptureInv, Unmoved
  PROVE  CaptureInv'
<1>1. CaptureTypes /\ capture' = [capture EXCEPT !.intact = capture'.intact]
  BY DEF CaptureInv, Unmoved
<1>2. /\ capture'.kind = capture.kind /\ capture'.phase = capture.phase
      /\ capture'.filter = capture.filter /\ capture'.trigger = capture.trigger
      /\ capture'.wasRunning = capture.wasRunning /\ capture'.baseline = capture.baseline
      /\ capture'.text = capture.text /\ capture'.fired = capture.fired
      /\ capture'.left = capture.left /\ capture'.lengths = capture.lengths
      /\ capture'.pc = capture.pc /\ capture'.found = capture.found
      /\ capture'.struck = capture.struck
      /\ capture' = [kind |-> capture.kind, phase |-> capture.phase, filter |-> capture.filter,
                trigger |-> capture.trigger, wasRunning |-> capture.wasRunning,
                baseline |-> capture.baseline, text |-> capture.text, fired |-> capture.fired,
                left |-> capture.left, lengths |-> capture.lengths, intact |-> capture'.intact,
                pc |-> capture.pc, found |-> capture.found, struck |-> capture.struck]
  BY <1>1 DEF CaptureTypes
<1>3. /\ log' = log /\ report' = report
      /\ capture'.intact \in BOOLEAN /\ (capture'.intact => capture.intact)
      /\ code' = code \/ (~ capture'.intact /\ code' \in [Instruction -> Nat \ {0}])
                      \/ (capture.phase = "idle" /\ code' \in [Instruction -> Nat \ {0}])
      /\ pc' \in Instruction /\ rolling' \in BOOLEAN
      /\ triggers' \in [Trigger -> [placed : BOOLEAN, armed : BOOLEAN, hits : Nat]]
      /\ Recording => rolling' = rolling /\ triggers' = triggers
  BY DEF Unmoved
<1>4. CaptureTypes' BY <1>1, <1>2, <1>3 DEF CaptureTypes
<1>5. ReadBack' BY <1>2, <1>3 DEF CaptureInv, ReadBack, Recent
<1>6. DecodedRight' BY <1>2, <1>3 DEF CaptureInv, DecodedRight, After, PastDecoding
<1>7. Coverage' = Coverage BY <1>2 DEF Coverage, FallThrough
<1>8. ReportRight' BY <1>2, <1>3, <1>7 DEF CaptureInv, ReportRight
<1>9. \A w : StruckIn(w)' = StruckIn(w) /\ StruckLast(w)' = StruckLast(w)
  BY <1>2, <1>3 DEF StruckIn, StruckLast
<1>10. TriggerRight' 
  BY <1>2, <1>3, <1>9 DEF CaptureInv, TriggerRight, Recording, After, PastDecoding
<1> QED BY <1>4, <1>5, <1>6, <1>8, <1>10 DEF CaptureInv

LEMMA CaptureBegins == TraceCaptureInit => CaptureInv
<1> SUFFICES ASSUME TraceCaptureInit PROVE CaptureInv OBVIOUS
<1>1. code \in [Instruction -> Nat \ {0}]
  BY TraceCaptureAssumption DEF TraceCaptureInit
<1>2. 0 \in Instruction BY TraceCaptureAssumption DEF Instruction
<1>3. capture = NoTrace /\ triggers = [w \in Trigger |-> [placed |-> TRUE, armed |-> TRUE, hits |-> 0]]
      /\ pc = 0 /\ rolling = TRUE /\ log = <<>>
  BY DEF TraceCaptureInit, TraceCaptureStart
<1>4. NoTrace = [kind |-> "none", phase |-> "idle", filter |-> Whole, trigger |-> "none",
              wasRunning |-> FALSE, baseline |-> [w \in Trigger |-> 0], text |-> <<>>, fired |-> {},
              left |-> {}, lengths |-> [a \in Instruction |-> 0], intact |-> TRUE,
              pc |-> 0, found |-> FALSE, struck |-> {}]
  BY DEF NoTrace
<1>5. CaptureTypes
  <2>1. log \in Seq(Instruction) BY <1>3
  <2>2. triggers \in [Trigger -> [placed : BOOLEAN, armed : BOOLEAN, hits : Nat]] BY <1>3
  <2>3. [a \in Instruction |-> 0] \in [Instruction -> Nat] OBVIOUS
  <2> QED BY <1>1, <1>2, <1>3, <1>4, <2>1, <2>2, <2>3 DEF CaptureTypes
<1>6. capture.phase = "idle" /\ capture.kind = "none" BY <1>3, <1>4
<1> QED BY <1>5, <1>6
  DEF CaptureInv, ReadBack, DecodedRight, ReportRight, TriggerRight, After, PastDecoding

LEMMA Retires ==
  ASSUME CaptureInv, NEW next \in Instruction, NEW hit, Retire(next, hit)
  PROVE  CaptureInv'
<1>1. CaptureTypes BY DEF CaptureInv
<1>2. triggers' \in [Trigger -> [placed : BOOLEAN, armed : BOOLEAN, hits : Nat]]
  <2>1. triggers' = [w \in Trigger |-> IF w \in Struck(hit)
                                       THEN [triggers[w] EXCEPT !.hits = @ + 1] ELSE triggers[w]]
    BY DEF Retire
  <2>2. \A w \in Trigger : triggers[w] \in [placed : BOOLEAN, armed : BOOLEAN, hits : Nat]
    BY <1>1 DEF CaptureTypes
  <2>3. \A w \in Trigger : [triggers[w] EXCEPT !.hits = @ + 1] \in [placed : BOOLEAN, armed : BOOLEAN, hits : Nat]
    BY <2>2
  <2> QED BY <2>1, <2>2, <2>3
<1>3. pc' = next /\ code' = code /\ report' = report /\ rolling = TRUE
      /\ rolling' = (Struck(hit) = {})
  BY <1>1 DEF Retire, CaptureTypes
<1>4. CASE ~ Recording
  <2>1. log' = log /\ capture' = capture BY <1>4 DEF Retire
  <2>2. capture = [capture EXCEPT !.intact = capture.intact] /\ capture.intact \in BOOLEAN
    BY <1>1 DEF CaptureTypes
  <2>3. Unmoved BY <1>2, <1>3, <1>4, <2>1, <2>2 DEF Unmoved
  <2> QED BY <2>3, UnmovedKeeps
<1>5. CASE Recording
  <2>1. log' = Append(log, pc) /\ capture' = [capture EXCEPT !.struck = @ \cup (Struck(hit) \X {pc})]
    BY <1>5 DEF Retire
  <2>2. /\ capture'.kind = capture.kind /\ capture'.phase = capture.phase
        /\ capture'.filter = capture.filter /\ capture'.trigger = capture.trigger
        /\ capture'.baseline = capture.baseline
        /\ capture'.struck = capture.struck \cup (Struck(hit) \X {pc})
        /\ capture' = [kind |-> capture.kind, phase |-> capture.phase, filter |-> capture.filter,
                  trigger |-> capture.trigger, wasRunning |-> capture.wasRunning,
                  baseline |-> capture.baseline, text |-> capture.text, fired |-> capture.fired,
                  left |-> capture.left, lengths |-> capture.lengths, intact |-> capture.intact,
                  pc |-> capture.pc, found |-> capture.found, struck |-> capture'.struck]
    BY <1>1, <2>1 DEF CaptureTypes
  <2>3. log' \in Seq(Instruction) /\ Len(log') > 0 /\ Last(log') = pc
    <3>1. log \in Seq(Instruction) /\ pc \in Instruction BY <1>1 DEF CaptureTypes
    <3> QED BY <2>1, <3>1, AppendProperties, LenProperties DEF Last
  <2>4. CaptureTypes' BY <1>1, <1>2, <1>3, <2>2, <2>3 DEF CaptureTypes
  <2>5. capture.phase \in {"warming", "window"} BY <1>5 DEF Recording
  <2>6. capture'.phase \notin After /\ capture'.phase \notin PastDecoding
        /\ capture'.phase \notin {"pc", "details", "hits", "done"}
    BY <2>2, <2>5 DEF After, PastDecoding
  <2>7. TriggerRight'
    <3> SUFFICES ASSUME capture.kind = "watchpoint" PROVE TriggerRight' BY <2>2 DEF TriggerRight
    <3> DEFINE w == capture.trigger
               b == capture.baseline[w]
    <3>1. /\ w \in Trigger /\ capture.filter = Whole /\ StruckLast(w) /\ b \in Nat
          /\ triggers[w].placed /\ triggers[w].hits >= b
          /\ StruckIn(w) <=> triggers[w].hits > b
          /\ capture.phase = "warming" => ~ triggers[w].armed /\ ~ StruckIn(w)
          /\ capture.phase = "window" /\ StruckIn(w) => ~ rolling
      BY <2>5 DEF CaptureInv, TriggerRight
    <3>2. ~ StruckIn(w) BY <1>3, <2>5, <3>1
    <3>3. triggers[w].hits \in Nat BY <1>1, <3>1 DEF CaptureTypes
    <3>4. triggers[w].hits = b BY <3>1, <3>2, <3>3
    <3>5. triggers' = [x \in Trigger |-> IF x \in Struck(hit)
                                       THEN [triggers[x] EXCEPT !.hits = @ + 1] ELSE triggers[x]]
      BY DEF Retire
    <3>6. triggers[w] \in [placed : BOOLEAN, armed : BOOLEAN, hits : Nat]
      BY <1>1, <3>1 DEF CaptureTypes
    <3> HIDE DEF w, b
    <3>7. CASE w \in Struck(hit)
      <4>1. triggers'[w] = [triggers[w] EXCEPT !.hits = @ + 1] BY <3>1, <3>5, <3>7
      <4>2. triggers'[w].hits = b + 1 /\ triggers'[w].placed BY <3>1, <3>4, <3>6, <4>1
      <4>3. <<w, pc>> \in capture'.struck /\ pc \in Instruction BY <1>1, <2>2, <3>7 DEF CaptureTypes
      <4>5. Len(log') > 0 /\ <<w, Last(log')>> \in capture'.struck BY <2>3, <4>3
      <4>6. rolling' = FALSE BY <1>3, <3>7
      <4>7. triggers[w].armed BY <3>7 DEF Struck
      <4>8. capture.phase # "warming" BY <3>1, <4>7
      <4>9. b + 1 > b /\ b + 1 >= b BY <3>1
      <4>10. (\E a \in Instruction : <<w, a>> \in capture'.struck) BY <4>3
      <4> QED
        BY <2>2, <2>6, <3>1, <4>2, <4>3, <4>5, <4>6, <4>8, <4>9, <4>10
        DEF TriggerRight, w, b, StruckIn, StruckLast
    <3>8. CASE w \notin Struck(hit)
      <4>1. triggers'[w] = triggers[w] BY <3>1, <3>5, <3>8
      <4>2. \A a \in Instruction : <<w, a>> \notin capture.struck BY <3>2 DEF StruckIn
      <4>3. \A a \in Instruction : <<w, a>> \notin capture'.struck BY <2>2, <3>8, <4>2
      <4> QED BY <2>2, <2>6, <3>1, <3>2, <4>1, <4>3
        DEF TriggerRight, w, b, StruckIn, StruckLast
    <3> QED BY <3>7, <3>8
  <2> QED BY <2>4, <2>6, <2>7 DEF CaptureInv, ReadBack, DecodedRight, ReportRight
<1> QED BY <1>4, <1>5

LEMMA OthersAct ==
  ASSUME CaptureInv,
         \/ \E a \in Instruction, length \in Lengths : Rewrite(a, length)
         \/ PauseOrResume \/ \E w \in Trigger : RemoveTrigger(w)
  PROVE  CaptureInv'
<1>1. CaptureTypes BY DEF CaptureInv
<1>2. capture = [capture EXCEPT !.intact = capture.intact] /\ capture.intact \in BOOLEAN
  BY <1>1 DEF CaptureTypes
<1>3. ASSUME NEW a \in Instruction, NEW length \in Lengths, Rewrite(a, length) PROVE Unmoved
  <2>1. length \in Nat \ {0} BY TraceCaptureAssumption DEF Lengths
  <2>2. code' \in [Instruction -> Nat \ {0}] BY <1>1, <1>3, <2>1 DEF Rewrite, CaptureTypes
  <2>3. capture' = [capture EXCEPT !.intact = capture.phase = "idle" /\ @]
    BY <1>3 DEF Rewrite
  <2>4. capture'.intact = (capture.phase = "idle" /\ capture.intact) BY <1>1, <2>3 DEF CaptureTypes
  <2>5. capture' = [capture EXCEPT !.intact = capture'.intact] BY <2>3, <2>4
  <2> QED BY <1>1, <1>3, <2>2, <2>4, <2>5 DEF Unmoved, Rewrite, CaptureTypes
<1>4. ASSUME PauseOrResume PROVE Unmoved
  BY <1>1, <1>2, <1>4 DEF Unmoved, PauseOrResume, Toggled, CaptureTypes
<1>5. ASSUME NEW w \in Trigger, RemoveTrigger(w) PROVE Unmoved
  <2>1. triggers' = [triggers EXCEPT ![w].placed = FALSE] BY <1>5 DEF RemoveTrigger
  <2>2. triggers' \in [Trigger -> [placed : BOOLEAN, armed : BOOLEAN, hits : Nat]]
    BY <1>1, <2>1 DEF CaptureTypes
  <2> QED BY <1>1, <1>2, <1>5, <2>2 DEF Unmoved, RemoveTrigger, Toggled, CaptureTypes
<1> QED BY <1>3, <1>4, <1>5, UnmovedKeeps

LEMMA CapturesOpen ==
  ASSUME CaptureInv, NEW kind \in {"trace", "coverage", "watchpoint"}, NEW filter, NEW w,
         kind = "watchpoint" => w \in Trigger /\ triggers[w].placed /\ filter = Whole,
         BeginCapture(kind, filter, w)
  PROVE  CaptureInv'
<1> DEFINE phase == IF kind = "watchpoint" THEN "warming" ELSE "window"
           baseline == [x \in Trigger |-> triggers[x].hits]
<1>1. CaptureTypes BY DEF CaptureInv
<1>2. capture' = [NoTrace EXCEPT
                   !.kind = kind, !.filter = filter, !.trigger = w, !.wasRunning = rolling,
                   !.baseline = [x \in Trigger |-> triggers[x].hits], !.phase = phase]
      /\ rolling' = (rolling \/ kind # "trace")
      /\ triggers' = (IF kind = "watchpoint" THEN [triggers EXCEPT ![w].armed = FALSE] ELSE triggers)
      /\ UNCHANGED <<code, pc, log, report>>
  BY DEF BeginCapture
<1>3. capture' = [kind |-> kind, phase |-> phase, filter |-> filter, trigger |-> w,
                  wasRunning |-> rolling, baseline |-> baseline, text |-> <<>>, fired |-> {},
                  left |-> {}, lengths |-> [a \in Instruction |-> 0], intact |-> TRUE,
                  pc |-> 0, found |-> FALSE, struck |-> {}]
  BY <1>2 DEF NoTrace
<1> HIDE DEF phase, baseline
<1>4. phase \in {"warming", "window"} /\ (phase = "warming" <=> kind = "watchpoint") BY DEF phase
<1>5. /\ capture'.kind = kind /\ capture'.phase = phase /\ capture'.filter = filter
      /\ capture'.trigger = w /\ capture'.baseline = baseline /\ capture'.struck = {}
      /\ capture' = [kind |-> capture'.kind, phase |-> capture'.phase, filter |-> capture'.filter,
                trigger |-> capture'.trigger, wasRunning |-> capture'.wasRunning,
                baseline |-> capture'.baseline, text |-> capture'.text, fired |-> capture'.fired,
                left |-> capture'.left, lengths |-> capture'.lengths, intact |-> capture'.intact,
                pc |-> capture'.pc, found |-> capture'.found, struck |-> capture'.struck]
      /\ capture'.left = {} /\ capture'.lengths = [a \in Instruction |-> 0]
      /\ capture'.intact = TRUE /\ capture'.wasRunning = rolling
  BY <1>3
<1>6. triggers' \in [Trigger -> [placed : BOOLEAN, armed : BOOLEAN, hits : Nat]]
  BY <1>1, <1>2 DEF CaptureTypes
<1>7. rolling \in BOOLEAN /\ rolling' \in BOOLEAN BY <1>1, <1>2 DEF CaptureTypes
<1>8. CaptureTypes'
  <2>1. code' \in [Instruction -> Nat \ {0}] /\ pc' \in Instruction /\ log' \in Seq(Instruction)
    BY <1>1, <1>2 DEF CaptureTypes
  <2>2. capture'.lengths \in [Instruction -> Nat] BY <1>5
  <2>3. capture'.kind \in {"none", "trace", "coverage", "watchpoint"}
        /\ capture'.phase \in {"idle", "warming", "window"} \cup After
    BY <1>4, <1>5
  <2>4. capture'.intact \in BOOLEAN /\ capture'.wasRunning \in BOOLEAN
        /\ capture'.left \subseteq Instruction
    BY <1>5, <1>7
  <2> QED BY <1>5, <1>6, <1>7, <2>1, <2>2, <2>3, <2>4 DEF CaptureTypes
<1>9. capture'.phase \notin After /\ capture'.phase \notin PastDecoding
        /\ capture'.phase \notin {"pc", "details", "hits", "done"}
  BY <1>4, <1>5 DEF After, PastDecoding
<1>10. TriggerRight'
  <2> SUFFICES ASSUME kind = "watchpoint" PROVE TriggerRight' BY <1>5 DEF TriggerRight
  <2>1. w \in Trigger /\ triggers[w].placed /\ filter = Whole OBVIOUS
  <2>2. triggers[w] \in [placed : BOOLEAN, armed : BOOLEAN, hits : Nat] BY <1>1, <2>1 DEF CaptureTypes
  <2>3. triggers'[w].placed /\ ~ triggers'[w].armed /\ triggers'[w].hits = triggers[w].hits
    BY <1>1, <1>2, <2>1, <2>2 DEF CaptureTypes
  <2>4. baseline[w] = triggers[w].hits /\ triggers[w].hits \in Nat BY <2>1, <2>2 DEF baseline
  <2>5. ~ (triggers'[w].hits > baseline[w]) /\ triggers'[w].hits >= baseline[w] BY <2>3, <2>4
  <2>6. \A a \in Instruction : <<w, a>> \notin capture'.struck BY <1>5
  <2>7. capture'.phase = "warming" BY <1>4, <1>5
  <2> QED BY <1>5, <1>9, <2>1, <2>3, <2>4, <2>5, <2>6, <2>7 DEF TriggerRight, StruckIn, StruckLast
<1> QED BY <1>8, <1>9, <1>10 DEF CaptureInv, ReadBack, DecodedRight, ReportRight

LEMMA Rearms ==
  ASSUME CaptureInv, Rearm
  PROVE  CaptureInv'
<1>1. CaptureTypes BY DEF CaptureInv
<1>2. /\ capture.phase = "warming" /\ capture' = [capture EXCEPT !.phase = "window"]
      /\ triggers' = [triggers EXCEPT ![capture.trigger].armed = TRUE] /\ rolling' = TRUE
      /\ UNCHANGED <<code, pc, log, report>>
  BY DEF Rearm
<1>3. /\ capture'.kind = capture.kind /\ capture'.phase = "window"
      /\ capture'.filter = capture.filter /\ capture'.trigger = capture.trigger
      /\ capture'.baseline = capture.baseline /\ capture'.struck = capture.struck
      /\ capture' = [kind |-> capture.kind, phase |-> "window", filter |-> capture.filter,
                trigger |-> capture.trigger, wasRunning |-> capture.wasRunning,
                baseline |-> capture.baseline, text |-> capture.text, fired |-> capture.fired,
                left |-> capture.left, lengths |-> capture.lengths, intact |-> capture.intact,
                pc |-> capture.pc, found |-> capture.found, struck |-> capture.struck]
  BY <1>1, <1>2 DEF CaptureTypes
<1>4. triggers' \in [Trigger -> [placed : BOOLEAN, armed : BOOLEAN, hits : Nat]]
  BY <1>1, <1>2 DEF CaptureTypes
<1>5. CaptureTypes' BY <1>1, <1>2, <1>3, <1>4 DEF CaptureTypes
<1>6. capture'.phase \notin After /\ capture'.phase \notin PastDecoding
        /\ capture'.phase \notin {"pc", "details", "hits", "done"}
  BY <1>3 DEF After, PastDecoding
<1>7. TriggerRight'
  <2> SUFFICES ASSUME capture.kind = "watchpoint" PROVE TriggerRight' BY <1>3 DEF TriggerRight
  <2> DEFINE w == capture.trigger
  <2>1. /\ w \in Trigger /\ capture.filter = Whole /\ capture.baseline[w] \in Nat
        /\ triggers[w].placed /\ triggers[w].hits >= capture.baseline[w]
        /\ StruckIn(w) <=> triggers[w].hits > capture.baseline[w]
        /\ ~ StruckIn(w)
    BY <1>2 DEF CaptureInv, TriggerRight
  <2>2. triggers[w] \in [placed : BOOLEAN, armed : BOOLEAN, hits : Nat] BY <1>1, <2>1 DEF CaptureTypes
  <2>3. triggers'[w].placed /\ triggers'[w].hits = triggers[w].hits
    BY <1>1, <1>2, <2>1, <2>2 DEF CaptureTypes
  <2>4. \A a \in Instruction : <<w, a>> \notin capture'.struck BY <1>3, <2>1 DEF StruckIn
  <2> QED BY <1>3, <1>6, <2>1, <2>3, <2>4 DEF TriggerRight, StruckIn, StruckLast
<1> QED BY <1>5, <1>6, <1>7 DEF CaptureInv, ReadBack, DecodedRight, ReportRight

LEMMA WindowsClose ==
  ASSUME CaptureInv, CloseWindow
  PROVE  CaptureInv'
<1>1. CaptureTypes BY DEF CaptureInv
<1> DEFINE left == ToSet(Filtered(Recent, capture.filter))
<1>2. /\ capture.phase = "window" /\ rolling' = capture.wasRunning
      /\ capture' = [capture EXCEPT !.phase = "decoding", !.text = Recent, !.fired = Fired,
                                    !.left = left]
      /\ UNCHANGED <<code, pc, triggers, log, report>>
  BY DEF CloseWindow
<1> HIDE DEF left
<1>3. /\ capture'.kind = capture.kind /\ capture'.phase = "decoding"
      /\ capture'.filter = capture.filter /\ capture'.trigger = capture.trigger
      /\ capture'.baseline = capture.baseline /\ capture'.struck = capture.struck
      /\ capture'.text = Recent /\ capture'.fired = Fired /\ capture'.left = left
      /\ capture' = [kind |-> capture.kind, phase |-> "decoding", filter |-> capture.filter,
                trigger |-> capture.trigger, wasRunning |-> capture.wasRunning,
                baseline |-> capture.baseline, text |-> Recent, fired |-> Fired,
                left |-> left, lengths |-> capture.lengths, intact |-> capture.intact,
                pc |-> capture.pc, found |-> capture.found, struck |-> capture.struck]
  BY <1>1, <1>2 DEF CaptureTypes
<1>4. left \subseteq Instruction
  <2>1. log \in Seq(Instruction) BY <1>1 DEF CaptureTypes
  <2> DEFINE listed == Filtered(Recent, capture.filter)
  <2>2. PICK g : Echoed(listed, g) BY <2>1, LinesAreShown
  <2> HIDE DEF listed
  <2>3. listed \in Seq(Instruction) BY <2>2 DEF Echoed
  <2>4. \A i \in DOMAIN listed : listed[i] \in Instruction BY <2>3, LenProperties, ElementOfSeq
  <2> QED BY <2>4 DEF ToSet, left, listed
<1>5. CaptureTypes' BY <1>1, <1>2, <1>3, <1>4 DEF CaptureTypes, After
<1>6. ReadBack' BY <1>2, <1>3 DEF ReadBack, Recent
<1>7. DecodedRight' BY <1>3 DEF DecodedRight, left, PastDecoding
<1>8. ReportRight' BY <1>3 DEF ReportRight
<1>9. TriggerRight'
  <2> SUFFICES ASSUME capture.kind = "watchpoint" PROVE TriggerRight' BY <1>3 DEF TriggerRight
  <2> DEFINE w == capture.trigger
  <2>1. /\ w \in Trigger /\ capture.filter = Whole /\ capture.baseline[w] \in Nat /\ StruckLast(w)
        /\ triggers[w].placed /\ triggers[w].hits >= capture.baseline[w]
        /\ StruckIn(w) <=> triggers[w].hits > capture.baseline[w]
    BY <1>2 DEF CaptureInv, TriggerRight
  <2>2. w \in Fired <=> StruckIn(w) BY <2>1 DEF Fired
  <2> QED BY <1>2, <1>3, <2>1, <2>2 DEF TriggerRight, StruckIn, StruckLast
<1> QED BY <1>5, <1>6, <1>7, <1>8, <1>9 DEF CaptureInv

\* A step after the window leaves what the window read alone.
Advancing(phase, left, lengths, intact) ==
  /\ capture.phase \in After /\ phase \in After
  /\ left \subseteq Instruction /\ lengths \in [Instruction -> Nat] /\ intact \in BOOLEAN
  /\ capture' = [kind |-> capture.kind, phase |-> phase, filter |-> capture.filter,
                trigger |-> capture.trigger, wasRunning |-> capture.wasRunning,
                baseline |-> capture.baseline, text |-> capture.text, fired |-> capture.fired,
                left |-> left, lengths |-> lengths, intact |-> intact,
                pc |-> capture'.pc, found |-> capture'.found, struck |-> capture.struck]
  /\ UNCHANGED <<code, pc, rolling, triggers, log>>

LEMMA AdvancingKeeps ==
  ASSUME CaptureInv, NEW phase, NEW left, NEW lengths, NEW intact,
         Advancing(phase, left, lengths, intact)
  PROVE  /\ CaptureTypes' /\ ReadBack' /\ TriggerRight'
         /\ capture'.kind = capture.kind /\ capture'.phase = phase
         /\ capture'.filter = capture.filter /\ capture'.trigger = capture.trigger
         /\ capture'.text = capture.text /\ capture'.fired = capture.fired
         /\ capture'.left = left /\ capture'.lengths = lengths /\ capture'.intact = intact
         /\ UNCHANGED <<code, pc, rolling, triggers, log>>
<1>1. /\ CaptureTypes /\ capture.phase \in After /\ phase \in After
      /\ left \subseteq Instruction /\ lengths \in [Instruction -> Nat] /\ intact \in BOOLEAN
      /\ UNCHANGED <<code, pc, rolling, triggers, log>>
  BY DEF CaptureInv, Advancing
<1>2. capture' = [kind |-> capture.kind, phase |-> phase, filter |-> capture.filter,
                trigger |-> capture.trigger, wasRunning |-> capture.wasRunning,
                baseline |-> capture.baseline, text |-> capture.text, fired |-> capture.fired,
                left |-> left, lengths |-> lengths, intact |-> intact,
                pc |-> capture'.pc, found |-> capture'.found, struck |-> capture.struck]
  BY DEF Advancing
<1>3. /\ capture'.kind = capture.kind /\ capture'.phase = phase
      /\ capture'.filter = capture.filter /\ capture'.trigger = capture.trigger
      /\ capture'.text = capture.text /\ capture'.fired = capture.fired
      /\ capture'.left = left /\ capture'.lengths = lengths /\ capture'.intact = intact
      /\ capture'.baseline = capture.baseline /\ capture'.struck = capture.struck
      /\ capture'.wasRunning = capture.wasRunning
  BY <1>2
<1>4. CaptureTypes' BY <1>1, <1>2, <1>3 DEF CaptureTypes
<1>5. ReadBack' BY <1>1, <1>3 DEF CaptureInv, ReadBack, Recent
<1>6. TriggerRight'
  BY <1>1, <1>3 DEF CaptureInv, TriggerRight, StruckIn, StruckLast, After, PastDecoding
<1> QED BY <1>1, <1>3, <1>4, <1>5, <1>6

LEMMA LinesAreInstructions ==
  ASSUME CaptureInv, capture.phase \in After
  PROVE  \A a \in ToSet(Filtered(capture.text, capture.filter)) : a \in Instruction
<1>1. log \in Seq(Instruction) BY DEF CaptureInv, CaptureTypes
<1>2. capture.text = Recent BY DEF CaptureInv, ReadBack
<1> DEFINE list == Filtered(Recent, capture.filter)
<1>3. PICK g : Echoed(list, g) BY <1>1, LinesAreShown
<1> HIDE DEF list
<1>4. \A i \in DOMAIN list : list[i] \in Instruction BY <1>3, ElementOfSeq DEF Echoed
<1>5. \A a \in ToSet(list) : a \in Instruction BY <1>4 DEF ToSet
<1> QED BY <1>2, <1>5 DEF list

LEMMA LengthsFetched ==
  ASSUME CaptureInv, NEW ok \in BOOLEAN, fetchInstructionLengths(ok)
  PROVE  CaptureInv'
<1> DEFINE first == Min(capture.left)
           listed == Swept(first, Min({Cardinality(capture.left), SweepLimit}))
           served == IF ok THEN Taken(capture.left, listed) ELSE {first}
           length(a) == IF ok /\ a \in listed THEN code[a] ELSE MinLength
           left == capture.left \ served
           lengths == [a \in Instruction |-> IF a \in served THEN length(a) ELSE capture.lengths[a]]
           intact == capture.intact /\ ok
<1>1. CaptureTypes BY DEF CaptureInv
<1>2. /\ capture.phase = "decoding" /\ capture.kind = "coverage"
      /\ capture' = [capture EXCEPT !.left = @ \ served, !.intact = @ /\ ok,
                      !.lengths = [a \in Instruction |-> IF a \in served THEN length(a) ELSE @[a]]]
      /\ UNCHANGED <<code, pc, rolling, triggers, log, report>>
  BY DEF fetchInstructionLengths, captureMachine
<1> HIDE DEF served, listed
<1>3. lengths \in [Instruction -> Nat]
  BY <1>1, TraceCaptureAssumption DEF CaptureTypes
<1>4. left \subseteq Instruction /\ intact \in BOOLEAN BY <1>1 DEF CaptureTypes
<1>5. capture' = [capture EXCEPT !.left = left, !.intact = intact, !.lengths = lengths]
  BY <1>1, <1>2 DEF CaptureTypes
<1>6. ASSUME intact, NEW a \in Instruction, a \notin left
      PROVE  IF a \in capture.left THEN lengths[a] = code[a] ELSE lengths[a] = capture.lengths[a]
  <2>1. ok /\ served = Taken(capture.left, listed) BY <1>6 DEF served
  <2>2. \A b \in served : b \in capture.left /\ b \in listed
    <3>1. \A b \in capture.left : b <= b
      BY <1>1, TraceCaptureAssumption DEF CaptureTypes, Instruction
    <3> QED BY <2>1, <3>1 DEF Taken
  <2>3. CASE a \in capture.left
    <3>1. a \in served /\ a \in listed BY <1>6, <2>2, <2>3
    <3> QED BY <2>1, <2>3, <3>1
  <2>4. CASE a \notin capture.left
    <3>1. a \notin served BY <2>2, <2>4
    <3> QED BY <2>4, <3>1
  <2> QED BY <2>3, <2>4
<1>7. intact => capture.intact OBVIOUS
<1> HIDE DEF left, lengths, intact
<1>8. Advancing("decoding", left, lengths, intact)
  BY <1>1, <1>2, <1>3, <1>4, <1>5 DEF Advancing, CaptureTypes, After
<1>9. /\ CaptureTypes' /\ ReadBack' /\ TriggerRight' /\ capture'.kind = "coverage"
      /\ capture'.phase = "decoding" /\ capture'.text = capture.text /\ capture'.filter = capture.filter
      /\ capture'.left = left /\ capture'.lengths = lengths /\ capture'.intact = intact
      /\ code' = code
  BY <1>2, <1>8, AdvancingKeeps
<1>10. DecodedRight'
  <2> SUFFICES ASSUME intact, NEW a \in ToSet(Filtered(capture.text, capture.filter))
               PROVE  a \in left \/ lengths[a] = code[a]
    BY <1>9 DEF DecodedRight, PastDecoding
  <2>1. a \in capture.left \/ capture.lengths[a] = code[a]
    BY <1>2, <1>7 DEF CaptureInv, DecodedRight, After
  <2>2. a \in Instruction BY <1>2, LinesAreInstructions DEF After
  <2> QED BY <1>6, <2>1, <2>2
<1> QED BY <1>9, <1>10 DEF CaptureInv, ReportRight

LEMMA InfoFetched ==
  ASSUME CaptureInv, NEW ok \in BOOLEAN, fetchInstructionInfo(ok)
  PROVE  CaptureInv'
<1> DEFINE text == capture.text
           next == text[Min({i \in DOMAIN text : text[i] \in capture.left})]
           left == capture.left \ {next}
           lengths == [capture.lengths EXCEPT ![next] = IF ok THEN code[next] ELSE 0]
           intact == capture.intact /\ ok
<1>1. CaptureTypes BY DEF CaptureInv
<1>2. /\ capture.phase = "decoding" /\ capture.kind # "coverage"
      /\ capture' = [capture EXCEPT !.left = @ \ {next}, !.intact = @ /\ ok,
                                   !.lengths = [@ EXCEPT ![next] = IF ok THEN code[next] ELSE 0]]
      /\ UNCHANGED <<code, pc, rolling, triggers, log, report>>
  BY DEF fetchInstructionInfo, captureMachine
<1> HIDE DEF next
<1>3. lengths \in [Instruction -> Nat] BY <1>1 DEF CaptureTypes
<1>4. left \subseteq Instruction /\ intact \in BOOLEAN BY <1>1 DEF CaptureTypes
<1>5. capture' = [capture EXCEPT !.left = left, !.intact = intact, !.lengths = lengths]
  BY <1>1, <1>2 DEF CaptureTypes
<1>6. \A a \in Instruction : a # next => lengths[a] = capture.lengths[a]
  BY <1>1 DEF CaptureTypes
<1>7. ok /\ next \in Instruction => lengths[next] = code[next] BY <1>1 DEF CaptureTypes
<1>8. \A a : a \in left <=> a \in capture.left /\ a # next OBVIOUS
<1>9. intact => ok /\ capture.intact OBVIOUS
<1> HIDE DEF left, lengths, intact
<1>10. Advancing("decoding", left, lengths, intact)
  BY <1>1, <1>2, <1>3, <1>4, <1>5 DEF Advancing, CaptureTypes, After
<1>11. /\ CaptureTypes' /\ ReadBack' /\ TriggerRight' /\ capture'.kind = capture.kind
       /\ capture'.phase = "decoding" /\ capture'.text = text /\ capture'.filter = capture.filter
       /\ capture'.left = left /\ capture'.lengths = lengths /\ capture'.intact = intact
       /\ code' = code
  BY <1>2, <1>10, AdvancingKeeps
<1>12. DecodedRight'
  <2> SUFFICES ASSUME intact, NEW a \in ToSet(Filtered(text, capture.filter))
               PROVE  a \in left \/ lengths[a] = code[a]
    BY <1>2, <1>11 DEF DecodedRight, PastDecoding
  <2>1. a \in capture.left \/ capture.lengths[a] = code[a]
    BY <1>2, <1>9 DEF CaptureInv, DecodedRight, After
  <2>2. a \in Instruction BY <1>2, LinesAreInstructions DEF After
  <2>3. CASE a = next BY <1>7, <1>9, <2>2, <2>3
  <2>4. CASE a # next BY <1>6, <1>8, <2>1, <2>2, <2>4
  <2> QED BY <2>3, <2>4
<1> QED BY <1>11, <1>12 DEF CaptureInv, ReportRight

LEMMA CoverageComposed ==
  ASSUME CaptureInv, ComposeCoverage
  PROVE  CaptureInv'
<1>1. CaptureTypes BY DEF CaptureInv
<1>2. /\ capture.phase = "decoding" /\ capture.left = {} /\ capture.kind = "coverage"
      /\ report' = Coverage /\ capture' = [capture EXCEPT !.phase = "done"]
      /\ UNCHANGED <<code, pc, rolling, triggers, log>>
  BY DEF ComposeCoverage, Compose, captureMachine
<1>3. Advancing("done", capture.left, capture.lengths, capture.intact)
  BY <1>1, <1>2 DEF Advancing, CaptureTypes, After, PastDecoding
<1>4. /\ CaptureTypes' /\ ReadBack' /\ TriggerRight' /\ capture'.kind = capture.kind
      /\ capture'.phase = "done" /\ capture'.text = capture.text /\ capture'.filter = capture.filter
      /\ capture'.left = capture.left /\ capture'.lengths = capture.lengths
      /\ capture'.intact = capture.intact /\ code' = code
  BY <1>2, <1>3, AdvancingKeeps
<1>5. Coverage' = Coverage BY <1>4 DEF Coverage, FallThrough
<1>6. ReportRight' BY <1>2, <1>4, <1>5 DEF ReportRight
<1>7. DecodedRight' BY <1>2, <1>4 DEF CaptureInv, DecodedRight, After, PastDecoding
<1> QED BY <1>4, <1>6, <1>7 DEF CaptureInv

LEMMA TraceComposed ==
  ASSUME CaptureInv, ComposeTrace
  PROVE  CaptureInv'
<1> DEFINE table == Rows(capture.text, capture.filter, capture.lengths)
           next == IF capture.trigger \in capture.fired THEN "pc" ELSE "done"
<1>1. CaptureTypes BY DEF CaptureInv
<1>2. /\ capture.phase = "decoding" /\ capture.left = {} /\ capture.kind \in {"trace", "watchpoint"}
      /\ report' = [NoReport EXCEPT !.rows = table] /\ capture' = [capture EXCEPT !.phase = next]
      /\ UNCHANGED <<code, pc, rolling, triggers, log>>
  BY DEF ComposeTrace, Compose, captureMachine
<1>3. report'.rows = table /\ report'.event = {} BY <1>2 DEF NoReport
<1> HIDE DEF table
<1>4. Advancing(next, capture.left, capture.lengths, capture.intact)
  BY <1>1, <1>2 DEF Advancing, CaptureTypes, After, PastDecoding
<1>5. /\ CaptureTypes' /\ ReadBack' /\ TriggerRight' /\ capture'.kind = capture.kind
      /\ capture'.phase = next /\ capture'.text = capture.text /\ capture'.filter = capture.filter
      /\ capture'.left = capture.left /\ capture'.lengths = capture.lengths
      /\ capture'.intact = capture.intact /\ code' = code
      /\ capture'.trigger = capture.trigger /\ capture'.fired = capture.fired
  BY <1>4, AdvancingKeeps
<1>6. ReportRight' BY <1>2, <1>3, <1>5 DEF ReportRight, table
<1>7. DecodedRight' BY <1>2, <1>5 DEF CaptureInv, DecodedRight, After
<1> QED BY <1>5, <1>6, <1>7 DEF CaptureInv

LEMMA EventsFetched ==
  ASSUME CaptureInv, NEW ok \in BOOLEAN, fetchCPUCurrentPC(ok) \/ fetchWatchpointInfo(ok)
  PROVE  CaptureInv'
<1> DEFINE next == IF capture.phase = "pc" THEN "details" ELSE "hits"
<1>1. CaptureTypes BY DEF CaptureInv
<1>2. /\ capture.phase \in {"pc", "details"} /\ UNCHANGED <<code, pc, rolling, triggers, log, report>>
      /\ \E at, found : capture' = [capture EXCEPT !.phase = next, !.pc = at, !.found = found]
  <2>1. CASE fetchCPUCurrentPC(ok)
    <3>1. capture.phase = "pc" /\ capture' = [capture EXCEPT !.phase = "details", !.pc = IF ok THEN pc ELSE 0]
          /\ UNCHANGED <<code, pc, rolling, triggers, log, report>>
      BY <2>1 DEF fetchCPUCurrentPC, captureMachine
    <3>2. capture' = [capture EXCEPT !.phase = next, !.pc = IF ok THEN pc ELSE 0, !.found = capture.found]
      BY <1>1, <3>1 DEF CaptureTypes
    <3> QED BY <3>1, <3>2
  <2>2. CASE fetchWatchpointInfo(ok)
    <3> DEFINE f == ok /\ triggers[capture.trigger].placed
    <3>1. capture.phase = "details" /\ capture' = [capture EXCEPT !.phase = "hits", !.found = f]
          /\ UNCHANGED <<code, pc, rolling, triggers, log, report>>
      BY <2>2 DEF fetchWatchpointInfo, captureMachine
    <3> HIDE DEF f
    <3>2. capture' = [capture EXCEPT !.phase = next, !.pc = capture.pc, !.found = f]
      BY <1>1, <3>1 DEF CaptureTypes
    <3> QED BY <3>1, <3>2
  <2> QED BY <2>1, <2>2
<1>3. next \in {"details", "hits"} BY DEF next
<1> HIDE DEF next
<1>4. Advancing(next, capture.left, capture.lengths, capture.intact)
  <2>1. PICK at, found : capture' = [capture EXCEPT !.phase = next, !.pc = at, !.found = found]
    BY <1>2
  <2> QED BY <1>1, <1>2, <1>3, <2>1 DEF Advancing, CaptureTypes, After, PastDecoding
<1>5. /\ CaptureTypes' /\ ReadBack' /\ TriggerRight' /\ capture'.kind = capture.kind
      /\ capture'.phase = next /\ capture'.text = capture.text /\ capture'.filter = capture.filter
      /\ capture'.left = capture.left /\ capture'.lengths = capture.lengths
      /\ capture'.intact = capture.intact /\ code' = code
      /\ capture'.trigger = capture.trigger /\ capture'.fired = capture.fired
  BY <1>4, AdvancingKeeps
<1>6. ReportRight' BY <1>2, <1>3, <1>5 DEF CaptureInv, ReportRight
<1>7. DecodedRight' BY <1>2, <1>3, <1>5 DEF CaptureInv, DecodedRight, After, PastDecoding
<1> QED BY <1>5, <1>6, <1>7 DEF CaptureInv

LEMMA EventsPushed ==
  ASSUME CaptureInv, NEW ok \in BOOLEAN, PushEvent(ok)
  PROVE  CaptureInv'
<1>1. CaptureTypes BY DEF CaptureInv
<1>2. /\ capture.phase = "hits" /\ UNCHANGED <<code, pc, rolling, triggers, log>>
      /\ report' = [report EXCEPT !.event = {DebugEvent(ok)}]
      /\ capture' = [capture EXCEPT !.phase = "done"]
  BY DEF PushEvent, captureMachine
<1>3. Advancing("done", capture.left, capture.lengths, capture.intact)
  BY <1>1, <1>2 DEF Advancing, CaptureTypes, After, PastDecoding
<1>4. /\ CaptureTypes' /\ ReadBack' /\ TriggerRight' /\ capture'.kind = capture.kind
      /\ capture'.phase = "done" /\ capture'.text = capture.text /\ capture'.filter = capture.filter
      /\ capture'.left = capture.left /\ capture'.lengths = capture.lengths
      /\ capture'.intact = capture.intact /\ code' = code
      /\ capture'.trigger = capture.trigger /\ capture'.fired = capture.fired
  BY <1>3, AdvancingKeeps
<1>5. capture.kind # "coverage" /\ capture.trigger \in capture.fired
      /\ report = [NoReport EXCEPT !.rows = Rows(capture.text, capture.filter, capture.lengths)]
  BY <1>2 DEF CaptureInv, ReportRight
<1>6. report'.rows = Rows(capture.text, capture.filter, capture.lengths) /\ report'.event # {}
  BY <1>2, <1>5 DEF NoReport
<1>7. ReportRight' BY <1>4, <1>5, <1>6 DEF ReportRight
<1>8. DecodedRight' BY <1>2, <1>4 DEF CaptureInv, DecodedRight, After, PastDecoding
<1> QED BY <1>4, <1>7, <1>8 DEF CaptureInv

LEMMA CaptureSteps == CaptureInv /\ [TraceCaptureNext]_captureVars => CaptureInv'
<1> SUFFICES ASSUME CaptureInv, [TraceCaptureNext]_captureVars PROVE CaptureInv' OBVIOUS
<1>1. CASE \E next \in Instruction, hit \in {{}} \cup {{w} : w \in Trigger} : Retire(next, hit)
  BY <1>1, Retires
<1>2. CASE \E a \in Instruction, length \in Lengths : Rewrite(a, length) BY <1>2, OthersAct
<1>3. CASE PauseOrResume BY <1>3, OthersAct
<1>4. CASE \E w \in Trigger : RemoveTrigger(w) BY <1>4, OthersAct
<1>5. ASSUME NEW filter \in CaptureFilters, BeginTrace(filter) PROVE CaptureInv'
  <2>1. BeginCapture("trace", filter, "none") BY <1>5 DEF BeginTrace
  <2> QED BY <2>1, CapturesOpen
<1>6. ASSUME NEW filter \in CaptureFilters, BeginCoverage(filter) PROVE CaptureInv'
  <2>1. BeginCapture("coverage", filter, "none") BY <1>6 DEF BeginCoverage
  <2> QED BY <2>1, CapturesOpen
<1>7. ASSUME NEW w \in Trigger, BeginWatchpoint(w) PROVE CaptureInv'
  <2>1. triggers[w].placed /\ BeginCapture("watchpoint", Whole, w) BY <1>7 DEF BeginWatchpoint
  <2> QED BY <2>1, CapturesOpen
<1>8. CASE Rearm BY <1>8, Rearms
<1>9. CASE CloseWindow BY <1>9, WindowsClose
<1>10. CASE ComposeCoverage BY <1>10, CoverageComposed
<1>11. CASE ComposeTrace BY <1>11, TraceComposed
<1>12. CASE \E ok \in BOOLEAN : fetchInstructionLengths(ok) BY <1>12, LengthsFetched
<1>13. CASE \E ok \in BOOLEAN : fetchInstructionInfo(ok) BY <1>13, InfoFetched
<1>14. CASE \E ok \in BOOLEAN : fetchCPUCurrentPC(ok) \/ fetchWatchpointInfo(ok)
  BY <1>14, EventsFetched
<1>15. CASE \E ok \in BOOLEAN : PushEvent(ok) BY <1>15, EventsPushed
<1>16. CASE UNCHANGED captureVars
  <2>1. /\ capture = [capture EXCEPT !.intact = capture.intact] /\ capture.intact \in BOOLEAN
        /\ pc \in Instruction /\ rolling \in BOOLEAN
        /\ triggers \in [Trigger -> [placed : BOOLEAN, armed : BOOLEAN, hits : Nat]]
    BY DEF CaptureInv, CaptureTypes
  <2>2. Unmoved BY <1>16, <2>1 DEF Unmoved, captureVars
  <2> QED BY <2>2, UnmovedKeeps
<1> QED
  BY <1>1, <1>2, <1>3, <1>4, <1>5, <1>6, <1>7, <1>8, <1>9, <1>10, <1>11, <1>12, <1>13, <1>14,
     <1>15, <1>16 DEF TraceCaptureNext

LEMMA ShownFacts ==
  ASSUME log \in Seq(Instruction)
  PROVE  /\ Len(log) \in Nat /\ IsFiniteSet(Shown) /\ Shown \subseteq Int
         /\ \A i \in Shown : i \in 1 .. Len(log) /\ log[i] \in Instruction
<1>1. Len(log) \in Nat /\ DOMAIN log = 1 .. Len(log) /\ \A i \in 1 .. Len(log) : log[i] \in Instruction
  BY LenProperties, ElementOfSeq
<1>2. Shown \subseteq 1 .. Len(log) BY <1>1 DEF Shown
<1>3. IsFiniteSet(1 .. Len(log)) BY <1>1, FS_Interval
<1>4. IsFiniteSet(Shown) BY <1>2, <1>3, FS_Subset
<1>5. Shown \subseteq Int BY <1>1, <1>2
<1>6. \A i \in Shown : i \in 1 .. Len(log) /\ log[i] \in Instruction BY <1>1, <1>2
<1> QED BY <1>1, <1>4, <1>5, <1>6

LEMMA RowsAreFaithful ==
  ASSUME CaptureInv
  PROVE  RowsFaithful
<1> SUFFICES ASSUME capture.phase = "done", capture.kind # "coverage" PROVE RowsFaithful
  BY DEF RowsFaithful
<1> DEFINE table == report.rows
           first(i) == \A j \in Shown : j < i => log[j] # log[i]
           chosen == Ascend({i \in Shown : capture.filter.repeated \/ first(i)})
<1>1. log \in Seq(Instruction) BY DEF CaptureInv, CaptureTypes
<1>2. capture.text = Recent BY DEF CaptureInv, ReadBack, After, PastDecoding
<1>3. Tabled(table, capture.lengths)
  <2>1. table = Rows(Recent, capture.filter, capture.lengths) BY <1>2 DEF CaptureInv, ReportRight
  <2>2. Tabled(Rows(Recent, capture.filter, capture.lengths), capture.lengths) BY <1>1, RowsAre
  <2> QED BY <2>1, <2>2
<1>4. chosen = Ascend(Chosen) BY DEF Chosen, First
<1>5. IsFiniteSet(Chosen) /\ Chosen \subseteq Int
  <2>1. Chosen \subseteq Shown BY DEF Chosen
  <2> QED BY <1>1, <2>1, ShownFacts, FS_Subset
<1>6. DOMAIN Ascend(Chosen) = 1 .. Cardinality(Chosen) BY <1>5, AscendFacts, LenProperties
<1> HIDE DEF table
<1>7. DOMAIN table = 1 .. Cardinality(Chosen) BY <1>3, LenProperties DEF Tabled
<1>8. \A n \in 1 .. Cardinality(Chosen) :
        /\ table[n].pc = log[Ascend(Chosen)[n]] /\ table[n].length = capture.lengths[table[n].pc]
        /\ table[n].pc \in ToSet(Filtered(capture.text, capture.filter))
  BY <1>2, <1>3 DEF Tabled
<1>9. [n \in DOMAIN table |-> table[n].pc] = [n \in DOMAIN chosen |-> log[chosen[n]]]
  BY <1>4, <1>6, <1>7, <1>8
<1>10. capture.intact => \A n \in DOMAIN table : table[n].length = code[table[n].pc]
  <2> SUFFICES ASSUME capture.intact, NEW n \in 1 .. Cardinality(Chosen)
               PROVE  table[n].length = code[table[n].pc]
    BY <1>7
  <2>1. \A a \in ToSet(Filtered(capture.text, capture.filter)) : capture.lengths[a] = code[a]
    BY DEF CaptureInv, DecodedRight, After, PastDecoding
  <2> QED BY <1>8, <2>1
<1> QED BY <1>9, <1>10 DEF RowsFaithful, table

LEMMA EventsAreHonest ==
  ASSUME CaptureInv
  PROVE  EventHonest
<1> SUFFICES ASSUME capture.phase = "done", capture.kind = "watchpoint" PROVE EventHonest
  BY DEF EventHonest, Finished
<1> DEFINE table == report.rows
           w == capture.trigger
<1>1. log \in Seq(Instruction) BY DEF CaptureInv, CaptureTypes
<1>2. capture.text = Recent BY DEF CaptureInv, ReadBack, After, PastDecoding
<1>3. report.event # {} <=> StruckIn(w)
  BY DEF CaptureInv, ReportRight, TriggerRight, After, PastDecoding
<1>4. /\ capture.filter = Whole /\ StruckLast(w) BY DEF CaptureInv, TriggerRight
<1>5. Tabled(table, capture.lengths)
  <2>1. table = Rows(Recent, capture.filter, capture.lengths) BY <1>2 DEF CaptureInv, ReportRight
  <2>2. Tabled(Rows(Recent, capture.filter, capture.lengths), capture.lengths) BY <1>1, RowsAre
  <2> QED BY <2>1, <2>2
<1>6. ASSUME StruckIn(w) PROVE <<w, Last(table).pc>> \in capture.struck
  <2> DEFINE n == Len(log)
             m == Cardinality(Shown)
             o == Ascend(Shown)
  <2>1. n \in Nat /\ n > 0 /\ <<w, Last(log)>> \in capture.struck /\ DOMAIN log = 1 .. n
        /\ log[n] \in Instruction
    BY <1>1, <1>4, <1>6, LenProperties, ElementOfSeq DEF StruckLast
  <2>2. Chosen = Shown BY <1>4 DEF Chosen, Whole
  <2>3. n \in Shown
    <3>1. Passes(log[n], Whole)
      <4>1. log[n] \in 0 .. CodeEnd /\ CodeEnd \in Nat BY <2>1, TraceCaptureAssumption DEF Instruction
      <4>2. log[n] >= 0 /\ log[n] < CodeEnd + 1 BY <4>1
      <4> QED BY <4>2 DEF Passes, Whole
    <3>2. n > n - EntryLimit BY <2>1, TraceCaptureAssumption
    <3>3. n \in DOMAIN log BY <2>1
    <3> QED BY <1>4, <3>1, <3>2, <3>3 DEF Shown
  <2>4. \A i \in Shown : i \in 1 .. n BY <1>1, ShownFacts
  <2>5. /\ m \in Nat /\ \A i \in 1 .. m : o[i] \in Shown
        /\ \A i, j \in 1 .. m : i < j => o[i] < o[j]
        /\ \A x \in Shown : \E i \in 1 .. m : o[i] = x
    BY <1>1, ShownFacts, AscendFacts
  <2>6. Len(table) = m /\ \A i \in 1 .. m : table[i].pc = log[o[i]] BY <1>5, <2>2 DEF Tabled
  <2> HIDE DEF n, m, o, table
  <2>7. PICK i \in 1 .. m : o[i] = n BY <2>3, <2>5
  <2>8. m \in 1 .. m /\ (i < m => o[i] < o[m]) /\ o[m] \in 1 .. n BY <2>4, <2>5, <2>7
  <2>9. i = m BY <2>1, <2>5, <2>7, <2>8
  <2>10. Last(table) = table[m] BY <2>6 DEF Last
  <2>11. Last(log) = log[n] BY DEF Last, n
  <2>12. Last(table).pc = Last(log) BY <2>6, <2>7, <2>8, <2>9, <2>10, <2>11
  <2> QED BY <2>1, <2>12
<1> QED BY <1>3, <1>6 DEF EventHonest, StruckIn, Finished

(***************************************************************************)
(* What a trace capture answers is true for every program, every filter    *)
(* and every limit: its rows are the executed instructions that pass, in   *)
(* the order they ran, with the lengths they had, and a watchpoint event   *)
(* is recorded exactly when the requested one fired in the window          *)
(* (tools_cpu.go:884-1020, tools_phase5.go:2202-2257).                     *)
(***************************************************************************)
THEOREM TracesAreFaithful == TraceCaptureSpec => []TraceFaithful
<1>1. CaptureInv => TraceFaithful BY RowsAreFaithful, EventsAreHonest DEF TraceFaithful
<1> QED BY <1>1, CaptureBegins, CaptureSteps, PTL DEF TraceCaptureSpec

----------------------------------------------------------------------------
(***************************************************************************)
(* The coverage captures. The fold that cuts an ascending list of          *)
(* addresses into runs.                                                    *)
(***************************************************************************)
\* What one address does to the runs before it.
Extended(list, a, expected) ==
  IF list # <<>> /\ a = expected[Last(Last(list))]
  THEN [list EXCEPT ![Len(list)] = Append(@, a)] ELSE Append(list, <<a>>)

LEMMA RunsByOne ==
  ASSUME NEW addresses, NEW expected, NEW n \in Nat, DOMAIN addresses = 1 .. n
  PROVE  \E f : /\ f[0] = <<>>
                /\ \A i \in 1 .. n : f[i] = Extended(f[i - 1], addresses[i], expected)
                /\ Runs(addresses, expected) = f[n]
<1> DEFINE Iter(g, k) == g = [x \in SUBSET (1 .. k) |->
                 IF x = {} THEN <<>>
                 ELSE Extended(g[x \ {Max(x)}], addresses[Max(x)], expected)]
           Ex == {k \in Nat : \E g : Iter(g, k)}
<1>1. 0 \in Ex
  <2> DEFINE g == [x \in SUBSET (1 .. 0) |-> <<>>]
  <2>1. \A x \in SUBSET (1 .. 0) : x = {} OBVIOUS
  <2>2. Iter(g, 0) BY <2>1
  <2> QED BY <2>2
<1>2. \A k \in Nat : k \in Ex => k + 1 \in Ex
  <2> SUFFICES ASSUME NEW k \in Nat, NEW g, Iter(g, k) PROVE k + 1 \in Ex
    OBVIOUS
  <2> DEFINE h == [x \in SUBSET (1 .. (k + 1)) |->
                     IF k + 1 \in x THEN Extended(g[x \ {k + 1}], addresses[k + 1], expected)
                     ELSE g[x]]
  <2>1. ASSUME NEW x \in SUBSET (1 .. (k + 1))
        PROVE  h[x] = IF x = {} THEN <<>>
                      ELSE Extended(h[x \ {Max(x)}], addresses[Max(x)], expected)
    <3>1. CASE k + 1 \in x
      <4>1. Max(x) = k + 1
        <5>1. x \subseteq Nat /\ \A y \in x : y <= k + 1 OBVIOUS
        <5>2. Max(x) \in x /\ \A y \in x : y <= Max(x)
          BY <3>1, <5>1, MaxIsGreatest
        <5>3. Max(x) \in Nat /\ Max(x) <= k + 1 /\ k + 1 <= Max(x)
          BY <3>1, <5>1, <5>2
        <5> QED BY <5>3
      <4>2. x \ {k + 1} \in SUBSET (1 .. k)  OBVIOUS
      <4>3. h[x \ {k + 1}] = g[x \ {k + 1}] BY <4>2
      <4> QED BY <3>1, <4>1, <4>3
    <3>2. CASE k + 1 \notin x
      <4>1. x \in SUBSET (1 .. k)
        <5> SUFFICES ASSUME NEW y \in x PROVE y \in 1 .. k OBVIOUS
        <5> QED BY <3>2
      <4>2. h[x] = g[x] BY <3>2
      <4>3. CASE x = {} BY <4>1, <4>2, <4>3
      <4>4. CASE x # {}
        <5>1. Max(x) \in x
          <6>1. x \subseteq Nat /\ \A y \in x : y <= k BY <4>1
          <6> QED BY <6>1, <4>4, MaxIsGreatest
        <5>2. x \ {Max(x)} \in SUBSET (1 .. k) BY <4>1
        <5>3. h[x \ {Max(x)}] = g[x \ {Max(x)}] BY <3>2, <5>2
        <5> QED BY <4>1, <4>2, <4>4, <5>3
      <4> QED BY <4>3, <4>4
    <3> QED BY <3>1, <3>2
  <2>2. Iter(h, k + 1) BY <2>1
  <2> HIDE DEF h, Iter
  <2> QED BY <2>2
<1>3. n \in Ex
  <2> HIDE DEF Ex
  <2> QED BY <1>1, <1>2, NaturalsAreReached
<1> DEFINE it == CHOOSE g : Iter(g, n)
<1>4. Iter(it, n)
  BY <1>3
<1>5. Runs(addresses, expected) = it[1 .. n]
  BY DEF Runs, Extended, FoldLeft, MapThenFoldSet
<1> DEFINE f == [i \in 0 .. n |-> it[1 .. i]]
<1> HIDE DEF it
<1>6. f[0] = <<>>
  <2>1. 1 .. 0 = {} OBVIOUS
  <2> QED BY <1>4, <2>1
<1>7. ASSUME NEW i \in 1 .. n
      PROVE  f[i] = Extended(f[i - 1], addresses[i], expected)
  <2>1. Max(1 .. i) = i /\ (1 .. i) \ {i} = 1 .. (i - 1) BY TopOfInterval
  <2>2. 1 .. i \in SUBSET (1 .. n) /\ 1 .. i # {} OBVIOUS
  <2>3. it[1 .. i] = Extended(it[(1 .. i) \ {Max(1 .. i)}], addresses[Max(1 .. i)], expected)
    BY <1>4, <2>2
  <2>4. f[i] = it[1 .. i] /\ f[i - 1] = it[1 .. (i - 1)] OBVIOUS
  <2> HIDE DEF f
  <2> QED BY <2>1, <2>3, <2>4
<1>8. Runs(addresses, expected) = f[n] BY <1>5
<1> QED BY <1>6, <1>7, <1>8

\* Runs of a set of numbers: each continues as expected, each is cut where the next
\* number is not the one expected, and together they are the set in its order.
RunsOf(R, T, expected) ==
  /\ R \in Seq(Seq(Instruction))
  /\ \A r \in 1 .. Len(R) : Len(R[r]) > 0
  /\ \A r \in 1 .. Len(R) : \A j \in 1 .. Len(R[r]) : R[r][j] \in T
  /\ \A x \in T : \E r \in 1 .. Len(R) : \E j \in 1 .. Len(R[r]) : R[r][j] = x
  /\ \A r \in 1 .. Len(R) : \A i, j \in 1 .. Len(R[r]) : i < j => R[r][i] < R[r][j]
  /\ \A r, q \in 1 .. Len(R) : r < q =>
       \A i \in 1 .. Len(R[r]), j \in 1 .. Len(R[q]) : R[r][i] < R[q][j]
  /\ \A r \in 1 .. Len(R) : \A j \in 1 .. Len(R[r]) - 1 : R[r][j + 1] = expected[R[r][j]]
  /\ \A r \in 1 .. Len(R) - 1 : R[r + 1][1] # expected[R[r][Len(R[r])]]

\* A list and what one more address makes of it.
Lengthened(R, G, a, expected) ==
  LET n == Len(R)
  IN /\ G \in Seq(Seq(Instruction)) /\ n \in Nat
     /\ \A r \in 1 .. n : R[r] \in Seq(Instruction) /\ Len(R[r]) \in Nat
     /\ \A r \in 1 .. Len(G) : G[r] \in Seq(Instruction) /\ Len(G[r]) \in Nat
     /\ \/ /\ n > 0 /\ Len(G) = n /\ a = expected[R[n][Len(R[n])]]
           /\ \A r \in 1 .. n - 1 : G[r] = R[r]
           /\ Len(G[n]) = Len(R[n]) + 1 /\ G[n][Len(R[n]) + 1] = a
           /\ \A j \in 1 .. Len(R[n]) : G[n][j] = R[n][j]
        \/ /\ Len(G) = n + 1 /\ \A r \in 1 .. n : G[r] = R[r]
           /\ Len(G[n + 1]) = 1 /\ G[n + 1][1] = a
           /\ n > 0 => a # expected[R[n][Len(R[n])]]

LEMMA ListsLengthen ==
  ASSUME NEW R \in Seq(Seq(Instruction)), \A r \in 1 .. Len(R) : Len(R[r]) > 0,
         NEW a \in Instruction, NEW expected
  PROVE  Lengthened(R, Extended(R, a, expected), a, expected)
<1> DEFINE n == Len(R)
           G == Extended(R, a, expected)
<1>1. n \in Nat /\ DOMAIN R = 1 .. n /\ \A r \in 1 .. n : R[r] \in Seq(Instruction)
  BY LenProperties, ElementOfSeq
<1>2. \A r \in 1 .. n : Len(R[r]) \in Nat BY <1>1, LenProperties
<1>3. R # <<>> <=> n > 0 BY <1>1, EmptySeq
<1>4. CASE n > 0 /\ a = expected[R[n][Len(R[n])]]
  <2> DEFINE u == Append(R[n], a)
  <2>0. n \in 1 .. n /\ Len(R[n]) \in Nat /\ R[n] \in Seq(Instruction) BY <1>1, <1>2, <1>4
  <2>1. /\ u \in Seq(Instruction) /\ Len(u) = Len(R[n]) + 1 /\ u[Len(R[n]) + 1] = a
        /\ \A j \in 1 .. Len(R[n]) : u[j] = R[n][j]
    BY <2>0, AppendProperties
  <2>2. Last(Last(R)) = R[n][Len(R[n])] BY DEF Last
  <2>3. G = [R EXCEPT ![n] = u] BY <1>3, <1>4, <2>2 DEF Extended
  <2> HIDE DEF u, G
  <2>4. /\ G \in Seq(Seq(Instruction)) /\ Len(G) = n
        /\ \A j \in 1 .. n : G[j] = IF j = n THEN u ELSE R[j]
    <3>1. R \in Seq(Seq(Instruction)) /\ u \in Seq(Instruction) /\ n \in 1 .. Len(R) BY <2>0, <2>1
    <3>2. /\ [R EXCEPT ![n] = u] \in Seq(Seq(Instruction)) /\ Len([R EXCEPT ![n] = u]) = Len(R)
          /\ \A j \in 1 .. Len(R) : [R EXCEPT ![n] = u][j] = IF j = n THEN u ELSE R[j]
      BY ONLY <3>1, ExceptSeq
    <3> QED BY <2>3, <3>2
  <2>5. G[n] = u /\ \A r \in 1 .. n - 1 : G[r] = R[r]
    <3>1. G[n] = u BY <2>0, <2>4
    <3>2. ASSUME NEW r \in 1 .. n - 1 PROVE G[r] = R[r]
      <4> HIDE DEF n
      <4>1. r \in 1 .. n /\ r # n BY ONLY <1>1, r \in 1 .. n - 1
      <4> QED BY <2>4, <4>1
    <3> QED BY <3>1, <3>2
  <2>6. \A r \in 1 .. n : G[r] \in Seq(Instruction) BY <2>4, ElementOfSeq
  <2>7. \A r \in 1 .. n : Len(G[r]) \in Nat BY <2>6, LenProperties
  <2> QED BY <1>1, <1>2, <1>4, <2>1, <2>4, <2>5, <2>6, <2>7 DEF Lengthened, G
<1>5. CASE ~ (n > 0 /\ a = expected[R[n][Len(R[n])]])
  <2>1. Last(Last(R)) = R[n][Len(R[n])] BY DEF Last
  <2>2. G = Append(R, <<a>>) BY <1>3, <1>5, <2>1 DEF Extended
  <2>3. <<a>> \in Seq(Instruction) /\ Len(<<a>>) = 1 /\ <<a>>[1] = a OBVIOUS
  <2> HIDE DEF G
  <2>4. /\ G \in Seq(Seq(Instruction)) /\ Len(G) = n + 1 /\ G[n + 1] = <<a>>
        /\ \A r \in 1 .. n : G[r] = R[r]
    BY <2>2, <2>3, AppendProperties
  <2>5. \A r \in 1 .. n + 1 : G[r] \in Seq(Instruction) BY <1>1, <2>4, ElementOfSeq
  <2>6. \A r \in 1 .. n + 1 : Len(G[r]) \in Nat BY <2>5, LenProperties
  <2> QED BY <1>1, <1>2, <1>5, <2>3, <2>4, <2>5, <2>6 DEF Lengthened, G
<1> QED BY <1>4, <1>5

LEMMA RunsExtend ==
  ASSUME NEW R, NEW T, NEW expected, RunsOf(R, T, expected), NEW a \in Instruction,
         \A x \in T : x < a
  PROVE  RunsOf(Extended(R, a, expected), T \cup {a}, expected)
<1> DEFINE n == Len(R)
           G == Extended(R, a, expected)
<1>1. R \in Seq(Seq(Instruction)) /\ \A r \in 1 .. n : Len(R[r]) > 0 BY DEF RunsOf
<1>6. \A r \in 1 .. n : \A j \in 1 .. Len(R[r]) : R[r][j] \in T BY DEF RunsOf
<1>7. \A x \in T : \E r \in 1 .. n : \E j \in 1 .. Len(R[r]) : R[r][j] = x BY DEF RunsOf
<1>8. \A r \in 1 .. n : \A i, j \in 1 .. Len(R[r]) : i < j => R[r][i] < R[r][j] BY DEF RunsOf
<1>9. \A r, q \in 1 .. n : r < q =>
        \A i \in 1 .. Len(R[r]), j \in 1 .. Len(R[q]) : R[r][i] < R[q][j]
  BY DEF RunsOf
<1>10. \A r \in 1 .. n : \A j \in 1 .. Len(R[r]) - 1 : R[r][j + 1] = expected[R[r][j]]
  BY DEF RunsOf
<1>11. \A r \in 1 .. n - 1 : R[r + 1][1] # expected[R[r][Len(R[r])]] BY DEF RunsOf
<1>2. Lengthened(R, G, a, expected) BY <1>1, ListsLengthen
<1>3. /\ G \in Seq(Seq(Instruction)) /\ n \in Nat
      /\ \A r \in 1 .. n : R[r] \in Seq(Instruction) /\ Len(R[r]) \in Nat
      /\ \A r \in 1 .. Len(G) : G[r] \in Seq(Instruction) /\ Len(G[r]) \in Nat
  BY <1>2 DEF Lengthened
<1> HIDE DEF G, n
<1>4. ASSUME /\ n > 0 /\ Len(G) = n /\ a = expected[R[n][Len(R[n])]]
             /\ \A r \in 1 .. n - 1 : G[r] = R[r]
             /\ Len(G[n]) = Len(R[n]) + 1 /\ G[n][Len(R[n]) + 1] = a
             /\ \A j \in 1 .. Len(R[n]) : G[n][j] = R[n][j]
      PROVE  RunsOf(G, T \cup {a}, expected)
  <2> DEFINE m == Len(R[n])
  <2>1. n \in 1 .. n /\ m \in Nat /\ m > 0 BY <1>1, <1>3, <1>4
  <2>2. \A r \in 1 .. n : r \in 1 .. n - 1 \/ r = n BY <1>3
  <2>3. \A j \in 1 .. m + 1 : j \in 1 .. m \/ j = m + 1 BY <2>1
  <2>4. \A r \in 1 .. n - 1 : r \in 1 .. n /\ G[r] = R[r]
    <3>1. n \in Nat BY <1>3
    <3>2. \A r \in 1 .. n - 1 : r \in 1 .. n BY ONLY <3>1
    <3>3. \A r \in 1 .. n - 1 : G[r] = R[r] BY <1>4
    <3> QED BY <3>2, <3>3
  <2>5. Len(G[n]) = m + 1 /\ G[n][m + 1] = a /\ \A j \in 1 .. m : G[n][j] = R[n][j] BY <1>4
  <2>6. \A j \in 1 .. m : R[n][j] \in T /\ R[n][j] < a BY <1>6, <2>1
  <2>7. m \in 1 .. m /\ m + 1 \in 1 .. m + 1 /\ \A j \in 1 .. m : j \in 1 .. m + 1 BY <2>1
  <2>8. a = expected[R[n][m]] BY <1>4
  <2>9. \A r \in 1 .. n - 1 : \A i \in 1 .. Len(R[r]) : R[r][i] \in T /\ R[r][i] < a
    BY <1>6, <2>4
  <2> HIDE DEF m
  <2>10. ASSUME NEW r \in 1 .. n PROVE Len(G[r]) > 0
    <3>1. CASE r \in 1 .. n - 1 BY <1>1, <2>4, <3>1
    <3>2. CASE r = n BY <2>1, <2>5, <3>2
    <3> QED BY <2>2, <3>1, <3>2
  <2>11. ASSUME NEW r \in 1 .. n, NEW j \in 1 .. Len(G[r]) PROVE G[r][j] \in T \cup {a}
    <3>1. CASE r \in 1 .. n - 1 BY <2>4, <2>9, <2>11, <3>1
    <3>2. CASE r = n
      <4>1. j \in 1 .. m + 1 BY <2>5, <2>11, <3>2
      <4> QED BY <2>3, <2>5, <2>6, <3>2, <4>1
    <3> QED BY <2>2, <3>1, <3>2
  <2>12. ASSUME NEW x \in T \cup {a}
         PROVE  \E r \in 1 .. Len(G) : \E j \in 1 .. Len(G[r]) : G[r][j] = x
    <3>1. CASE x = a BY <1>4, <2>1, <2>5, <2>7, <3>1
    <3>2. CASE x \in T
      <4>1. PICK r \in 1 .. n : \E j \in 1 .. Len(R[r]) : R[r][j] = x BY <1>7, <3>2
      <4>2. PICK j \in 1 .. Len(R[r]) : R[r][j] = x BY <4>1
      <4>3. CASE r = n
        <5>1. j \in 1 .. m BY <4>2, <4>3 DEF m
        <5> QED BY <1>4, <2>1, <2>5, <2>7, <4>2, <4>3, <5>1
      <4>4. CASE r \in 1 .. n - 1 BY <1>4, <2>4, <4>2, <4>4
      <4> QED BY <2>2, <4>3, <4>4
    <3> QED BY <3>1, <3>2
  <2>13. ASSUME NEW r \in 1 .. n, NEW i \in 1 .. Len(G[r]), NEW j \in 1 .. Len(G[r]), i < j
         PROVE  G[r][i] < G[r][j]
    <3>1. CASE r \in 1 .. n - 1
      <4>1. G[r] = R[r] /\ r \in 1 .. n BY <2>4, <3>1
      <4> QED BY <1>8, <2>13, <4>1
    <3>2. CASE r = n
      <4>1. i \in 1 .. m + 1 /\ j \in 1 .. m + 1 BY <2>5, <3>2
      <4>2. i \in 1 .. m BY <2>1, <2>13, <4>1
      <4>3. CASE j = m + 1 BY <2>5, <2>6, <3>2, <4>2, <4>3
      <4>4. CASE j \in 1 .. m
        <5>1. R[n][i] < R[n][j] BY <1>8, <2>1, <2>13, <4>2, <4>4 DEF m
        <5> QED BY <2>5, <3>2, <4>2, <4>4, <5>1
      <4> QED BY <2>3, <4>1, <4>3, <4>4
    <3> QED BY <2>2, <3>1, <3>2
  <2>14. ASSUME NEW r \in 1 .. n, NEW q \in 1 .. n, r < q,
                NEW i \in 1 .. Len(G[r]), NEW j \in 1 .. Len(G[q])
         PROVE  G[r][i] < G[q][j]
    <3>1. r \in 1 .. n - 1 BY <1>3, <2>14
    <3>2. G[r] = R[r] /\ i \in 1 .. Len(R[r]) BY <2>4, <2>14, <3>1
    <3>3. CASE q \in 1 .. n - 1
      <4>1. G[q] = R[q] /\ j \in 1 .. Len(R[q]) BY <2>4, <2>14, <3>3
      <4>2. r \in 1 .. n /\ q \in 1 .. n BY <2>14
      <4>3. R[r][i] < R[q][j] BY <1>9, <2>14, <3>2, <4>1, <4>2
      <4> QED BY <3>2, <4>1, <4>3
    <3>4. CASE q = n
      <4>1. j \in 1 .. m + 1 BY <2>5, <2>14, <3>4
      <4>2. CASE j = m + 1 BY <2>5, <2>9, <3>1, <3>2, <3>4, <4>2
      <4>3. CASE j \in 1 .. m
        <5>1. R[r][i] < R[n][j] BY <1>9, <2>1, <2>14, <3>2, <3>4, <4>3 DEF m
        <5> QED BY <2>5, <3>2, <3>4, <4>3, <5>1
      <4> QED BY <2>3, <4>1, <4>2, <4>3
    <3> QED BY <2>2, <3>3, <3>4
  <2>15. ASSUME NEW r \in 1 .. n, NEW j \in 1 .. Len(G[r]) - 1
         PROVE  G[r][j + 1] = expected[G[r][j]]
    <3>1. CASE r \in 1 .. n - 1
      <4>1. G[r] = R[r] /\ r \in 1 .. n BY <2>4, <3>1
      <4> QED BY <1>10, <2>15, <4>1
    <3>2. CASE r = n
      <4>1. j \in 1 .. m BY <2>1, <2>5, <2>15, <3>2
      <4>2. CASE j = m BY <2>5, <2>8, <3>2, <4>1, <4>2
      <4>3. CASE j # m
        <5>1. j \in 1 .. m - 1 /\ j + 1 \in 1 .. m BY <2>1, <4>1, <4>3
        <5>2. R[n][j + 1] = expected[R[n][j]] BY <1>10, <2>1, <5>1 DEF m
        <5> QED BY <2>5, <3>2, <4>1, <5>1, <5>2
      <4> QED BY <4>2, <4>3
    <3> QED BY <2>2, <3>1, <3>2
  <2>16. ASSUME NEW r \in 1 .. n - 1 PROVE G[r + 1][1] # expected[G[r][Len(G[r])]]
    <3>1. G[r] = R[r] /\ R[r + 1][1] # expected[R[r][Len(R[r])]] BY <1>11, <2>4
    <3>2. r + 1 \in 1 .. n BY <1>3
    <3>3. G[r + 1][1] = R[r + 1][1]
      <4>1. CASE r + 1 = n
        <5>1. 1 \in 1 .. m BY <2>1
        <5> QED BY <2>5, <4>1, <5>1
      <4>2. CASE r + 1 \in 1 .. n - 1 BY <2>4, <4>2
      <4> QED BY <2>2, <3>2, <4>1, <4>2
    <3> QED BY <3>1, <3>3
  <2> QED BY <1>3, <1>4, <2>10, <2>11, <2>12, <2>13, <2>14, <2>15, <2>16 DEF RunsOf
<1>5. ASSUME /\ Len(G) = n + 1 /\ \A r \in 1 .. n : G[r] = R[r]
             /\ Len(G[n + 1]) = 1 /\ G[n + 1][1] = a
             /\ n > 0 => a # expected[R[n][Len(R[n])]]
      PROVE  RunsOf(G, T \cup {a}, expected)
  <2>1. \A r \in 1 .. n + 1 : r \in 1 .. n \/ r = n + 1 BY <1>3
  <2>2. \A r \in 1 .. n : r \in 1 .. n + 1 /\ G[r] = R[r] BY <1>3, <1>5
  <2>3. n + 1 \in 1 .. n + 1 /\ 1 \in 1 .. Len(G[n + 1]) BY <1>3, <1>5
  <2>4. \A j \in 1 .. Len(G[n + 1]) : j = 1 BY <1>5
  <2>5. \A r \in 1 .. n : \A i \in 1 .. Len(R[r]) : R[r][i] \in T /\ R[r][i] < a BY <1>6
  <2>10. \A r \in 1 .. Len(G) : Len(G[r]) > 0 BY <1>1, <1>5, <2>1, <2>2
  <2>11. \A r \in 1 .. Len(G) : \A j \in 1 .. Len(G[r]) : G[r][j] \in T \cup {a}
    BY <1>5, <1>6, <2>1, <2>2, <2>4
  <2>12. ASSUME NEW x \in T \cup {a}
         PROVE  \E r \in 1 .. Len(G) : \E j \in 1 .. Len(G[r]) : G[r][j] = x
    <3>1. CASE x = a BY <1>5, <2>3, <3>1
    <3>2. CASE x \in T
      <4>1. PICK r \in 1 .. n : \E j \in 1 .. Len(R[r]) : R[r][j] = x BY <1>7, <3>2
      <4> QED BY <1>5, <2>2, <4>1
    <3> QED BY <3>1, <3>2
  <2>13. ASSUME NEW r \in 1 .. n + 1, NEW i \in 1 .. Len(G[r]), NEW j \in 1 .. Len(G[r]), i < j
         PROVE  G[r][i] < G[r][j]
    <3>1. CASE r \in 1 .. n
      <4>1. G[r] = R[r] BY <2>2, <3>1
      <4> QED BY <1>8, <2>13, <3>1, <4>1
    <3>2. CASE r = n + 1 BY <2>4, <2>13, <3>2
    <3> QED BY <2>1, <3>1, <3>2
  <2>14. ASSUME NEW r \in 1 .. n + 1, NEW q \in 1 .. n + 1, r < q,
                NEW i \in 1 .. Len(G[r]), NEW j \in 1 .. Len(G[q])
         PROVE  G[r][i] < G[q][j]
    <3>1. r \in 1 .. n BY <1>3, <2>14
    <3>2. G[r] = R[r] /\ i \in 1 .. Len(R[r]) BY <2>2, <2>14, <3>1
    <3>3. CASE q \in 1 .. n
      <4>1. G[q] = R[q] /\ j \in 1 .. Len(R[q]) BY <2>2, <2>14, <3>3
      <4>2. R[r][i] < R[q][j] BY <1>9, <2>14, <3>1, <3>2, <3>3, <4>1
      <4> QED BY <3>2, <4>1, <4>2
    <3>4. CASE q = n + 1
      <4>1. G[q][j] = a BY <1>5, <2>4, <2>14, <3>4
      <4>2. R[r][i] < a BY <2>5, <3>1, <3>2
      <4> QED BY <3>2, <4>1, <4>2
    <3> QED BY <2>1, <3>3, <3>4
  <2>15. ASSUME NEW r \in 1 .. n + 1, NEW j \in 1 .. Len(G[r]) - 1
         PROVE  G[r][j + 1] = expected[G[r][j]]
    <3>1. CASE r \in 1 .. n
      <4>1. G[r] = R[r] /\ j \in 1 .. Len(R[r]) - 1 BY <2>2, <2>15, <3>1
      <4>2. R[r][j + 1] = expected[R[r][j]] BY <1>10, <3>1, <4>1
      <4> QED BY <4>1, <4>2
    <3>2. CASE r = n + 1
      <4>1. Len(G[r]) = 1 BY <1>5, <3>2
      <4>2. j \in 1 .. 0 BY <2>15, <4>1
      <4> QED BY <4>2
    <3> QED BY <2>1, <3>1, <3>2
  <2>16. ASSUME NEW r \in 1 .. (n + 1) - 1 PROVE G[r + 1][1] # expected[G[r][Len(G[r])]]
    <3>1. r \in 1 .. n /\ G[r] = R[r]
      <4>1. n \in Nat BY <1>3
      <4>2. r \in 1 .. n BY ONLY <4>1, r \in 1 .. (n + 1) - 1
      <4> QED BY <2>2, <4>2
    <3>2. CASE r = n BY <1>3, <1>5, <3>1, <3>2
    <3>3. CASE r # n
      <4>1. r \in 1 .. n - 1 /\ r + 1 \in 1 .. n BY <1>3, <3>1, <3>3
      <4>2. G[r + 1] = R[r + 1] /\ R[r + 1][1] # expected[R[r][Len(R[r])]] BY <1>11, <2>2, <4>1
      <4> QED BY <3>1, <4>2
    <3> QED BY <3>2, <3>3
  <2> QED BY <1>3, <1>5, <2>10, <2>11, <2>12, <2>13, <2>14, <2>15, <2>16 DEF RunsOf
<1> QED BY <1>2, <1>4, <1>5 DEF Lengthened, G, n

LEMMA RunsOfSet ==
  ASSUME NEW U, IsFiniteSet(U), U \subseteq Instruction, NEW expected
  PROVE  RunsOf(Runs(Ascend(U), expected), U, expected)
<1> DEFINE n == Cardinality(U)
           o == Ascend(U)
           T(k) == {o[p] : p \in 1 .. k}
<1>1. U \subseteq Int BY TraceCaptureAssumption DEF Instruction
<1>2. /\ n \in Nat /\ o \in Seq(U) /\ Len(o) = n /\ \A i \in 1 .. n : o[i] \in U
      /\ \A i, j \in 1 .. n : i < j => o[i] < o[j]
      /\ \A x \in U : \E i \in 1 .. n : o[i] = x
  BY <1>1, AscendFacts
<1>3. DOMAIN o = 1 .. n BY <1>2, LenProperties
<1> HIDE DEF n, o
<1>4. PICK f : /\ f[0] = <<>>
               /\ \A i \in 1 .. n : f[i] = Extended(f[i - 1], o[i], expected)
               /\ Runs(o, expected) = f[n]
  <2>1. n \in Nat BY <1>2
  <2> QED BY ONLY <2>1, <1>3, RunsByOne
<1> DEFINE S == {k \in Nat : k <= n => RunsOf(f[k], T(k), expected)}
<1>5. 0 \in S
  <2>1. T(0) = {} OBVIOUS
  <2>2. <<>> \in Seq(Seq(Instruction)) /\ Len(<<>>) = 0 OBVIOUS
  <2>3. RunsOf(<<>>, {}, expected)
    <3> DEFINE R == <<>>
    <3>1. R \in Seq(Seq(Instruction)) /\ Len(R) = 0 BY <2>2
    <3> HIDE DEF R
    <3>2. RunsOf(R, {}, expected) BY <3>1 DEF RunsOf
    <3> QED BY <3>2 DEF R
  <2> QED BY <1>4, <2>1, <2>3
<1>6. \A k \in Nat : k \in S => k + 1 \in S
  <2> HIDE DEF T
  <2> SUFFICES ASSUME NEW k \in Nat, k \in S, k + 1 <= n
               PROVE  RunsOf(f[k + 1], T(k + 1), expected)
    OBVIOUS
  <2>1. RunsOf(f[k], T(k), expected) BY <1>2
  <2>2. k + 1 \in 1 .. n /\ (k + 1) - 1 = k BY <1>2
  <2>3. f[k + 1] = Extended(f[k], o[k + 1], expected) BY <1>4, <2>2
  <2>4. o[k + 1] \in Instruction BY <1>2, <2>2
  <2>5. \A x \in T(k) : x < o[k + 1]
    <3> SUFFICES ASSUME NEW x \in T(k) PROVE x < o[k + 1] OBVIOUS
    <3>0. PICK p \in 1 .. k : x = o[p] BY DEF T
    <3>1. p \in 1 .. n /\ p < k + 1 BY <1>2
    <3> QED BY <1>2, <2>2, <3>0, <3>1
  <2>6. T(k + 1) = T(k) \cup {o[k + 1]}
    <3>1. \A p \in 1 .. k + 1 : p \in 1 .. k \/ p = k + 1 OBVIOUS
    <3>2. \A p \in 1 .. k : p \in 1 .. k + 1 OBVIOUS
    <3>3. k + 1 \in 1 .. k + 1 OBVIOUS
    <3> QED BY <3>1, <3>2, <3>3 DEF T
  <2> HIDE DEF S
  <2>7. RunsOf(Extended(f[k], o[k + 1], expected), T(k) \cup {o[k + 1]}, expected)
    BY ONLY <2>1, <2>4, <2>5, RunsExtend
  <2> QED BY <2>3, <2>6, <2>7
<1>7. n \in S
  <2> HIDE DEF S
  <2> QED BY <1>2, <1>5, <1>6, NaturalsAreReached
<1>8. T(n) = U
  <2>1. \A x \in U : x \in T(n) BY <1>2
  <2>2. \A x \in T(n) : x \in U BY <1>2
  <2> HIDE DEF T
  <2> QED BY <2>1, <2>2
<1>9. RunsOf(f[n], T(n), expected)
  <2> HIDE DEF T
  <2> QED BY <1>2, <1>7
<1> QED BY <1>4, <1>8, <1>9 DEF o

\* Z is the report's view of the runs R of the addresses U.
Laid(Z, R, U, expected, counts) ==
  /\ RunsOf(R, U, expected) /\ IsFiniteSet(U) /\ U \subseteq Instruction
  /\ Z = {Span(u, counts) : u \in ToSet(R)}

\* The span s of a run u of them.
Spans(s, u, Z, U) ==
  /\ s \in Z /\ Len(u) \in Nat /\ Len(u) > 0
  /\ s.start = u[1] /\ s.end = u[Len(u)] /\ s.members = {u[j] : j \in 1 .. Len(u)}
  /\ s.members = ToSet(u)
  /\ s.members \subseteq U /\ s.start \in s.members /\ s.end \in s.members
  /\ \A x \in s.members : s.start <= x /\ x <= s.end
  /\ \A j \in 1 .. Len(u) : u[j] \in Instruction /\ u[j] \in U

LEMMA SpanIs ==
  ASSUME NEW Z, NEW R, NEW U, NEW expected, NEW counts, Laid(Z, R, U, expected, counts),
         NEW r \in 1 .. Len(R)
  PROVE  Spans(Span(R[r], counts), R[r], Z, U)
<1> DEFINE s == Span(R[r], counts)
           m == Len(R[r])
<1>1. /\ R \in Seq(Seq(Instruction)) /\ Len(R[r]) > 0 /\ U \subseteq Instruction
      /\ \A j \in 1 .. Len(R[r]) : R[r][j] \in U
      /\ \A i, j \in 1 .. Len(R[r]) : i < j => R[r][i] < R[r][j]
      /\ Z = {Span(u, counts) : u \in ToSet(R)}
  BY DEF Laid, RunsOf
<1>2. Len(R) \in Nat /\ DOMAIN R = 1 .. Len(R) /\ R[r] \in Seq(Instruction)
  BY <1>1, LenProperties, ElementOfSeq
<1>3. m \in Nat /\ DOMAIN R[r] = 1 .. m BY <1>2, LenProperties
<1>4. R[r] \in ToSet(R) BY <1>2 DEF ToSet
<1>5. s \in Z BY <1>1, <1>4
<1>6. Head(R[r]) = R[r][1] BY <1>1, <1>2
<1>7. ToSet(R[r]) = {R[r][j] : j \in 1 .. m} BY <1>3 DEF ToSet
<1>8. s.start = R[r][1] /\ s.end = R[r][m] /\ s.members = ToSet(R[r])
  BY <1>6 DEF Span, Last
<1> HIDE DEF s
<1>9. 1 \in 1 .. m /\ m \in 1 .. m BY <1>1, <1>3
<1>10. s.members = {R[r][j] : j \in 1 .. m} BY <1>7, <1>8
<1>11. s.members \subseteq U /\ s.start \in s.members /\ s.end \in s.members
  BY <1>1, <1>8, <1>9, <1>10
<1>12. ASSUME NEW x \in s.members PROVE s.start <= x /\ x <= s.end
  <2>1. PICK j \in 1 .. m : R[r][j] = x BY <1>10
  <2>2. (j = 1 \/ 1 < j) /\ (j = m \/ j < m)
    <3> HIDE DEF m
    <3> QED BY <1>3
  <2>3. R[r][1] \in Int /\ R[r][m] \in Int /\ x \in Int
    <3>1. \A a \in U : a \in Int BY <1>1, TraceCaptureAssumption DEF Instruction
    <3>2. \A k \in 1 .. m : R[r][k] \in U BY <1>1
    <3> HIDE DEF m
    <3> QED BY <1>9, <2>1, <3>1, <3>2
  <2>6. \A k, l \in 1 .. m : k < l => R[r][k] < R[r][l] BY <1>1
  <2>4. R[r][1] <= x
    <3> HIDE DEF m
    <3>1. CASE j = 1 BY <2>1, <2>3, <3>1
    <3>2. CASE 1 < j
      <4>1. R[r][1] < R[r][j] BY <1>9, <2>1, <2>6, <3>2
      <4> QED BY <2>1, <2>3, <4>1
    <3> QED BY <2>2, <3>1, <3>2
  <2>5. x <= R[r][m]
    <3> HIDE DEF m
    <3>1. CASE j = m BY <2>1, <2>3, <3>1
    <3>2. CASE j < m
      <4>1. R[r][j] < R[r][m] BY <1>9, <2>1, <2>6, <3>2
      <4> QED BY <2>1, <2>3, <4>1
    <3> QED BY <2>2, <3>1, <3>2
  <2> QED BY <1>8, <2>4, <2>5
<1>13. \A j \in 1 .. m : R[r][j] \in Instruction /\ R[r][j] \in U BY <1>1
<1>14. Spans(s, R[r], Z, U) BY <1>1, <1>3, <1>5, <1>8, <1>10, <1>11, <1>12, <1>13 DEF Spans
<1> QED BY <1>14 DEF s

LEMMA SpansAreRuns ==
  ASSUME NEW Z, NEW R, NEW U, NEW expected, NEW counts, Laid(Z, R, U, expected, counts)
  PROVE  /\ Len(R) \in Nat
         /\ \A s \in Z : \E r \in 1 .. Len(R) : s = Span(R[r], counts)
<1>1. R \in Seq(Seq(Instruction)) /\ Z = {Span(u, counts) : u \in ToSet(R)}
  BY DEF Laid, RunsOf
<1>2. Len(R) \in Nat /\ DOMAIN R = 1 .. Len(R) BY <1>1, LenProperties
<1>3. \A u \in ToSet(R) : \E r \in 1 .. Len(R) : u = R[r] BY <1>2 DEF ToSet
<1> QED BY <1>1, <1>2, <1>3

\* Spans of different runs are apart, in the order of the runs.
LEMMA SpansApart ==
  ASSUME NEW Z, NEW R, NEW U, NEW expected, NEW counts, Laid(Z, R, U, expected, counts),
         NEW r \in 1 .. Len(R), NEW q \in 1 .. Len(R), r < q
  PROVE  \A x \in Span(R[r], counts).members, y \in Span(R[q], counts).members : x < y
<1> DEFINE s == Span(R[r], counts)
           t == Span(R[q], counts)
<1>0. Spans(s, R[r], Z, U) /\ Spans(t, R[q], Z, U) BY SpanIs
<1>1. s.members = {R[r][j] : j \in 1 .. Len(R[r])} BY <1>0 DEF Spans
<1>2. t.members = {R[q][j] : j \in 1 .. Len(R[q])} BY <1>0 DEF Spans
<1>3. \A i \in 1 .. Len(R[r]), j \in 1 .. Len(R[q]) : R[r][i] < R[q][j] BY DEF Laid, RunsOf
<1> HIDE DEF s, t
<1>4. \A x \in s.members, y \in t.members : x < y BY <1>1, <1>2, <1>3
<1> QED BY <1>4 DEF s, t

LEMMA SpansPartition ==
  ASSUME NEW Z, NEW R, NEW U, NEW expected, NEW counts, Laid(Z, R, U, expected, counts)
  PROVE  /\ IsFiniteSet(Z)
         /\ UNION {s.members : s \in Z} = U
         /\ \A s, t \in Z : s = t \/ s.members \cap t.members = {}
         /\ \A s \in Z : s.members \subseteq U /\ s.end \in s.members /\ \A x \in s.members : x <= s.end
<1>1. /\ Len(R) \in Nat /\ \A s \in Z : \E r \in 1 .. Len(R) : s = Span(R[r], counts)
  BY SpansAreRuns
<1>2. IsFiniteSet(Z)
  <2> DEFINE h == [r \in 1 .. Len(R) |-> Span(R[r], counts)]
             K == 1 .. Len(R)
  <2>1. \A r \in 1 .. Len(R) : Span(R[r], counts) \in Z
    <3>1. \A r \in 1 .. Len(R) : Spans(Span(R[r], counts), R[r], Z, U) BY SpanIs
    <3> QED BY <3>1 DEF Spans
  <2>2. h \in Surjection(K, Z) BY <1>1, <2>1 DEF Surjection
  <2>3. IsFiniteSet(K)
    <3>1. 1 \in Int /\ Len(R) \in Int BY <1>1
    <3> QED BY <3>1, FS_Interval
  <2> HIDE DEF h, K
  <2> QED BY <2>2, <2>3, FS_Surjection
<1>3. \A s \in Z : s.members \subseteq U /\ s.end \in s.members /\ \A x \in s.members : x <= s.end
  <2> SUFFICES ASSUME NEW s \in Z
               PROVE  s.members \subseteq U /\ s.end \in s.members /\ \A x \in s.members : x <= s.end
    OBVIOUS
  <2>1. PICK r \in 1 .. Len(R) : s = Span(R[r], counts) BY <1>1
  <2>2. Spans(s, R[r], Z, U) BY <2>1, SpanIs
  <2> QED BY <2>2 DEF Spans
<1>4. U \subseteq UNION {s.members : s \in Z}
  <2> SUFFICES ASSUME NEW x \in U PROVE \E s \in Z : x \in s.members OBVIOUS
  <2>1. PICK r \in 1 .. Len(R) : \E j \in 1 .. Len(R[r]) : R[r][j] = x BY DEF Laid, RunsOf
  <2> DEFINE s == Span(R[r], counts)
  <2>0. Spans(s, R[r], Z, U) BY SpanIs
  <2> HIDE DEF s
  <2>2. s \in Z /\ s.members = {R[r][j] : j \in 1 .. Len(R[r])} BY <2>0 DEF Spans
  <2> QED BY <2>1, <2>2
<1>5. \A s, t \in Z : s = t \/ s.members \cap t.members = {}
  <2> SUFFICES ASSUME NEW s \in Z, NEW t \in Z, s # t, NEW x \in s.members, x \in t.members PROVE FALSE
    OBVIOUS
  <2>1. PICK r \in 1 .. Len(R) : s = Span(R[r], counts) BY <1>1
  <2>2. PICK q \in 1 .. Len(R) : t = Span(R[q], counts) BY <1>1
  <2>3. r < q \/ q < r BY <1>1, <2>1, <2>2
  <2>4. x \in Int
    <3>1. x \in U /\ U \subseteq Instruction BY <1>3 DEF Laid
    <3> QED BY <3>1, TraceCaptureAssumption DEF Instruction
  <2>5. x < x BY <2>1, <2>2, <2>3, SpansApart
  <2> QED BY <2>4, <2>5
<1> QED BY <1>2, <1>3, <1>4, <1>5

\* A range is all the addresses from its start to its end, and no two ranges touch.
LEMMA RangesAreWhole ==
  ASSUME NEW Z, NEW R, NEW U, NEW counts, Laid(Z, R, U, NextAddress, counts)
  PROVE  /\ \A s \in Z : s.members = s.start .. s.end
         /\ \A one, other \in Z : one = other \/ one.end + 1 < other.start \/ other.end + 1 < one.start
<1>1. /\ Len(R) \in Nat /\ \A s \in Z : \E r \in 1 .. Len(R) : s = Span(R[r], counts)
  BY SpansAreRuns
<1>2. /\ \A r \in 1 .. Len(R) : \A j \in 1 .. Len(R[r]) - 1 : R[r][j + 1] = NextAddress[R[r][j]]
      /\ \A r \in 1 .. Len(R) - 1 : R[r + 1][1] # NextAddress[R[r][Len(R[r])]]
  BY DEF Laid, RunsOf
<1>3. \A a \in Instruction : a \in Int /\ NextAddress[a] = a + 1
  BY TraceCaptureAssumption DEF Instruction, NextAddress
<1>4. ASSUME NEW s \in Z PROVE s.members = s.start .. s.end
  <2>1. PICK r \in 1 .. Len(R) : s = Span(R[r], counts) BY <1>1
  <2> DEFINE m == Len(R[r])
             l == R[r]
  <2>2. /\ m \in Nat /\ m > 0 /\ s.start = l[1] /\ s.end = l[m] /\ s.members = {l[j] : j \in 1 .. m}
        /\ \A j \in 1 .. m : l[j] \in Instruction
        /\ \A x \in s.members : s.start <= x /\ x <= s.end
    <3>1. Spans(s, R[r], Z, U) BY <2>1, SpanIs
    <3> QED BY <3>1 DEF Spans
  <2>3. \A j \in 1 .. m - 1 : l[j + 1] = NextAddress[l[j]] BY <1>2
  <2> HIDE DEF m, l
  <2> DEFINE S == {k \in Nat : k + 1 <= m => l[k + 1] = l[1] + k}
  <2>4. l[1] \in Int /\ l[m] \in Int
    <3>1. 1 \in 1 .. m /\ m \in 1 .. m BY <2>2
    <3> QED BY <1>3, <2>2, <3>1
  <2>5. 0 \in S BY <2>4
  <2>6. \A k \in Nat : k \in S => k + 1 \in S
    <3> SUFFICES ASSUME NEW k \in Nat, k \in S, (k + 1) + 1 <= m PROVE l[(k + 1) + 1] = l[1] + (k + 1)
      OBVIOUS
    <3>1. k + 1 \in 1 .. m - 1 /\ k + 1 \in 1 .. m /\ k + 1 <= m BY <2>2
    <3>2. l[(k + 1) + 1] = NextAddress[l[k + 1]] BY <2>3, <3>1
    <3>3. l[k + 1] \in Instruction BY <2>2, <3>1
    <3>4. l[(k + 1) + 1] = l[k + 1] + 1 BY <1>3, <3>2, <3>3
    <3>5. l[k + 1] = l[1] + k BY <3>1
    <3> QED BY <2>4, <3>4, <3>5
  <2>7. \A k \in Nat : k + 1 <= m => l[k + 1] = l[1] + k
    <3> HIDE DEF S
    <3>1. Nat \subseteq S BY <2>5, <2>6, NaturalsAreReached
    <3> QED BY <3>1 DEF S
  <2>8. l[m] = l[1] + (m - 1)
    <3>1. m - 1 \in Nat /\ (m - 1) + 1 = m BY <2>2
    <3> QED BY <2>2, <2>7, <3>1
  <2>9. s.members \subseteq s.start .. s.end
    <3> SUFFICES ASSUME NEW x \in s.members PROVE x \in s.start .. s.end OBVIOUS
    <3>1. s.start <= x /\ x <= s.end BY <2>2
    <3>2. x \in Int BY <1>3, <2>2
    <3> QED BY <2>2, <2>4, <3>1, <3>2
  <2>10. s.start .. s.end \subseteq s.members
    <3> SUFFICES ASSUME NEW x \in s.start .. s.end PROVE x \in s.members OBVIOUS
    <3>1. x \in Int /\ l[1] <= x /\ x <= l[1] + (m - 1) BY <2>2, <2>4, <2>8
    <3> DEFINE k == x - l[1]
    <3>2. k \in Nat /\ k + 1 <= m /\ k + 1 \in 1 .. m /\ l[1] + k = x BY <2>2, <2>4, <3>1
    <3> HIDE DEF k
    <3>3. l[k + 1] = x BY <2>7, <3>2
    <3> QED BY <2>2, <3>2, <3>3
  <2> QED BY <2>9, <2>10
<1>5. ASSUME NEW r \in 1 .. Len(R), NEW q \in 1 .. Len(R), r < q
      PROVE  Span(R[r], counts).end + 1 < Span(R[q], counts).start
  <2> DEFINE s == Span(R[r], counts)
             t == Span(R[q], counts)
             v == Span(R[r + 1], counts)
  <2>1. r + 1 \in 1 .. Len(R) /\ r \in 1 .. Len(R) - 1 /\ r < r + 1 BY <1>1, <1>5
  <2>0. Spans(s, R[r], Z, U) /\ Spans(t, R[q], Z, U) /\ Spans(v, R[r + 1], Z, U) BY <2>1, SpanIs
  <2>5. \A x \in s.members, y \in v.members : x < y BY <2>1, SpansApart
  <2>6. r + 1 = q \/ r + 1 < q BY <1>1, <1>5
  <2>7. ASSUME r + 1 < q PROVE \A x \in v.members, y \in t.members : x < y BY <2>1, <2>7, SpansApart
  <2> HIDE DEF s, t, v
  <2>2. s.end = R[r][Len(R[r])] /\ s.end \in s.members /\ s.members \subseteq U BY <2>0 DEF Spans
  <2>3. t.start \in t.members /\ t.members \subseteq U BY <2>0 DEF Spans
  <2>4. v.start = R[r + 1][1] /\ v.start \in v.members /\ v.members \subseteq U BY <2>0 DEF Spans
  <2>8. v.start # NextAddress[s.end] BY <1>2, <2>1, <2>2, <2>4
  <2>9. U \subseteq Instruction BY DEF Laid
  <2>10. s.end \in Int /\ t.start \in Int /\ v.start \in Int /\ NextAddress[s.end] = s.end + 1
    BY <1>3, <2>2, <2>3, <2>4, <2>9
  <2>11. s.end < v.start BY <2>2, <2>4, <2>5
  <2>12. v.start <= t.start
    <3>1. CASE r + 1 = q
      <4>1. v = t BY <3>1 DEF v, t
      <4> QED BY <2>10, <4>1
    <3>2. CASE r + 1 < q
      <4>1. v.start < t.start BY <2>3, <2>4, <2>7, <3>2
      <4> QED BY <2>10, <4>1
    <3> QED BY <2>6, <3>1, <3>2
  <2>13. s.end + 1 < t.start BY ONLY <2>8, <2>10, <2>11, <2>12
  <2> QED BY <2>13 DEF s, t
<1>6. \A one, other \in Z : one = other \/ one.end + 1 < other.start \/ other.end + 1 < one.start
  <2> SUFFICES ASSUME NEW one \in Z, NEW other \in Z, one # other
               PROVE  one.end + 1 < other.start \/ other.end + 1 < one.start
    OBVIOUS
  <2>1. PICK r \in 1 .. Len(R) : one = Span(R[r], counts) BY <1>1
  <2>2. PICK q \in 1 .. Len(R) : other = Span(R[q], counts) BY <1>1
  <2>3. r < q \/ q < r BY <1>1, <2>1, <2>2
  <2> QED BY <1>5, <2>1, <2>2, <2>3
<1> QED BY <1>4, <1>6

\* A span ends where the next address is not the one expected, whichever it is.
Maximal(s, U, expected) ==
  LET later == {a \in U : a > s.end} IN later # {} => Min(later) # expected[s.end]

LEMMA SpansAreMaximal ==
  ASSUME NEW Z, NEW R, NEW U, NEW expected, NEW counts, Laid(Z, R, U, expected, counts), NEW s \in Z
  PROVE  /\ s.end = Max(s.members)
         /\ Maximal(s, U, expected)
<1> DEFINE later == {a \in U : a > s.end}
<1>1. /\ Len(R) \in Nat /\ \A t \in Z : \E r \in 1 .. Len(R) : t = Span(R[r], counts)
  BY SpansAreRuns
<1>2. PICK r \in 1 .. Len(R) : s = Span(R[r], counts) BY <1>1
<1>3. s.end = R[r][Len(R[r])] /\ s.end \in s.members /\ s.members \subseteq U
      /\ \A x \in s.members : x <= s.end
  <2>1. Spans(s, R[r], Z, U) BY <1>2, SpanIs
  <2> QED BY <2>1 DEF Spans
<1>4. U \subseteq Nat /\ U \subseteq Int
  <2>1. U \subseteq Instruction BY DEF Laid
  <2> QED BY <2>1, TraceCaptureAssumption DEF Instruction
<1>5. s.end = Max(s.members)
  <2>1. s.end \in Int /\ s.members \subseteq Int BY <1>3, <1>4
  <2> QED BY <1>3, <2>1, MaxIs
<1>6. ASSUME later # {} PROVE Min(later) # expected[s.end]
  <2>1. \A a \in later : a \in U /\ a > s.end /\ a \in Nat BY <1>4
  <2>2. s.end \in Nat BY <1>3, <1>4
  <2> HIDE DEF later
  <2>3. Min(later) \in later /\ \A x \in later : Min(later) <= x
    <3>1. later \subseteq Nat BY <2>1
    <3> QED BY <1>6, <3>1, MinIsSmallest
  <2>4. ASSUME NEW a \in later
        PROVE  \E q \in 1 .. Len(R) : r < q /\ a \in Span(R[q], counts).members
    <3>1. a \in U /\ a > s.end BY <2>1
    <3>2. PICK q \in 1 .. Len(R) : \E j \in 1 .. Len(R[q]) : R[q][j] = a BY <3>1 DEF Laid, RunsOf
    <3> DEFINE t == Span(R[q], counts)
    <3>0. Spans(t, R[q], Z, U) BY SpanIs
    <3> HIDE DEF t
    <3>3. t.members = {R[q][j] : j \in 1 .. Len(R[q])} BY <3>0 DEF Spans
    <3>4. a \in t.members BY <3>2, <3>3
    <3> USE DEF t
    <3>5. CASE q = r
      <4>1. a <= s.end BY <1>2, <1>3, <3>4, <3>5
      <4> QED BY <2>1, <2>2, <3>1, <4>1
    <3>6. CASE q < r
      <4>1. a < s.end BY <1>2, <1>3, <3>4, <3>6, SpansApart
      <4> QED BY <2>1, <2>2, <3>1, <4>1
    <3>7. q < r \/ q = r \/ r < q BY <1>1
    <3> QED BY <3>4, <3>5, <3>6, <3>7
  <2>5. r \in 1 .. Len(R) - 1 /\ r + 1 \in 1 .. Len(R) /\ r < r + 1
    <3>1. PICK q \in 1 .. Len(R) : r < q BY <2>3, <2>4
    <3> QED BY <1>1, <3>1
  <2> DEFINE v == Span(R[r + 1], counts)
  <2>6. v.start = R[r + 1][1] /\ v.start \in v.members /\ v.members \subseteq U
        /\ \A x \in v.members : v.start <= x
    <3>1. Spans(v, R[r + 1], Z, U) BY <2>5, SpanIs
    <3> HIDE DEF v
    <3> QED BY <3>1 DEF Spans
  <2>7. \A x \in s.members, y \in v.members : x < y BY <1>2, <2>5, SpansApart
  <2>8. R[r + 1][1] # expected[R[r][Len(R[r])]] BY <2>5 DEF Laid, RunsOf
  <2>9. ASSUME NEW a \in later PROVE v.start <= a
    <3>1. PICK q \in 1 .. Len(R) : r < q /\ a \in Span(R[q], counts).members BY <2>4
    <3>2. CASE q = r + 1 BY <2>6, <3>1, <3>2
    <3>3. CASE r + 1 < q
      <4>1. \A x \in v.members, y \in Span(R[q], counts).members : x < y BY <2>5, <3>3, SpansApart
      <4> HIDE DEF v
      <4>2. v.start < a BY <2>6, <3>1, <4>1
      <4>3. v.start \in Int /\ a \in Int BY <1>4, <2>1, <2>6
      <4> QED BY <4>2, <4>3
    <3>4. q = r + 1 \/ r + 1 < q BY <1>1, <3>1
    <3> QED BY <3>2, <3>3, <3>4
  <2> HIDE DEF v
  <2>10. v.start \in later
    <3>1. s.end < v.start /\ v.start \in U BY <1>3, <2>6, <2>7
    <3>2. v.start \in Nat BY <1>4, <3>1
    <3>3. v.start > s.end BY <2>2, <3>1, <3>2
    <3> QED BY <3>1, <3>3 DEF later
  <2>11. Min(later) = v.start
    <3>1. Min(later) \in Nat /\ v.start \in Nat BY <2>1, <2>3, <2>10
    <3>2. Min(later) <= v.start /\ v.start <= Min(later) BY <2>3, <2>9, <2>10
    <3> QED BY <3>1, <3>2
  <2> QED BY <1>3, <2>6, <2>8, <2>11
<1> QED BY <1>5, <1>6 DEF Maximal

\* A span cut by the lengths of its instructions is what a disassembly from its start lists.
LEMMA SpansAreSwept ==
  ASSUME NEW Z, NEW R, NEW U, NEW expected, NEW counts, Laid(Z, R, U, expected, counts), NEW s \in Z,
         \A a \in U : expected[a] = a + code[a]
  PROVE  s.members = Swept(s.start, Cardinality(s.members))
<1>1. /\ Len(R) \in Nat /\ \A t \in Z : \E r \in 1 .. Len(R) : t = Span(R[r], counts)
  BY SpansAreRuns
<1>2. PICK r \in 1 .. Len(R) : s = Span(R[r], counts) BY <1>1
<1> DEFINE l == R[r]
           m == Len(R[r])
<1>3. /\ m \in Nat /\ m > 0 /\ s.start = l[1] /\ s.members = {l[j] : j \in 1 .. m}
      /\ \A j \in 1 .. m : l[j] \in Instruction /\ l[j] \in U
  <2>1. Spans(s, R[r], Z, U) BY <1>2, SpanIs
  <2> QED BY <2>1 DEF Spans
<1>4. /\ \A i, j \in 1 .. m : i < j => l[i] < l[j]
      /\ \A j \in 1 .. m - 1 : l[j + 1] = expected[l[j]]
  BY DEF Laid, RunsOf
<1> HIDE DEF l, m
<1>5. \A j \in 1 .. m : l[j] \in Nat /\ l[j] <= CodeEnd
  BY <1>3, TraceCaptureAssumption DEF Instruction
<1>6. Cardinality(s.members) = m
  <2> DEFINE K == 1 .. m
  <2>1. IsFiniteSet(K) /\ Cardinality(K) = m
    <3>1. 1 \in Int /\ m \in Int /\ m - 1 + 1 = m /\ 1 <= m BY <1>3
    <3> QED BY <1>3, <3>1, FS_Interval
  <2>2. K \subseteq Int /\ \A k \in K : l[k] \in Int BY <1>3, <1>5
  <2>3. /\ \A k \in K : l[k] \in s.members
        /\ \A x \in s.members : \E k \in K : l[k] = x
    BY <1>3
  <2>4. Grows(l, K, s.members) BY <1>4, <2>1, <2>2, <2>3 DEF Grows
  <2> HIDE DEF K
  <2> QED BY <2>1, <2>4, AscendMaps
<1>7. \A i \in 2 .. m : i - 1 \in 1 .. m /\ l[i] = l[i - 1] + code[l[i - 1]]
  <2> SUFFICES ASSUME NEW i \in 2 .. m PROVE i - 1 \in 1 .. m /\ l[i] = l[i - 1] + code[l[i - 1]]
    OBVIOUS
  <2>1. i - 1 \in 1 .. m - 1 /\ i - 1 \in 1 .. m /\ (i - 1) + 1 = i BY <1>3
  <2>2. l[i] = expected[l[i - 1]] BY <1>4, <2>1
  <2> QED BY <1>3, <2>1, <2>2
<1> DEFINE a == s.start
           Iter(g) == g = [i \in 1 .. m |-> IF i = 1 THEN a
                              ELSE IF g[i - 1] > CodeEnd THEN CodeEnd + 1
                              ELSE g[i - 1] + code[g[i - 1]]]
           it == CHOOSE g : Iter(g)
<1>8. Iter(it)
  <2> DEFINE g == [i \in 1 .. m |-> l[i]]
  <2>1. ASSUME NEW i \in 1 .. m
        PROVE  g[i] = IF i = 1 THEN a
                      ELSE IF g[i - 1] > CodeEnd THEN CodeEnd + 1 ELSE g[i - 1] + code[g[i - 1]]
    <3>1. CASE i = 1 BY <1>3, <3>1
    <3>2. CASE i # 1
      <4>1. i \in 2 .. m /\ i - 1 \in 1 .. m BY <1>3, <3>2
      <4>2. g[i] = l[i] /\ g[i - 1] = l[i - 1] BY <4>1
      <4>3. l[i] = l[i - 1] + code[l[i - 1]] BY <1>7, <4>1
      <4>4. ~ (l[i - 1] > CodeEnd) BY <1>5, <4>1, TraceCaptureAssumption
      <4> HIDE DEF g
      <4> QED BY <3>2, <4>2, <4>3, <4>4
    <3> QED BY <3>1, <3>2
  <2>2. Iter(g) BY <2>1
  <2> HIDE DEF Iter, g
  <2> QED BY <2>2
<1>9. Swept(a, m) = {it[i] : i \in 1 .. m} \cap Instruction BY DEF Swept
<1> HIDE DEF it
<1> DEFINE S == {k \in Nat : k + 1 <= m => it[k + 1] = l[k + 1]}
<1>10. 0 \in S
  <2>1. 1 \in 1 .. m BY <1>3
  <2>2. it[1] = a BY <1>8, <2>1
  <2> QED BY <1>3, <2>2
<1>11. \A k \in Nat : k \in S => k + 1 \in S
  <2> SUFFICES ASSUME NEW k \in Nat, k \in S, (k + 1) + 1 <= m PROVE it[(k + 1) + 1] = l[(k + 1) + 1]
    OBVIOUS
  <2> DEFINE i == (k + 1) + 1
  <2>1. i \in 1 .. m /\ i \in 2 .. m /\ i # 1 /\ i - 1 = k + 1 /\ k + 1 \in 1 .. m /\ k + 1 <= m BY <1>3
  <2>2. it[k + 1] = l[k + 1] BY <2>1
  <2> HIDE DEF i
  <2>3. it[i] = IF it[i - 1] > CodeEnd THEN CodeEnd + 1 ELSE it[i - 1] + code[it[i - 1]]
    BY <1>8, <2>1
  <2>4. ~ (l[k + 1] > CodeEnd) BY <1>5, <2>1, TraceCaptureAssumption
  <2>5. l[i] = l[k + 1] + code[l[k + 1]] BY <1>7, <2>1
  <2>6. it[i] = l[i] BY <2>1, <2>2, <2>3, <2>4, <2>5
  <2> QED BY <2>6 DEF i
<1>12. \A i \in 1 .. m : it[i] = l[i]
  <2> HIDE DEF S
  <2>1. Nat \subseteq S BY <1>10, <1>11, NaturalsAreReached
  <2> SUFFICES ASSUME NEW i \in 1 .. m PROVE it[i] = l[i] OBVIOUS
  <2>2. i - 1 \in Nat /\ (i - 1) + 1 = i /\ i <= m BY <1>3
  <2>3. i - 1 \in S BY <2>1, <2>2
  <2> QED BY <2>2, <2>3 DEF S
<1>13. {it[i] : i \in 1 .. m} \cap Instruction = s.members
  <2>1. {it[i] : i \in 1 .. m} = {l[i] : i \in 1 .. m} BY <1>12
  <2>2. s.members \subseteq Instruction BY <1>3
  <2> QED BY <1>3, <2>1, <2>2
<1> QED BY <1>6, <1>9, <1>13

\* The executions of the spans add up to all that ran.
LEMMA ExecutionsAddUp ==
  ASSUME log \in Seq(Instruction),
         NEW Z, NEW R, NEW U, NEW expected, NEW counts, Laid(Z, R, U, expected, counts),
         U = {log[i] : i \in Shown},
         \A a \in Instruction : counts[a] = Cardinality({i \in Shown : log[i] = a})
  PROVE  MapThenSumSet(LAMBDA block : block.executions, Z) = Cardinality(Shown)
<1> DEFINE P1 == [a \in Instruction |-> {i \in Shown : log[i] = a}]
           P2 == [s \in Z |-> {i \in Shown : log[i] \in s.members}]
<1>1. IsFiniteSet(Shown) BY ShownFacts
<1>2. /\ IsFiniteSet(Z) /\ UNION {s.members : s \in Z} = U
      /\ \A s, t \in Z : s = t \/ s.members \cap t.members = {}
      /\ \A s \in Z : s.members \subseteq U
  BY SpansPartition
<1>3. IsFiniteSet(U) /\ U \subseteq Instruction BY DEF Laid
<1>4. \A a \in Instruction : IsFiniteSet(P1[a])
  <2> SUFFICES ASSUME NEW a \in Instruction PROVE IsFiniteSet({i \in Shown : log[i] = a}) OBVIOUS
  <2>1. {i \in Shown : log[i] = a} \in SUBSET Shown OBVIOUS
  <2> QED BY <1>1, <2>1, FS_Subset
<1>5. \A s \in Z : IsFiniteSet(P2[s])
  <2> SUFFICES ASSUME NEW s \in Z PROVE IsFiniteSet({i \in Shown : log[i] \in s.members}) OBVIOUS
  <2>1. {i \in Shown : log[i] \in s.members} \in SUBSET Shown OBVIOUS
  <2> QED BY <1>1, <2>1, FS_Subset
<1>6. ASSUME NEW s \in Z PROVE s.executions = Cardinality(P2[s])
  <2>1. PICK r \in 1 .. Len(R) : s = Span(R[r], counts) BY SpansAreRuns
  <2> DEFINE M == s.members
  <2>2. s.executions = Summed(counts, M)
    <3> DEFINE u == R[r]
    <3> HIDE DEF u
    <3>1. Span(u, counts).executions = Summed(counts, Span(u, counts).members) BY DEF Span, Summed
    <3> QED BY <2>1, <3>1 DEF u
  <2>3. M \in SUBSET U /\ M \subseteq Instruction BY <1>2, <1>3
  <2>4. IsFiniteSet(M) BY <1>3, <2>3, FS_Subset
  <2> HIDE DEF M
  <2>5. Parted(M, P1)
    <3>1. \A x, y \in M : x # y => P1[x] \cap P1[y] = {} BY <2>3
    <3> QED BY <1>4, <2>3, <2>4, <3>1 DEF Parted
  <2>6. \A a \in M : counts[a] = Cardinality(P1[a]) BY <2>3
  <2>7. Joint(M, P1) = {i \in Shown : log[i] \in M}
    <3>1. Joint(M, P1) \subseteq {i \in Shown : log[i] \in M}
      BY <2>3 DEF Joint
    <3>2. ASSUME NEW i \in Shown, log[i] \in M PROVE i \in Joint(M, P1)
      <4>1. i \in P1[log[i]] BY <2>3, <3>2
      <4> QED BY <3>2, <4>1 DEF Joint
    <3> QED BY <3>1, <3>2
  <2> HIDE DEF P1
  <2>8. Summed(counts, M) = Cardinality(Joint(M, P1))
    BY <2>5, <2>6, SumOfParts
  <2> QED BY <2>2, <2>7, <2>8 DEF M
<1>7. Parted(Z, P2)
  <2>1. ASSUME NEW s \in Z, NEW t \in Z, s # t PROVE P2[s] \cap P2[t] = {}
    <3>1. s.members \cap t.members = {} BY <1>2, <2>1
    <3> QED BY <3>1
  <2> HIDE DEF P2
  <2> QED BY <1>2, <1>5, <2>1 DEF Parted
<1>8. Joint(Z, P2) = Shown
  <2>1. \A i \in Shown : \E s \in Z : log[i] \in s.members
    <3>1. \A x \in U : \E s \in Z : x \in s.members BY <1>2
    <3>2. \A i \in Shown : log[i] \in U OBVIOUS
    <3> QED BY <3>1, <3>2
  <2>2. ASSUME NEW i \in Shown PROVE i \in Joint(Z, P2)
    <3>1. PICK s \in Z : log[i] \in s.members BY <2>1
    <3>2. i \in P2[s] BY <3>1
    <3> QED BY <3>2 DEF Joint
  <2>3. Joint(Z, P2) \subseteq Shown BY DEF Joint
  <2> QED BY <2>2, <2>3
<1> HIDE DEF P2
<1>9. \A s \in Z : s.executions = Cardinality(P2[s]) BY <1>6
<1>10. MapThenSumSet(LAMBDA block : block.executions, Z) = Cardinality(Joint(Z, P2))
  BY ONLY <1>7, <1>9, SumOfExecutions
<1> QED BY <1>8, <1>10

\* What the lines are counted and listed as is what the log shows.
LEMMA CountsAreTrue ==
  ASSUME NEW listed, NEW g, Echoed(listed, g), log \in Seq(Instruction)
  PROVE  /\ ToSet(listed) = {log[i] : i \in Shown}
         /\ IsFiniteSet(ToSet(listed)) /\ ToSet(listed) \subseteq Instruction
         /\ \A a \in Instruction : Counts(listed)[a] = Cardinality({i \in Shown : log[i] = a})
<1>1. /\ Len(listed) \in Nat /\ DOMAIN listed = 1 .. Len(listed)
      /\ \A k \in 1 .. Len(listed) : g[k] \in Shown /\ g[k] \in Int /\ listed[k] = log[g[k]]
      /\ \A j, k \in 1 .. Len(listed) : j < k => g[j] < g[k]
      /\ \A i \in Shown : \E k \in 1 .. Len(listed) : g[k] = i
  BY DEF Echoed
<1> DEFINE D == 1 .. Len(listed)
<1>2. IsFiniteSet(D) /\ D \subseteq Int
  <2>1. 1 \in Int /\ Len(listed) \in Int BY <1>1
  <2> QED BY <2>1, FS_Interval
<1>3. \A i \in Shown : log[i] \in Instruction BY ShownFacts
<1>4. ToSet(listed) = {listed[k] : k \in D} BY <1>1 DEF ToSet
<1>5. ToSet(listed) = {log[i] : i \in Shown}
  <2>1. \A k \in D : \E i \in Shown : listed[k] = log[i] BY <1>1
  <2>2. \A i \in Shown : \E k \in D : listed[k] = log[i] BY <1>1
  <2> HIDE DEF D
  <2> QED BY <1>4, <2>1, <2>2
<1>6. IsFiniteSet(ToSet(listed))
  <2> DEFINE h == [k \in D |-> listed[k]]
             T == ToSet(listed)
  <2>1. h \in Surjection(D, T) BY <1>4 DEF Surjection
  <2> HIDE DEF h, D, T
  <2>2. IsFiniteSet(T) BY <1>2, <2>1, FS_Surjection
  <2> QED BY <2>2 DEF T
<1>7. ASSUME NEW a \in Instruction
      PROVE  Counts(listed)[a] = Cardinality({i \in Shown : log[i] = a})
  <2> DEFINE K == {k \in D : listed[k] = a}
             Q == {i \in Shown : log[i] = a}
  <2>1. IsFiniteSet(K)
    <3>1. K \in SUBSET D OBVIOUS
    <3> HIDE DEF K, D
    <3> QED BY <1>2, <3>1, FS_Subset
  <2>2. K \subseteq Int /\ \A k \in K : g[k] \in Int BY <1>1
  <2>3. \A j, k \in K : j < k => g[j] < g[k] BY <1>1
  <2>4. \A k \in K : g[k] \in Q BY <1>1
  <2>5. \A x \in Q : \E k \in K : g[k] = x BY <1>1
  <2>6. Counts(listed)[a] = Cardinality(K) BY <1>1 DEF Counts
  <2> HIDE DEF K, Q
  <2>7. Grows(g, K, Q) BY <2>1, <2>2, <2>3, <2>4, <2>5 DEF Grows
  <2>8. Cardinality(Q) = Cardinality(K) BY <2>7, AscendMaps
  <2> QED BY <2>6, <2>8 DEF Q
<1> QED BY <1>3, <1>5, <1>6, <1>7

\* Without a filter the neighbours in the lines ran one after the other.
LEMMA EdgesAreTrue ==
  ASSUME NEW listed, NEW g, Echoed(listed, g), log \in Seq(Instruction), capture.filter = Whole,
         NEW a \in Instruction, NEW b \in Instruction
  PROVE  Edges(listed)[<<a, b>>]
           = Cardinality({i \in Shown : i + 1 \in Shown /\ log[i] = a /\ log[i + 1] = b})
<1>1. /\ Len(listed) \in Nat
      /\ \A k \in 1 .. Len(listed) : g[k] \in Shown /\ g[k] \in Int /\ listed[k] = log[g[k]]
      /\ \A j, k \in 1 .. Len(listed) : j < k => g[j] < g[k]
      /\ \A i \in Shown : \E k \in 1 .. Len(listed) : g[k] = i
  BY DEF Echoed
<1> DEFINE n == Len(listed)
<1>2. Len(log) \in Nat /\ DOMAIN log = 1 .. Len(log) /\ \A i \in 1 .. Len(log) : log[i] \in Instruction
  BY LenProperties, ElementOfSeq
<1>3. \A x \in Instruction : Passes(x, Whole)
  <2>1. \A x \in Instruction : x >= 0 /\ x < CodeEnd + 1 BY TraceCaptureAssumption DEF Instruction
  <2> QED BY <2>1 DEF Passes, Whole
<1>4. \A i \in Int : i \in Shown <=> i \in 1 .. Len(log) /\ i > Len(log) - EntryLimit
  BY <1>2, <1>3 DEF Shown
<1>5. EntryLimit \in Nat BY TraceCaptureAssumption
<1>6. ASSUME NEW i \in 2 .. n PROVE i - 1 \in 1 .. n /\ i \in 1 .. n /\ g[i] = g[i - 1] + 1
  <2>1. i - 1 \in 1 .. n /\ i \in 1 .. n /\ i - 1 < i BY <1>1
  <2>2. /\ g[i - 1] \in Shown /\ g[i] \in Shown /\ g[i - 1] \in Int /\ g[i] \in Int
        /\ g[i - 1] < g[i]
    BY <1>1, <2>1
  <2>3. ASSUME g[i] # g[i - 1] + 1 PROVE FALSE
    <3> DEFINE x == g[i - 1] + 1
    <3>1. x \in Int /\ g[i - 1] < x /\ x < g[i] BY <2>2, <2>3
    <3>2. x \in Shown
      <4>1. g[i - 1] \in 1 .. Len(log) /\ g[i - 1] > Len(log) - EntryLimit /\ g[i] \in 1 .. Len(log)
        BY <1>4, <2>2
      <4> HIDE DEF x
      <4>2. x \in 1 .. Len(log) /\ x > Len(log) - EntryLimit
        BY ONLY <1>2, <1>5, <2>2, <3>1, <4>1
      <4> QED BY <1>4, <3>1, <4>2
    <3> HIDE DEF x
    <3>3. PICK k \in 1 .. n : g[k] = x BY <1>1, <3>2
    <3>4. k < i - 1 \/ k = i - 1 \/ k = i \/ i < k BY <1>1
    <3>5. CASE k < i - 1
      <4>1. g[k] < g[i - 1] BY <1>1, <2>1, <3>5
      <4> QED BY <2>2, <3>1, <3>3, <4>1
    <3>6. CASE i < k
      <4>1. g[i] < g[k] BY <1>1, <2>1, <3>6
      <4> QED BY <2>2, <3>1, <3>3, <4>1
    <3> QED BY <2>2, <3>1, <3>3, <3>4, <3>5, <3>6
  <2> QED BY <2>1, <2>3
<1> DEFINE K == {i \in 2 .. n : listed[i - 1] = a /\ listed[i] = b}
           Q == {i \in Shown : i + 1 \in Shown /\ log[i] = a /\ log[i + 1] = b}
           h == [i \in K |-> g[i - 1]]
<1>7. Edges(listed)[<<a, b>>] = Cardinality(K) BY DEF Edges
<1>8. IsFiniteSet(K)
  <2> DEFINE D == 2 .. n
  <2>1. IsFiniteSet(D)
    <3>1. 2 \in Int /\ n \in Int BY <1>1
    <3> QED BY <3>1, FS_Interval
  <2>2. K \in SUBSET D OBVIOUS
  <2> HIDE DEF D, K
  <2> QED BY <2>1, <2>2, FS_Subset
<1>9. \A i \in K : i \in 2 .. n /\ listed[i - 1] = a /\ listed[i] = b OBVIOUS
<1>10. \A i \in 2 .. n : listed[i - 1] = a /\ listed[i] = b => i \in K OBVIOUS
<1>11. \A i \in K : h[i] = g[i - 1] OBVIOUS
<1>12. \A x : x \in Q <=> x \in Shown /\ x + 1 \in Shown /\ log[x] = a /\ log[x + 1] = b OBVIOUS
<1> HIDE DEF K, Q, h, n
<1>13. K \subseteq Int /\ \A k \in K : h[k] \in Int
  <2>1. \A i \in 2 .. n : g[i - 1] \in Int BY <1>1, <1>6 DEF n
  <2> QED BY <1>9, <1>11, <2>1
<1>14. \A j, k \in K : j < k => h[j] < h[k]
  <2> SUFFICES ASSUME NEW j \in K, NEW k \in K, j < k PROVE h[j] < h[k] OBVIOUS
  <2>1. j - 1 \in 1 .. n /\ k - 1 \in 1 .. n BY <1>6, <1>9
  <2>2. j - 1 < k - 1 BY <1>13
  <2>3. g[j - 1] < g[k - 1] BY <1>1, <2>1, <2>2 DEF n
  <2> QED BY <1>11, <2>3
<1>15. ASSUME NEW k \in K PROVE h[k] \in Q
  <2>1. k - 1 \in 1 .. n /\ k \in 1 .. n /\ g[k] = g[k - 1] + 1 BY <1>6, <1>9
  <2>2. /\ g[k - 1] \in Shown /\ g[k] \in Shown
        /\ listed[k - 1] = log[g[k - 1]] /\ listed[k] = log[g[k]]
    BY <1>1, <2>1 DEF n
  <2> QED BY <1>9, <1>11, <1>12, <2>1, <2>2
<1>16. ASSUME NEW x \in Q PROVE \E k \in K : h[k] = x
  <2>1. x \in Shown /\ x + 1 \in Shown /\ log[x] = a /\ log[x + 1] = b BY <1>12
  <2>2. PICK k \in 1 .. n : g[k] = x BY <1>1, <2>1 DEF n
  <2>3. PICK m \in 1 .. n : g[m] = x + 1 BY <1>1, <2>1 DEF n
  <2>4. n \in Nat /\ x \in Int BY <1>1, <2>2 DEF n
  <2>5. k < m
    <3>1. CASE m < k
      <4>1. g[m] < g[k] BY <1>1, <3>1 DEF n
      <4> QED BY <2>2, <2>3, <2>4, <4>1
    <3>2. k # m BY <2>2, <2>3, <2>4
    <3> QED BY <2>4, <3>1, <3>2
  <2>6. k + 1 \in 2 .. n /\ (k + 1) - 1 = k BY <2>4, <2>5
  <2>7. g[k + 1] = x + 1 /\ k + 1 \in 1 .. n BY <1>6, <2>2, <2>6
  <2>8. listed[k] = a /\ listed[k + 1] = b BY <1>1, <2>1, <2>2, <2>7 DEF n
  <2>9. k + 1 \in K BY <1>10, <2>6, <2>8
  <2> QED BY <1>11, <2>2, <2>6, <2>9
<1>17. Grows(h, K, Q) BY <1>8, <1>13, <1>14, <1>15, <1>16 DEF Grows
<1>18. Cardinality(Q) = Cardinality(K) BY <1>17, AscendMaps
<1> QED BY <1>7, <1>18 DEF Q

\* The report of a finished coverage capture, in the parts the properties are about.
Reported(g, R, B) ==
  LET listed == Filtered(Recent, capture.filter)
  IN /\ Echoed(listed, g)
     /\ report.counts = Counts(listed) /\ report.edges = Edges(listed)
     /\ Laid(report.ranges, R, ToSet(listed), NextAddress, report.counts)
     /\ Laid(report.blocks, B, ToSet(listed), FallThrough, report.counts)

LEMMA CoverageReported ==
  ASSUME CaptureInv, Finished("coverage")
  PROVE  \E g, R, B : Reported(g, R, B)
<1> DEFINE listed == Filtered(Recent, capture.filter)
           unique == ToSet(listed)
           R == Runs(Ascend(unique), NextAddress)
           B == Runs(Ascend(unique), FallThrough)
<1>1. log \in Seq(Instruction) BY DEF CaptureInv, CaptureTypes
<1>2. capture.phase = "done" /\ capture.kind = "coverage" BY DEF Finished
<1>3. capture.text = Recent BY <1>2 DEF CaptureInv, ReadBack, After, PastDecoding
<1>4. report = Coverage BY <1>2 DEF CaptureInv, ReportRight
<1>5. PICK g : Echoed(listed, g) BY <1>1, LinesAreShown
<1>6. /\ report.counts = Counts(listed) /\ report.edges = Edges(listed)
      /\ report.ranges = {Span(u, report.counts) : u \in ToSet(R)}
      /\ report.blocks = {Span(u, report.counts) : u \in ToSet(B)}
  BY <1>3, <1>4 DEF Coverage, NoReport
<1> HIDE DEF listed
<1>7. IsFiniteSet(unique) /\ unique \subseteq Instruction BY <1>1, <1>5, CountsAreTrue
<1> HIDE DEF unique
<1>8. RunsOf(R, unique, NextAddress) /\ RunsOf(B, unique, FallThrough) BY <1>7, RunsOfSet
<1> HIDE DEF R, B
<1>9. /\ Laid(report.ranges, R, unique, NextAddress, report.counts)
      /\ Laid(report.blocks, B, unique, FallThrough, report.counts)
  BY <1>6, <1>7, <1>8 DEF Laid
<1>10. Reported(g, R, B) BY <1>5, <1>6, <1>9 DEF Reported, unique, listed
<1> QED BY <1>10

LEMMA CoverageIsFaithful ==
  ASSUME CaptureInv
  PROVE  CoverageFaithful
<1> SUFFICES ASSUME Finished("coverage") PROVE CoverageFaithful BY DEF CoverageFaithful
<1> DEFINE unique == {log[i] : i \in Shown}
           listed == Filtered(Recent, capture.filter)
<1>1. log \in Seq(Instruction) BY DEF CaptureInv, CaptureTypes
<1>2. PICK g, R, B : Reported(g, R, B) BY CoverageReported
<1>3. /\ Echoed(listed, g) /\ report.counts = Counts(listed) /\ report.edges = Edges(listed)
      /\ Laid(report.ranges, R, ToSet(listed), NextAddress, report.counts)
      /\ Laid(report.blocks, B, ToSet(listed), FallThrough, report.counts)
  BY <1>2 DEF Reported
<1> HIDE DEF listed
<1>4. /\ ToSet(listed) = unique
      /\ \A a \in Instruction : report.counts[a] = Cardinality({i \in Shown : log[i] = a})
  BY <1>1, <1>3, CountsAreTrue
<1>5. UNION {range.start..range.end : range \in report.ranges} = unique
  <2>1. UNION {s.members : s \in report.ranges} = ToSet(listed) BY <1>3, SpansPartition
  <2>2. \A s \in report.ranges : s.members = s.start .. s.end BY <1>3, RangesAreWhole
  <2>3. UNION {s.members : s \in report.ranges} = UNION {range.start..range.end : range \in report.ranges}
    BY <2>2
  <2> QED BY <1>4, <2>1, <2>3
<1>6. \A one, other \in report.ranges : one = other \/ one.end + 1 < other.start \/ other.end + 1 < one.start
  BY <1>3, RangesAreWhole
<1>7. MapThenSumSet(LAMBDA block : block.executions, report.blocks) = Cardinality(Shown)
  <2>1. Laid(report.blocks, B, unique, FallThrough, report.counts) BY <1>3, <1>4
  <2> QED BY <1>1, <1>4, <2>1, ExecutionsAddUp
<1>8. capture.filter = Whole =>
        \A a, b \in Instruction :
          report.edges[<<a, b>>] = Cardinality({i \in Shown : i + 1 \in Shown /\ log[i] = a /\ log[i + 1] = b})
  <2> SUFFICES ASSUME capture.filter = Whole, NEW a \in Instruction, NEW b \in Instruction
               PROVE  report.edges[<<a, b>>]
                        = Cardinality({i \in Shown : i + 1 \in Shown /\ log[i] = a /\ log[i + 1] = b})
    OBVIOUS
  <2>1. Edges(listed)[<<a, b>>]
          = Cardinality({i \in Shown : i + 1 \in Shown /\ log[i] = a /\ log[i + 1] = b})
    BY <1>1, <1>3, EdgesAreTrue
  <2> QED BY <1>3, <2>1
<1> HIDE DEF unique
<1> QED BY <1>4, <1>5, <1>6, <1>7, <1>8 DEF CoverageFaithful, unique

LEMMA BlocksAreStraight ==
  ASSUME CaptureInv
  PROVE  StraightBlocks
<1> SUFFICES ASSUME Finished("coverage"), capture.intact PROVE StraightBlocks BY DEF StraightBlocks
<1> DEFINE unique == {log[i] : i \in Shown}
           listed == Filtered(Recent, capture.filter)
<1>1. log \in Seq(Instruction) BY DEF CaptureInv, CaptureTypes
<1>2. PICK g, R, B : Reported(g, R, B) BY CoverageReported
<1>3. Echoed(listed, g) /\ Laid(report.blocks, B, ToSet(listed), FallThrough, report.counts)
  BY <1>2 DEF Reported
<1>4. \A a \in ToSet(listed) : capture.lengths[a] = code[a]
  <2>1. capture.phase = "done" BY DEF Finished
  <2>2. capture.text = Recent BY <2>1 DEF CaptureInv, ReadBack, After, PastDecoding
  <2> QED BY <2>1, <2>2 DEF CaptureInv, DecodedRight, After, PastDecoding
<1> HIDE DEF listed
<1>5. ToSet(listed) = unique /\ ToSet(listed) \subseteq Instruction BY <1>1, <1>3, CountsAreTrue
<1> HIDE DEF unique
<1>6. \A a \in unique : FallThrough[a] = a + code[a] BY <1>4, <1>5 DEF FallThrough
<1>7. Laid(report.blocks, B, unique, FallThrough, report.counts) BY <1>3, <1>5
<1>8. /\ UNION {block.members : block \in report.blocks} = unique
      /\ \A one, other \in report.blocks : one = other \/ one.members \cap other.members = {}
      /\ \A s \in report.blocks : s.members \subseteq unique /\ s.end \in s.members
  BY <1>7, SpansPartition
<1>9. ASSUME NEW block \in report.blocks
      PROVE  /\ block.members = Swept(block.start, Cardinality(block.members))
             /\ block.end = Max(block.members)
             /\ LET later == {a \in unique : a > block.end}
                IN later # {} => Min(later) # block.end + code[block.end]
  <2>1. block.members = Swept(block.start, Cardinality(block.members)) BY <1>6, <1>7, SpansAreSwept
  <2>2. block.end = Max(block.members) /\ Maximal(block, unique, FallThrough)
    BY <1>7, SpansAreMaximal
  <2>3. FallThrough[block.end] = block.end + code[block.end] BY <1>6, <1>8
  <2> QED BY <2>1, <2>2, <2>3 DEF Maximal
<1> QED BY <1>8, <1>9 DEF StraightBlocks, unique

(***************************************************************************)
(* A coverage report is true for every program, every filter and every     *)
(* limit: every execution is counted once, in the counts, in one range, in *)
(* one block and, without a filter, in the edges                           *)
(* (tools_phase5.go:2597-2715, 2794-2923).                                 *)
(***************************************************************************)
THEOREM CoveragesAreFaithful == TraceCaptureSpec => []CoverageFaithful
<1>1. CaptureInv => CoverageFaithful BY CoverageIsFaithful
<1> QED BY <1>1, CaptureBegins, CaptureSteps, PTL DEF TraceCaptureSpec

(***************************************************************************)
(* Blocks are straight-line code for every program, every filter and every *)
(* limit, as long as no command failed and nothing rewrote the code: what  *)
(* a disassembly from the start of a block lists, and none could have been *)
(* extended (tools_cpu.go:361-410, tools_phase5.go:2925-2973).             *)
(***************************************************************************)
THEOREM BlocksAreInstructionAware == TraceCaptureSpec => []StraightBlocks
<1>1. CaptureInv => StraightBlocks BY BlocksAreStraight
<1> QED BY <1>1, CaptureBegins, CaptureSteps, PTL DEF TraceCaptureSpec

(***************************************************************************)
(* The bounds of a window: the hits of a watchpoint, the mishaps, and the  *)
(* edges of an answer.                                                     *)
(***************************************************************************)
EdgeCounts == [Instruction \X Instruction -> Nat]

Bounded ==
  /\ \A w \in Trigger : triggers[w].hits \in 0 .. MaxHits
  /\ report.edges \in EdgeCounts /\ mishaps \in 0 .. MaxMishaps

\* A watchpoint is struck, armed, disarmed or removed; only being struck counts.
LEMMA HitsStayBounded ==
  ASSUME CaptureInv, Bounded, [TraceCaptureNext]_captureVars
  PROVE  \A w \in Trigger : triggers'[w].hits \in 0 .. MaxHits
<1>1. triggers \in [Trigger -> [placed : BOOLEAN, armed : BOOLEAN, hits : Nat]] /\ MaxHits \in Nat
  BY TraceCaptureAssumption DEF CaptureInv, CaptureTypes
<1>2. CASE UNCHANGED triggers BY <1>2 DEF Bounded
<1>3. ASSUME NEW next \in Instruction, NEW hit, Retire(next, hit), NEW w \in Trigger
      PROVE  triggers'[w].hits \in 0 .. MaxHits
  <2>1. triggers' = [x \in Trigger |-> IF x \in Struck(hit)
                                       THEN [triggers[x] EXCEPT !.hits = @ + 1] ELSE triggers[x]]
        /\ \A x \in Struck(hit) : triggers[x].hits < MaxHits
    BY <1>3 DEF Retire
  <2>2. triggers[w].hits \in 0 .. MaxHits BY DEF Bounded
  <2>3. CASE w \in Struck(hit)
    <3>1. triggers'[w] = [triggers[w] EXCEPT !.hits = @ + 1] BY <2>1, <2>3
    <3>2. triggers'[w].hits = triggers[w].hits + 1 BY <1>1, <3>1
    <3>3. triggers[w].hits < MaxHits BY <2>1, <2>3
    <3> QED BY ONLY <1>1, <2>2, <3>2, <3>3
  <2>4. CASE w \notin Struck(hit) BY <2>1, <2>2, <2>4
  <2> QED BY <2>3, <2>4
<1>4. ASSUME NEW x, triggers' = [triggers EXCEPT ![x].placed = FALSE]
                    \/ triggers' = [triggers EXCEPT ![x].armed = FALSE]
                    \/ triggers' = [triggers EXCEPT ![x].armed = TRUE]
      PROVE  \A w \in Trigger : triggers'[w].hits \in 0 .. MaxHits
  <2>1. \A w \in Trigger : triggers'[w].hits = triggers[w].hits BY <1>1, <1>4
  <2> QED BY <2>1 DEF Bounded
<1>5. ASSUME NEW w \in Trigger, RemoveTrigger(w)
      PROVE  \A v \in Trigger : triggers'[v].hits \in 0 .. MaxHits
  <2>1. triggers' = [triggers EXCEPT ![w].placed = FALSE] BY <1>5 DEF RemoveTrigger
  <2> QED BY <1>4, <2>1
<1>6. ASSUME NEW kind, NEW filter, NEW w, BeginCapture(kind, filter, w)
      PROVE  \A v \in Trigger : triggers'[v].hits \in 0 .. MaxHits
  <2>1. triggers' = triggers \/ triggers' = [triggers EXCEPT ![w].armed = FALSE]
    BY <1>6 DEF BeginCapture
  <2> QED BY <1>2, <1>4, <2>1
<1>7. CASE Rearm
  <2>1. triggers' = [triggers EXCEPT ![capture.trigger].armed = TRUE] BY <1>7 DEF Rearm
  <2> QED BY <1>4, <2>1
<1>8. (\E a \in Instruction, length \in Lengths : Rewrite(a, length)) \/ PauseOrResume => UNCHANGED triggers
  BY DEF Rewrite, PauseOrResume
<1>9. CloseWindow \/ ComposeCoverage \/ ComposeTrace => UNCHANGED triggers
  BY DEF CloseWindow, ComposeCoverage, ComposeTrace, Compose
<1>10. (\E ok \in BOOLEAN : \/ fetchInstructionLengths(ok) \/ fetchInstructionInfo(ok)
                            \/ fetchCPUCurrentPC(ok) \/ fetchWatchpointInfo(ok) \/ PushEvent(ok))
         => UNCHANGED triggers
  BY DEF fetchInstructionLengths, fetchInstructionInfo, fetchCPUCurrentPC, fetchWatchpointInfo, PushEvent
<1>11. UNCHANGED captureVars => UNCHANGED triggers BY DEF captureVars
<1> QED
  BY <1>2, <1>3, <1>5, <1>6, <1>7, <1>8, <1>9, <1>10, <1>11
  DEF TraceCaptureNext, BeginTrace, BeginCoverage, BeginWatchpoint

LEMMA MishapsStayBounded ==
  ASSUME Bounded, [TraceCaptureNext]_captureVars
  PROVE  mishaps' \in 0 .. MaxMishaps
<1>1. mishaps \in 0 .. MaxMishaps /\ MaxMishaps \in Nat BY TraceCaptureAssumption DEF Bounded
<1>2. CASE mishaps' = mishaps BY <1>1, <1>2
<1>3. CASE mishaps' = mishaps + 1 /\ mishaps < MaxMishaps BY ONLY <1>1, <1>3
<1>4. ASSUME NEW ok \in BOOLEAN, CanFail(ok), Outage(ok)
      PROVE  mishaps' = mishaps \/ (mishaps' = mishaps + 1 /\ mishaps < MaxMishaps)
  BY <1>4 DEF CanFail, Outage
<1>5. (\E a \in Instruction, length \in Lengths : Rewrite(a, length)) \/ PauseOrResume
        \/ (\E w \in Trigger : RemoveTrigger(w)) => mishaps' = mishaps + 1 /\ mishaps < MaxMishaps
  BY DEF Rewrite, PauseOrResume, RemoveTrigger, Toggled
<1>6. (\E ok \in BOOLEAN : \/ fetchInstructionLengths(ok) \/ fetchInstructionInfo(ok)
                            \/ fetchCPUCurrentPC(ok) \/ fetchWatchpointInfo(ok) \/ PushEvent(ok))
         => \E ok \in BOOLEAN : CanFail(ok) /\ Outage(ok)
  BY DEF fetchInstructionLengths, fetchInstructionInfo, fetchCPUCurrentPC, fetchWatchpointInfo, PushEvent
<1>7. \A kind, filter, w : BeginCapture(kind, filter, w) => mishaps' = mishaps BY DEF BeginCapture
<1>8. Rearm \/ CloseWindow \/ ComposeCoverage \/ ComposeTrace \/ UNCHANGED captureVars => mishaps' = mishaps
  BY DEF Rearm, CloseWindow, ComposeCoverage, ComposeTrace, Compose, captureVars
<1>9. \A next, hit : Retire(next, hit) => mishaps' = mishaps BY DEF Retire
<1> QED
  BY <1>2, <1>3, <1>4, <1>5, <1>6, <1>7, <1>8, <1>9
  DEF TraceCaptureNext, BeginTrace, BeginCoverage, BeginWatchpoint

LEMMA EdgesAreCounts ==
  ASSUME CaptureInv, capture.phase \in After
  PROVE  Coverage.edges \in EdgeCounts
<1> DEFINE lines == Filtered(capture.text, capture.filter)
           next(step) == {i \in 2 .. Len(lines) : lines[i - 1] = step[1] /\ lines[i] = step[2]}
<1>1. log \in Seq(Instruction) /\ capture.text = Recent
  BY DEF CaptureInv, CaptureTypes, ReadBack
<1>2. PICK g : Echoed(lines, g) BY <1>1, LinesAreShown
<1>3. Len(lines) \in Nat BY <1>2 DEF Echoed
<1>4. Coverage.edges = Edges(lines) BY DEF Coverage, NoReport
<1>5. Edges(lines) = [step \in Instruction \X Instruction |-> Cardinality(next(step))]
  BY DEF Edges
<1> HIDE DEF lines
<1>6. IsFiniteSet(2 .. Len(lines))
  <2>1. 2 \in Int /\ Len(lines) \in Int BY <1>3
  <2> QED BY <2>1, FS_Interval
<1>7. \A step \in Instruction \X Instruction : next(step) \in SUBSET (2 .. Len(lines)) OBVIOUS
<1> HIDE DEF next
<1>8. \A step \in Instruction \X Instruction : Cardinality(next(step)) \in Nat
  BY <1>6, <1>7, FS_Subset, FS_CardinalityType
<1> QED BY <1>4, <1>5, <1>8 DEF EdgeCounts

LEMMA AnswersCountEdges ==
  ASSUME CaptureInv, Bounded, [TraceCaptureNext]_captureVars
  PROVE  report'.edges \in EdgeCounts
<1>1. NoReport.edges \in EdgeCounts BY DEF NoReport, EdgeCounts
<1>2. \A list : [NoReport EXCEPT !.rows = list].edges = NoReport.edges BY DEF NoReport
<1>3. CASE report' = report BY <1>3 DEF Bounded
<1>4. CASE ComposeCoverage
  <2>1. report' = Coverage /\ capture.phase \in After
    BY <1>4 DEF ComposeCoverage, Compose, After
  <2> QED BY <2>1, EdgesAreCounts
<1>5. CASE ComposeTrace
  <2>1. report' = [NoReport EXCEPT !.rows = Rows(capture.text, capture.filter, capture.lengths)]
    BY <1>5 DEF ComposeTrace, Compose
  <2> QED BY <1>1, <1>2, <2>1
<1>6. ASSUME NEW ok \in BOOLEAN, PushEvent(ok) PROVE report'.edges \in EdgeCounts
  <2>1. capture.phase = "hits" /\ report' = [report EXCEPT !.event = {DebugEvent(ok)}]
    BY <1>6 DEF PushEvent
  <2>2. report = [NoReport EXCEPT !.rows = Rows(capture.text, capture.filter, capture.lengths)]
    BY <2>1 DEF CaptureInv, ReportRight
  <2>3. "event" \in DOMAIN report /\ "edges" \in DOMAIN report BY <2>2 DEF NoReport
  <2>4. report'.edges = report.edges BY <2>1, <2>2 DEF NoReport
  <2> QED BY <2>4 DEF Bounded
<1>7. (\E a \in Instruction, length \in Lengths : Rewrite(a, length)) \/ PauseOrResume
        \/ (\E w \in Trigger : RemoveTrigger(w)) => report' = report
  BY DEF Rewrite, PauseOrResume, RemoveTrigger, Toggled
<1>8. (\E ok \in BOOLEAN : \/ fetchInstructionLengths(ok) \/ fetchInstructionInfo(ok)
                            \/ fetchCPUCurrentPC(ok) \/ fetchWatchpointInfo(ok))
         => report' = report
  BY DEF fetchInstructionLengths, fetchInstructionInfo, fetchCPUCurrentPC, fetchWatchpointInfo
<1>9. \A kind, filter, w : BeginCapture(kind, filter, w) => report' = report BY DEF BeginCapture
<1>10. Rearm \/ CloseWindow \/ UNCHANGED captureVars => report' = report
  BY DEF Rearm, CloseWindow, captureVars
<1>11. \A next, hit : Retire(next, hit) => report' = report BY DEF Retire
<1> QED
  BY <1>3, <1>4, <1>5, <1>6, <1>7, <1>8, <1>9, <1>10, <1>11
  DEF TraceCaptureNext, BeginTrace, BeginCoverage, BeginWatchpoint

\* A window's types: no watchpoint is hit, and nothing goes wrong, more often than the bounds
\* say, and the edges of an answer are counts (tools_phase5.go:2202-2257, 2794-2923).
THEOREM TraceCapturesAreTyped == TraceCaptureSpec => []TraceCaptureTypeOK
<1>1. TraceCaptureInit => Bounded
  <2> SUFFICES ASSUME TraceCaptureInit PROVE Bounded OBVIOUS
  <2>1. triggers = [w \in Trigger |-> [placed |-> TRUE, armed |-> TRUE, hits |-> 0]]
        /\ report = NoReport /\ mishaps = 0
    BY DEF TraceCaptureInit, TraceCaptureStart
  <2>2. MaxHits \in Nat /\ MaxMishaps \in Nat BY TraceCaptureAssumption
  <2>3. NoReport.edges \in EdgeCounts BY DEF NoReport, EdgeCounts
  <2> QED BY <2>1, <2>2, <2>3 DEF Bounded
<1>2. CaptureInv /\ Bounded /\ [TraceCaptureNext]_captureVars => Bounded'
  BY HitsStayBounded, MishapsStayBounded, AnswersCountEdges DEF Bounded
<1>3. CaptureInv /\ Bounded => TraceCaptureTypeOK
  BY DEF CaptureInv, CaptureTypes, Bounded, EdgeCounts, After, PastDecoding, TraceCaptureTypeOK
<1> QED BY <1>1, <1>2, <1>3, CaptureBegins, CaptureSteps, PTL DEF TraceCaptureSpec

=============================================================================
