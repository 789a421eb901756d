----------------------------- MODULE TraceStore -----------------------------
(***************************************************************************)
(* The server's side of a trace session (internal/tracing/session.go,      *)
(* access.go, manifest.go and the parsing loop of tools_trace_session.go)  *)
(* as operators over a session object. Only the per-access stream is here; *)
(* the execution stream is parsed by a twin of the same code.              *)
(*                                                                         *)
(* The engine numbers its access records 1, 2, ... for the lifetime of its *)
(* process. A line is two cells, because a chunk may end inside it: record *)
(* r is 2r-1, its beginning, and 2r, its rest with the line feed.          *)
(***************************************************************************)
EXTENDS SequencesExt, Integers

CONSTANTS
  MaxEvents,   \* max_events, the capacity of the ring
  PageLimit    \* the limit of an event page

ASSUME StoreAssumption == {MaxEvents, PageLimit} \subseteq Nat \ {0}

Cells(from, to) == [i \in 1 .. 2 * (to - from + 1) |-> 2 * (from - 1) + i]
Record(cell) == (cell + 1) \div 2
EndsLine(cell) == cell % 2 = 0

\* fed is every record that entered the ring, so a record's StoreSequence is its
\* index; the ring holds the last count of them. cseg and carry are the partial line
\* kept between drains. clean is history: no collection into this object overlapped
\* another or lost a chunk.
NewSession(id, mode) ==
  [id |-> id, mode |-> mode, stopped |-> FALSE, fed |-> <<>>, count |-> 0,
   dropped |-> 0, last |-> 0, gaps |-> 0, malformed |-> 0, unread |-> 0,
   cseg |-> 0, carry |-> <<>>, clean |-> TRUE]

(***************************************************************************)
(* Parsing. A line pieced together from two different lines has another    *)
(* number of fields and is malformed, unless both were cut inside the      *)
(* sequence number: then it is misread (0 stands for the wrong number).    *)
(***************************************************************************)
ParseCell(parsed, cell, misread) ==
  LET line == Append(parsed.line, cell)
  IN  IF ~EndsLine(cell) THEN [parsed EXCEPT !.line = line]
      ELSE IF line = Cells(Record(cell), Record(cell))
      THEN [parsed EXCEPT !.line = <<>>, !.events = Append(@, Record(cell))]
      ELSE IF misread
      THEN [parsed EXCEPT !.line = <<>>, !.events = Append(@, 0)]
      ELSE [parsed EXCEPT !.line = <<>>, !.malformed = @ + 1]

ParseAccessSegment(raw, misread) ==
  FoldLeft(LAMBDA parsed, cell : ParseCell(parsed, cell, misread),
           [line |-> <<>>, events |-> <<>>, malformed |-> 0], raw)

\* Mutant of CarriedFor: the segment change does not reset it.
CarriedAnyway(carried, chunk) == carried.carry

\* What a collection makes of one chunk: whole lines to parse, and the partial line
\* to carry into the next chunk. The carry is dropped when the segment changes; a
\* segment's last chunk is parsed to its end.
CarriedFor(carried, chunk) == IF chunk.seg = carried.seg THEN carried.carry ELSE <<>>

LineEnds(raw) == {i \in DOMAIN raw : EndsLine(raw[i])}

Cut(carried, chunk) ==
  LET raw      == CarriedFor(carried, chunk) \o chunk.data
      segmentComplete == chunk.offset + Len(chunk.data) >= chunk.size
      boundary == IF segmentComplete THEN Len(raw) ELSE Max(LineEnds(raw) \cup {0})
  IN  [whole |-> SubSeq(raw, 1, boundary), carry |-> SubSeq(raw, boundary + 1, Len(raw))]

(***************************************************************************)
(* The ring and its loss counters                                          *)
(***************************************************************************)
NewGap(s, r) == IF r > s.last + 1 /\ s.last # 0 THEN r - s.last - 1 ELSE 0

\* Mutant of Full: one event too many.
FullOneLate(s) == s.count > MaxEvents

Full(s) == s.count = MaxEvents

AddAccessEvent(s, r) ==
  [s EXCEPT !.gaps = @ + NewGap(s, r), !.last = Max({@, r}), !.fed = Append(@, r),
            !.count = IF Full(s) THEN @ ELSE @ + 1,
            !.dropped = IF Full(s) THEN @ + 1 ELSE @]

AddAccessEvents(s, events) == FoldLeft(AddAccessEvent, s, events)

AddAccessParseStats(s, malformed) == [s EXCEPT !.malformed = @ + malformed]

AddAccessLoss(s, evictedUnread) == [s EXCEPT !.unread = Max({@, evictedUnread})]

MarkStopped(s) == [s EXCEPT !.stopped = TRUE]

\* The store sequence of the oldest retained event, 0 when there is none.
OldestSequence(s) == IF s.count = 0 THEN 0 ELSE Len(s.fed) - s.count + 1

\* One unfiltered page after a cursor: its events are numbered first .. last, and
\* remaining counts the retained events after the cursor.
SelectPage(s, after) ==
  LET first     == Max({after + 1, OldestSequence(s)})
      remaining == IF s.count = 0 THEN 0 ELSE Max({0, Len(s.fed) - first + 1})
      returned  == Min({PageLimit, remaining})
  IN  [first |-> first, last |-> first + returned - 1, returned |-> returned,
       remaining |-> remaining]

\* The verdict loss.complete, for the access stream.
LossComplete(s) ==
  /\ s.stopped /\ s.mode = "continuous"
  /\ s.dropped = 0 /\ s.malformed = 0 /\ s.unread = 0 /\ s.gaps = 0

(***************************************************************************)
(* Manifests. No event file is exported here, so a recovered view has the  *)
(* counters alone. AddAccessParseStats has already counted the malformed   *)
(* lines when the manifest's loss is added: they come back twice.          *)
(***************************************************************************)
NewManifest(s) ==
  [id |-> s.id, mode |-> s.mode, stopped |-> s.stopped, dropped |-> s.dropped,
   gaps |-> s.gaps, malformed |-> s.malformed, unread |-> s.unread]

RestoreSession(manifest) ==
  MarkStopped([NewSession(manifest.id, manifest.mode)
                 EXCEPT !.dropped = manifest.dropped, !.gaps = manifest.gaps,
                        !.malformed = 2 * manifest.malformed,
                        !.unread = manifest.unread, !.clean = FALSE])
=============================================================================
