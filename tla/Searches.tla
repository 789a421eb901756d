------------------------------- MODULE Searches -------------------------------
(***************************************************************************)
(* memory_search and memory_diff. The first page of a walk fixes the bytes *)
(* it is about: a snapshot named by the caller, or a fresh read, which is  *)
(* stored as a snapshot. The later pages are asked for with the cursor     *)
(* alone, while the program goes on writing its memory and another         *)
(* cartridge may be loaded.                                                *)
(***************************************************************************)
EXTENDS Integers, FiniteSets, Sequences, SequencesExt, Orders

CONSTANTS ByteBase,      \* values of a byte: 0..ByteBase-1
          MaxAddress,    \* the addresses of the space are 0..MaxAddress
          SpaceOrder,    \* the byte order of the space
          SearchQueries, \* [pattern, alignment, start, length]
          DiffQueries,   \* [mode, value, width, order, misaligned, start, forced]
          InlineLimit,   \* max_matches
          DumpCap,       \* dumpCapBytes
          MaxDumps,     \* bound: dumps stored
          MaxPokes       \* bound: bytes the program writes

Byte    == 0..ByteBase - 1
Address == 0..MaxAddress
Wild     == ByteBase           \* a ?? of a pattern
Unset   == -1                 \* an argument left out
Order   == {"big", "little"}

\* What a pattern parses to: at least one byte or wildcard.
WellFormedPattern(pattern) == pattern \in Seq(Byte \cup {Wild}) \ {<<>>}

ASSUME SearchesAssumption ==
  /\ ByteBase \in Nat \ {0} /\ MaxAddress \in Nat /\ SpaceOrder \in Order
  /\ InlineLimit \in Nat \ {0} /\ DumpCap \in Nat \ {0} /\ MaxDumps \in Nat /\ MaxPokes \in Nat
  /\ \A query \in SearchQueries : /\ WellFormedPattern(query.pattern) /\ query.alignment \in Nat
                                    /\ query.start \in Nat \cup {Unset} /\ query.length \in Nat
  /\ \A query \in DiffQueries : /\ query.width \in {1, 2} /\ query.order \in Order \cup {"derived"}
                                  /\ query.start \in Nat \cup {Unset} /\ query.misaligned \in BOOLEAN

VARIABLES image, rom,    \* the machine: the bytes of the space, and the cartridge
          dumps,     \* the stored dumps, in order
          enumeration,   \* the client's walk
          pokes

searchVars == <<image, rom, dumps, enumeration, pokes>>

\* A dump with its provenance; a legacy one has bytes and nothing else.
Dumped(first, length, known) ==
  [bytes |-> [i \in 1..length |-> image[first + i - 1]], start |-> first, known |-> known, rom |-> rom]

NoWalkYet == [kind |-> "none", query |-> Unset, before |-> 0, after |-> 0, offset |-> 0,
              start |-> 0, length |-> 0, order |-> SpaceOrder, listed |-> <<>>, resume |-> 0, state |-> "idle"]

SearchesTypeOK ==
  /\ image \in [Address -> Byte] /\ rom \in 0..1 /\ pokes \in 0..MaxPokes
  /\ \A i \in DOMAIN dumps : /\ dumps[i].bytes \in Seq(Byte) /\ dumps[i].known \in BOOLEAN
                                 /\ dumps[i].start \in Address /\ dumps[i].rom \in 0..1
  /\ enumeration.kind \in {"none", "search", "diff"} /\ enumeration.before \in 0..Len(dumps)
  /\ enumeration.state \in {"idle", "open", "done", "refused"}

SearchesStart ==
  /\ image = [a \in Address |-> 0] /\ rom = 0 /\ dumps = <<>>
  /\ enumeration = NoWalkYet /\ pokes = 0

SearchesInit == SearchesStart

----------------------------------------------------------------------------
\* The offsets of the bytes that match, and the pages cut from them.

Listed(page, walk) == [walk EXCEPT !.listed = @ \o [i \in DOMAIN page |-> walk.start + page[i]]]

\* At most InlineLimit rows from the resume offset on, and a cursor when more follow.
Page(offsets, walk) ==
  LET rest == Ascend({o \in offsets : o >= walk.resume})
      page == SubSeq(rest, 1, InlineLimit)
  IN IF Len(rest) > InlineLimit
     THEN [Listed(page, walk) EXCEPT !.resume = Last(page) + 1, !.state = "open"]
     ELSE [Listed(rest, walk) EXCEPT !.state = "done"]

findPatternMatches(data, pattern, alignment) ==
  {o \in 0..Len(data) - Len(pattern) :
     /\ alignment # 0 => o % alignment = 0
     /\ \A j \in DOMAIN pattern : pattern[j] \in {Wild, data[o + j]}}

decodeCell(data, offset, width, order) ==
  IF width = 1 THEN data[offset + 1]
  ELSE IF order = "little" THEN data[offset + 1] + ByteBase * data[offset + 2]
       ELSE ByteBase * data[offset + 1] + data[offset + 2]

Related(query, before, after) ==
  CASE query.mode = "changed"    -> before # after
    [] query.mode = "unchanged"  -> before = after
    [] query.mode = "increased"  -> after > before
    [] query.mode = "decreased"  -> after < before
    [] query.mode = "changed_by" -> after - before = query.value
    [] query.mode = "equal_to"   -> after = query.value
    [] query.mode = "in_range"   -> after >= query.value

\* Mutant of CellOffsets: cells are aligned in the snapshot, not in the address domain.
CellOffsetsRelative(length, start, query) ==
  {o \in 0..length - query.width : query.misaligned \/ o % query.width = 0}

\* Cells are aligned to their width in the address domain, unless the scan visits every
\* byte offset.
CellOffsets(length, start, query) ==
  LET first == IF query.misaligned \/ start % query.width = 0 THEN 0
               ELSE query.width - (start % query.width)
      stride == IF query.misaligned THEN 1 ELSE query.width
  IN {o \in first..length - query.width : (o - first) % stride = 0}

DiffOffsets(before, after, start, query, order) ==
  {o \in CellOffsets(Len(before), start, query) :
     Related(query, decodeCell(before, o, query.width, order), decodeCell(after, o, query.width, order))}

----------------------------------------------------------------------------
\* The client's calls.

\* memory_dump: a snapshot, with provenance or, from before there was any, without.
Dump(first, length, known) ==
  /\ enumeration.state = "idle" /\ Len(dumps) < MaxDumps /\ first + length - 1 <= MaxAddress
  /\ dumps' = Append(dumps, Dumped(first, length, known))
  /\ UNCHANGED <<image, rom, enumeration, pokes>>

Step(walk) == enumeration' = walk /\ UNCHANGED <<image, rom, pokes>>

Reject == [enumeration EXCEPT !.state = "refused"]

\* The window of a search: of a fresh read, of a dump with provenance, which the arguments
\* may only narrow, or of a legacy dump, anchored where the caller says.
FreshWindow(start, length) ==
  [start |-> IF start = Unset THEN 0 ELSE start, offset |-> 0,
   length |-> IF length = 0 THEN DumpCap ELSE length]

Narrowed(snapshot, start, length) ==
  LET first == IF start = Unset THEN snapshot.start ELSE start
      end   == snapshot.start + Len(snapshot.bytes)
  IN [start |-> first, offset |-> first - snapshot.start,
      length |-> IF length = 0 THEN end - first ELSE length]

Captured(snapshot, start, length) ==
  LET end == snapshot.start + Len(snapshot.bytes)
      first == IF start = Unset THEN snapshot.start ELSE start
  IN first \in snapshot.start..end - 1 /\ length <= end - first

Legacy(snapshot, start) ==
  [start |-> IF start = Unset THEN 0 ELSE start, offset |-> 0, length |-> Len(snapshot.bytes)]

Window(snapshot, offset, length) == SubSeq(snapshot.bytes, offset + 1, offset + length)

Searched(query, store, id, window) ==
  LET data == Window(store[id], window.offset, window.length)
  IN Page(findPatternMatches(data, query.pattern, query.alignment),
          [NoWalkYet EXCEPT !.kind = "search", !.query = query, !.before = id,
             !.offset = window.offset, !.start = window.start, !.length = window.length])

SearchFresh(query) ==
  /\ enumeration.state = "idle" /\ Len(dumps) < MaxDumps
  /\ LET window == FreshWindow(query.start, query.length)
     IN /\ window.start + window.length - 1 <= MaxAddress
        /\ dumps' = Append(dumps, Dumped(window.start, window.length, TRUE))
        /\ Step(Searched(query, dumps', Len(dumps'), window))

SearchSnapshot(query, id) ==
  /\ enumeration.state = "idle"
  /\ LET snapshot == dumps[id]
     IN IF snapshot.known
        THEN IF Captured(snapshot, query.start, query.length)
             THEN Step(Searched(query, dumps, id, Narrowed(snapshot, query.start, query.length)))
             ELSE Step(Reject)
        ELSE IF query.length \in {0, Len(snapshot.bytes)}
             THEN Step(Searched(query, dumps, id, Legacy(snapshot, query.start)))
             ELSE Step(Reject)
  /\ UNCHANGED dumps

\* A later page reads the window the cursor names, from the snapshot it names.
NextSearch ==
  /\ enumeration.state = "open" /\ enumeration.kind = "search"
  /\ LET data == Window(dumps[enumeration.before], enumeration.offset, enumeration.length)
     IN Step(Page(findPatternMatches(data, enumeration.query.pattern, enumeration.query.alignment),
                  enumeration))
  /\ UNCHANGED dumps

\* compareProvenance: what is not known is not compared.
Compatible(before, after) ==
  before.known /\ after.known => before.start = after.start /\ before.rom = after.rom

\* Where a comparison begins: where the before snapshot was captured, if that is known.
Anchor(before, asked) ==
  IF before.known THEN before.start ELSE IF asked = Unset THEN 0 ELSE asked

Asserted(before, asked) == ~before.known \/ asked \in {Unset, before.start}

EffectiveOrder(before, order) ==
  IF order # "derived" THEN order ELSE IF before.known THEN SpaceOrder ELSE "big"

Compared(store, walk) ==
  Page(DiffOffsets(store[walk.before].bytes, store[walk.after].bytes, walk.start, walk.query, walk.order),
       walk)

\* The first page: against a snapshot, or against a fresh read of the same range.
FirstDiff(query, before, after) ==
  /\ enumeration.state = "idle"
  /\ LET start == Anchor(dumps[before], query.start)
         walk  == [NoWalkYet EXCEPT !.kind = "diff", !.query = query, !.before = before, !.after = after,
                     !.start = start, !.order = EffectiveOrder(dumps[before], query.order)]
     IN \/ /\ after <= Len(dumps) /\ UNCHANGED dumps
           /\ IF /\ Asserted(dumps[before], query.start)
                 /\ Len(dumps[before].bytes) = Len(dumps[after].bytes)
                 /\ query.forced \/ Compatible(dumps[before], dumps[after])
              THEN Step(Compared(dumps, walk))
              ELSE Step(Reject)
        \/ /\ after = Len(dumps) + 1 /\ after <= MaxDumps
           /\ Asserted(dumps[before], query.start)
           /\ start + Len(dumps[before].bytes) - 1 <= MaxAddress
           /\ dumps' = Append(dumps, Dumped(start, Len(dumps[before].bytes), TRUE))
           /\ Step(Compared(dumps', walk))

\* A later page: the cursor names both dumps and the comparison, but neither the
\* address asked for nor the permission to compare unlike dumps.
NextDiff ==
  /\ enumeration.state = "open" /\ enumeration.kind = "diff"
  /\ IF Compatible(dumps[enumeration.before], dumps[enumeration.after])
     THEN Step(Compared(dumps, [enumeration EXCEPT
                                      !.start = Anchor(dumps[enumeration.before], Unset)]))
     ELSE Step(Reject)
  /\ UNCHANGED dumps

\* The program writes a byte; another cartridge is loaded.
Poke(address, byte) ==
  /\ enumeration.state \in {"idle", "open"} /\ pokes < MaxPokes /\ pokes' = pokes + 1
  /\ image[address] # byte /\ image' = [image EXCEPT ![address] = byte]
  /\ UNCHANGED <<rom, dumps, enumeration>>

LoadOther ==
  /\ enumeration.state = "idle" /\ rom = 0 /\ rom' = 1
  /\ UNCHANGED <<image, dumps, enumeration, pokes>>

SearchesNext ==
  \/ \E first \in Address, known \in BOOLEAN : Dump(first, DumpCap, known)
  \/ \E query \in SearchQueries :
       SearchFresh(query) \/ \E id \in DOMAIN dumps : SearchSnapshot(query, id)
  \/ \E query \in DiffQueries, before \in DOMAIN dumps, after \in 1..MaxDumps :
       FirstDiff(query, before, after)
  \/ NextSearch \/ NextDiff \/ LoadOther
  \/ \E address \in Address, byte \in Byte : Poke(address, byte)

SearchesSpec == SearchesInit /\ [][SearchesNext]_searchVars

----------------------------------------------------------------------------
\* What a whole walk should have listed, said about addresses and single bytes.

ByteAt(snapshot, start, address) == snapshot.bytes[address - start + 1]

Origin(snapshot) == IF snapshot.known THEN snapshot.start ELSE enumeration.start - enumeration.offset

ExactMatches ==
  LET snapshot == dumps[enumeration.before]
      window   == enumeration.start..enumeration.start + enumeration.length - 1
      size     == Len(enumeration.query.pattern)
      aligned(address) == \/ enumeration.query.alignment = 0
                          \/ (address - enumeration.start) % enumeration.query.alignment = 0
  IN {a \in window : /\ aligned(a) /\ a + size - 1 \in window
                     /\ \A i \in 1..size : \/ enumeration.query.pattern[i] = Wild
                                           \/ ByteAt(snapshot, Origin(snapshot), a + i - 1)
                                                = enumeration.query.pattern[i]}

ExactDifferences(start) ==
  LET before == dumps[enumeration.before]
      after  == dumps[enumeration.after]
      query  == enumeration.query
      window == start..start + Len(before.bytes) - 1
      high(a) == IF enumeration.order = "big" THEN a ELSE a + 1
      low(a)  == IF enumeration.order = "big" THEN a + 1 ELSE a
      cell(snapshot, a) == IF query.width = 1 THEN ByteAt(snapshot, start, a)
                           ELSE ByteBase * ByteAt(snapshot, start, high(a)) + ByteAt(snapshot, start, low(a))
  IN {a \in window : /\ a + query.width - 1 \in window
                     /\ query.misaligned \/ a % query.width = 0
                     /\ Related(query, cell(before, a), cell(after, a))}

\* The rows are in address order, so no row comes twice.
Ascending(rows) == \A i, j \in DOMAIN rows : i < j => rows[i] < rows[j]

(***************************************************************************)
(* A search walked to its end has listed every match of its window exactly *)
(* once and in order, at the addresses the bytes were captured from, and   *)
(* pages read the bytes of the first page whatever the machine has done    *)
(* since (tools_phase5.go:571-600, 846-890).                               *)
(***************************************************************************)
SearchExact ==
  enumeration.kind = "search" =>
    /\ Ascending(enumeration.listed)
    /\ enumeration.state = "done" => ToSet(enumeration.listed) = ExactMatches

(***************************************************************************)
(* The same of a comparison whose before snapshot has provenance: the      *)
(* cells that differ as asked, at the addresses they were captured from,   *)
(* aligned in the address domain (tools_phase5.go:1436-1500).              *)
(***************************************************************************)
DiffExact ==
  enumeration.kind = "diff" /\ dumps[enumeration.before].known =>
    /\ Ascending(enumeration.listed)
    /\ enumeration.state = "done" =>
         ToSet(enumeration.listed) = ExactDifferences(dumps[enumeration.before].start)

(***************************************************************************)
(* Both enumerations, as the pages of one walk (tools_phase5.go:571-1148). *)
(***************************************************************************)
EnumerationExact == SearchExact /\ DiffExact

=============================================================================
