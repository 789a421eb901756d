------------------------------ MODULE Listings ------------------------------
(***************************************************************************)
(* The paged listings: a client walks one stream page by page while the    *)
(* server keeps changing it. The audit stream and its mutation projection  *)
(* (target_audit_log, context_mutation_log), the annotations of a context  *)
(* (annotation_list), the artifacts of a context (artifact_list) and the   *)
(* debug events (events_list, kind debug) each have their own order, their *)
(* own cursor and their own way of resuming after it.                      *)
(***************************************************************************)
EXTENDS Integers, FiniteSets, Sequences, SequencesExt, Orders

CONSTANTS Kind,        \* what a filter tells apart: tool, category, artifact kind, resource kind
          LockEvent,   \* the audit rows of the control lock
          RetainedCap, \* maxAuditEntries, maxDebugEvents
          PageLimit,   \* the effective limit of a page
          MaxRows,     \* bound: rows that ever exist
          MaxMoment,   \* bound: creation times
          MaxChanges   \* bound: changes of the stream while a walk is open

ASSUME ListingsAssumption ==
  /\ LockEvent \in Kind
  /\ RetainedCap \in Nat \ {0} /\ PageLimit \in Nat \ {0}
  /\ MaxRows \in Nat /\ MaxMoment \in Nat /\ MaxChanges \in Nat

VARIABLES rows,    \* the stored rows of the walked stream
          lastId,  \* ids issued: audit and event ids are counters
          moment,  \* the clock the creation times are read from
          generation, \* the target generation annotations are compared with
          walk,    \* the client's enumeration
          steady,  \* history: rows selected by the walk's query ever since it began
          moved,   \* history: rows whose place in the order was changed under the walk
          changes

listingVars == <<rows, lastId, moment, generation, walk, steady, moved, changes>>

Stream == {"audit", "mutations", "notes", "artifacts", "events"}
Counted == {"audit", "mutations", "events"}  \* rows named by a monotonic counter
Row == [id : 1..MaxRows, at : 0..MaxMoment, kind : Kind, generation : 0..1]

\* What a listing selects: a kind, and for annotations the staleness policy.
Query == [kind : {Kind} \cup {{kind} : kind \in Kind}, stale : {"exclude", "include", "only"}]
Unfiltered == [kind |-> Kind, stale |-> "exclude"]
FirstRow == [position |-> <<>>, query |-> Unfiltered]

NoWalk == [stream |-> "audit", query |-> Unfiltered, resend |-> TRUE, cursor |-> FirstRow,
           listed |-> <<>>, state |-> "idle"]

\* One invariant for the shapes of the variables.
ListingsTypeOK ==
  /\ rows \subseteq Row
  /\ lastId \in 0..MaxRows /\ moment \in 0..MaxMoment /\ generation \in 0..1
  /\ walk.stream \in Stream /\ walk.query \in Query /\ walk.cursor.query \in Query
  /\ walk.resend \in BOOLEAN /\ walk.state \in {"idle", "open", "done", "refused"}
  /\ \A i \in DOMAIN walk.listed : walk.listed[i] \in Row
  /\ steady \subseteq rows /\ moved \subseteq 1..MaxRows /\ changes \in 0..MaxChanges
  /\ walk.stream \in Counted => Cardinality(rows) <= RetainedCap

ListingsStart(stream) ==
  /\ rows = {} /\ lastId = 0 /\ moment = 0 /\ generation = 0
  /\ walk = [NoWalk EXCEPT !.stream = stream] /\ steady = {} /\ moved = {} /\ changes = 0

ListingsInit == \E stream \in Stream : ListingsStart(stream)

----------------------------------------------------------------------------
\* The rows each stream lists, in its order: newest first, newest first with the
\* id breaking ties, oldest first likewise, and capture order.

AuditListing(query) ==
  Ordered({row \in rows : row.kind \in query.kind}, LAMBDA a, b : a.id > b.id)

\* The mutation trail is the audit stream without the lock's own events.
MutationListing(query) ==
  Selected(AuditListing(query), LAMBDA row : row.kind # LockEvent)

Stale(row) == row.generation # generation

StaleMatches(row, policy) ==
  CASE policy = "only" -> Stale(row)
    [] policy = "include" -> TRUE
    [] OTHER -> ~Stale(row)

NoteMatches(row, query) == row.kind \in query.kind

NoteListing(query) ==
  Ordered({row \in rows : NoteMatches(row, query) /\ StaleMatches(row, query.stale)},
               LAMBDA a, b : a.at > b.at \/ (a.at = b.at /\ a.id > b.id))

OlderFirst(a, b) == a.at < b.at \/ (a.at = b.at /\ a.id < b.id)

ArtifactListing(query) == Ordered({row \in rows : row.kind \in query.kind}, OlderFirst)

EventMatches(row, query) == row.kind \in query.kind

EventListing(query) ==
  Ordered({row \in rows : EventMatches(row, query)}, LAMBDA a, b : a.id < b.id)

Listing(stream, query) ==
  CASE stream = "audit" -> AuditListing(query)
    [] stream = "mutations" -> MutationListing(query)
    [] stream = "notes" -> NoteListing(query)
    [] stream = "artifacts" -> ArtifactListing(query)
    [] stream = "events" -> EventListing(query)

----------------------------------------------------------------------------
\* The client's calls.

\* The envelope of a page: the first PageLimit of the remaining rows, and a next
\* cursor, the position of the last row with the query of this page, only when more
\* rows follow.
Cut(rest, query, position) ==
  IF Len(rest) > PageLimit
  THEN [page |-> SubSeq(rest, 1, PageLimit), state |-> "open",
        next |-> [position |-> position[rest[PageLimit]], query |-> query]]
  ELSE [page |-> rest, state |-> "done", next |-> FirstRow]

\* Arguments sent with a cursor must repeat the query it carries; omitted ones are
\* taken from it.
AuditQuery(given, cursor) == IF cursor.position = <<>> THEN given ELSE cursor.query
NoteQuery(given, cursor) == IF cursor.position = <<>> THEN given ELSE cursor.query

\* The debug cursor's query is compared with the arguments of this call; the page
\* is cut with these arguments.
EventQuery(given, cursor) == given

BelowAnchor(listing, position) ==
  IF position = <<>> THEN listing ELSE Selected(listing, LAMBDA row : row.id < position[1])

AuditPage(given, cursor) ==
  LET query == AuditQuery(given, cursor)
      rest  == BelowAnchor(AuditListing(query), cursor.position)
  IN Cut(rest, query, [row \in rows |-> <<row.id>>])

MutationPage(given, cursor) ==
  LET query == AuditQuery(given, cursor)
      rest  == BelowAnchor(MutationListing(query), cursor.position)
  IN Cut(rest, query, [row \in rows |-> <<row.id>>])

\* Mutant of AfterAnchor: the keyset of a page is its creation time alone.
AfterAnchorTime(row, position) == row.at < position[1]

\* The keyset of an annotation page: creation time, then id.
AfterAnchor(row, position) ==
  row.at < position[1] \/ (row.at = position[1] /\ row.id < position[2])

NotePage(given, cursor) ==
  LET query == NoteQuery(given, cursor)
      rest  == IF cursor.position = <<>> THEN NoteListing(query)
               ELSE Selected(NoteListing(query), LAMBDA row : AfterAnchor(row, cursor.position))
  IN Cut(rest, query, [row \in rows |-> <<row.at, row.id>>])

\* An artifact cursor is the number of artifacts listed so far; past the end of the
\* listing it is refused.
ArtifactPage(given, cursor) ==
  LET listing == ArtifactListing(given)
      offset  == IF cursor.position = <<>> THEN 0 ELSE cursor.position[1]
      rest    == SubSeq(listing, offset + 1, Len(listing))
  IN IF offset > Len(listing)
     THEN [page |-> <<>>, state |-> "refused", next |-> FirstRow]
     ELSE Cut(rest, given, [row \in rows |-> <<offset + PageLimit>>])

EventPage(given, cursor) ==
  LET query == EventQuery(given, cursor)
      rest  == IF cursor.position = <<>> THEN EventListing(query)
               ELSE Selected(EventListing(query), LAMBDA row : row.id > cursor.position[1])
  IN Cut(rest, query, [row \in rows |-> <<row.id>>])

Answer(stream, given, cursor) ==
  CASE stream = "audit" -> AuditPage(given, cursor)
    [] stream = "mutations" -> MutationPage(given, cursor)
    [] stream = "notes" -> NotePage(given, cursor)
    [] stream = "artifacts" -> ArtifactPage(given, cursor)
    [] stream = "events" -> EventPage(given, cursor)

\* The first page fixes the query of the walk. The artifact listing takes its
\* filters again on every page; the others may be paged by the cursor alone.
FirstPage(query, resend) ==
  /\ walk.state = "idle"
  /\ walk.stream # "notes" => query.stale = "exclude"
  /\ walk.stream = "artifacts" => resend
  /\ LET answer == Answer(walk.stream, query, FirstRow)
     IN walk' = [walk EXCEPT !.query = query, !.resend = resend, !.listed = answer.page,
                             !.cursor = answer.next, !.state = answer.state]
  /\ steady' = ToSet(Listing(walk.stream, query))
  /\ UNCHANGED <<rows, lastId, moment, generation, moved, changes>>

\* A later page: with the original arguments again, or with the cursor alone.
NextPage ==
  /\ walk.state = "open"
  /\ LET answer == Answer(walk.stream, IF walk.resend THEN walk.query ELSE Unfiltered, walk.cursor)
     IN walk' = [walk EXCEPT !.listed = @ \o answer.page, !.cursor = answer.next,
                             !.state = answer.state]
  /\ UNCHANGED <<rows, lastId, moment, generation, steady, moved, changes>>

----------------------------------------------------------------------------
\* What changes the stream meanwhile.

Busy == walk.state # "done" /\ changes < MaxChanges

Change(newRows, newGeneration, displaced) ==
  /\ Busy /\ changes' = IF walk.state = "open" THEN changes + 1 ELSE changes
  /\ rows' = newRows /\ generation' = newGeneration
  /\ moved' = IF walk.state = "open" THEN moved \cup displaced ELSE moved
  /\ steady' = {row \in steady \cap newRows :
                   walk.stream = "notes" =>
                     CASE walk.query.stale = "only" -> row.generation # newGeneration
                       [] walk.query.stale = "include" -> TRUE
                       [] OTHER -> row.generation = newGeneration}
  /\ UNCHANGED walk

\* Mutant of Retained: the stream is cut only once it has grown past the cap.
RetainedLate(all) == {row \in all : Cardinality({other \in all : other.id > row.id}) <= RetainedCap}

\* The newest RetainedCap rows of a counted stream.
Retained(all) == {row \in all : Cardinality({other \in all : other.id > row.id}) < RetainedCap}

\* A new audit entry or debug event takes the next id; beyond the cap the oldest
\* row is dropped.
RecordRow(kind) ==
  /\ walk.stream \in Counted /\ lastId < MaxRows
  /\ walk.stream = "events" => kind # LockEvent
  /\ lastId' = lastId + 1
  /\ Change(Retained(rows \cup {[id |-> lastId + 1, at |-> 0, kind |-> kind, generation |-> 0]}),
            generation, {})
  /\ UNCHANGED moment

\* An annotation or an artifact: its creation time is read before the store is
\* locked, so it may be registered late; its id is random.
Create(id, at, kind) ==
  /\ walk.stream \in {"notes", "artifacts"} /\ lastId < MaxRows
  /\ kind # LockEvent /\ at <= moment /\ \A row \in rows : row.id # id
  /\ lastId' = lastId + 1
  /\ LET new == [id |-> id, at |-> at, kind |-> kind, generation |-> generation]
     IN Change(rows \cup {new}, generation,
               {id} \cup {row.id : row \in {r \in rows : walk.stream = "artifacts" /\ OlderFirst(new, r)}})
  /\ UNCHANGED moment

\* annotation_update keeps the creation time.
Update(row, kind) ==
  /\ walk.stream = "notes" /\ kind \notin {row.kind, LockEvent}
  /\ Change((rows \ {row}) \cup {[row EXCEPT !.kind = kind]}, generation, {})
  /\ UNCHANGED <<lastId, moment>>

\* An import that overwrites gives the annotation the creation time of the document.
Overwrite(row, at) ==
  /\ walk.stream = "notes" /\ at # row.at
  /\ Change((rows \ {row}) \cup {[row EXCEPT !.at = at]}, generation, {row.id})
  /\ UNCHANGED <<lastId, moment>>

Delete(row) ==
  /\ walk.stream = "notes"
  /\ Change(rows \ {row}, generation, {})
  /\ UNCHANGED <<lastId, moment>>

\* The target moves on: annotations of the earlier generation become stale.
AdvanceGeneration ==
  /\ walk.stream = "notes" /\ generation = 0
  /\ Change(rows, 1, {})
  /\ UNCHANGED <<lastId, moment>>

\* The retention sweep: every artifact created before the cutoff goes at once.
ExpireRows(cutoff) ==
  /\ walk.stream = "artifacts" /\ \E row \in rows : row.at < cutoff
  /\ Change({row \in rows : row.at >= cutoff}, generation, {row.id : row \in rows})
  /\ UNCHANGED <<lastId, moment>>

NextMoment == /\ walk.stream \in {"notes", "artifacts"} /\ moment < MaxMoment /\ moment' = moment + 1
        /\ walk.state # "done"
        /\ UNCHANGED <<rows, lastId, generation, walk, steady, moved, changes>>

ListingsNext ==
  \/ \E query \in Query, resend \in BOOLEAN : FirstPage(query, resend)
  \/ NextPage
  \/ \E kind \in Kind : RecordRow(kind) \/ \E id \in 1..MaxRows, at \in 0..MaxMoment : Create(id, at, kind)
  \/ \E row \in rows : \/ \E kind \in Kind : Update(row, kind)
                        \/ \E at \in 0..moment : Overwrite(row, at)
                        \/ Delete(row)
  \/ AdvanceGeneration
  \/ \E cutoff \in 1..MaxMoment : ExpireRows(cutoff)
  \/ NextMoment

ListingsSpec == ListingsInit /\ [][ListingsNext]_listingVars

----------------------------------------------------------------------------
(***************************************************************************)
(* No walk lists a row twice, whatever is recorded, created, edited,       *)
(* deleted or dropped by the cap between its pages. The rows whose place   *)
(* changed are the exception the code leaves: an annotation an import      *)
(* overwrote, and the artifacts behind one that expired or was registered  *)
(* late, which an offset cursor cannot follow.                             *)
(***************************************************************************)
ListedOnce ==
  \A i, j \in DOMAIN walk.listed :
    i # j /\ walk.listed[i].id = walk.listed[j].id => walk.listed[i].id \in moved

(***************************************************************************)
(* A walk that reached its last page has listed every row that was stored  *)
(* and selected by its query from the first page to the last, with the     *)
(* same exception.                                                         *)
(***************************************************************************)
NothingOmitted ==
  walk.state = "done" =>
    \A row \in steady : row.id \notin moved => row \in ToSet(walk.listed)

(***************************************************************************)
(* A walk is exact: nothing twice and nothing left out (audit.go:79-88,    *)
(* tools_target.go:404-480, tools_annotations.go:688-791,                  *)
(* tools_events.go:350-440, tools_phase1.go:1134-1190).                    *)
(***************************************************************************)
WalkExact == ListedOnce /\ NothingOmitted

=============================================================================
