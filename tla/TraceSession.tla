---------------------------- MODULE TraceSession ----------------------------
(***************************************************************************)
(* Trace sessions: the plugin writes access records into segment files of  *)
(* one native session (native-plugin/ExodusMcpPlugin.cpp); the tools of    *)
(* tools_trace_session.go drain them, chunk by chunk, into the session     *)
(* object the registry calls current.                                      *)
(*                                                                         *)
(* A drain moves one native cursor, whoever sent it, and the tools that    *)
(* drain hold no lock. trace_session_start and _stop act natively and on   *)
(* the registry under schedulerMu (TargetScheduler has its detail);        *)
(* trace_session_recover acts on the registry alone. rom_load ends both.   *)
(* The server may die and leave manifests and the native session behind.   *)
(*                                                                         *)
(* A session's execution stream is drained by the same command just        *)
(* before; of it only the seal matters here, and Rotate may happen at any  *)
(* time.                                                                   *)
(***************************************************************************)
EXTENDS TraceStore

CONSTANTS
  Thread, None,
  Modes,         \* capture modes a client asks for
  MaxSegments,   \* max_segments
  Chunk,         \* max_bytes of one drain, in cells
  Budget,        \* max_collect_bytes of one collection, in cells
  MaxRecords,    \* bound: records the engine writes
  MaxRotations,  \* bound: segments the monitor thread opens in a session
  MaxSessions,   \* bound: trace_session_start calls
  MaxCalls,      \* bound: tool calls
  MaxFaults      \* bound: failed commands, native ends and server restarts

ASSUME SessionAssumption ==
  /\ Modes \subseteq {"sampled", "continuous"}
  /\ {MaxSegments, Budget} \subseteq Nat \ {0}
  \* kTraceSessionMinDrainBytes and the 4096 of the collections: no line is longer.
  /\ Chunk \in Nat \ {0, 1}
  /\ {MaxRecords, MaxRotations, MaxSessions, MaxCalls, MaxFaults} \subseteq Nat
  /\ None \notin Thread

VARIABLES
  native,     \* the plugin's session
  owner,      \* history: owner[r] is the native session that wrote record r
  gone,       \* history: records whose segment was evicted before a drain read them
  drains,     \* history: <<object, native session>> of the drains that took data
  sessions,   \* the session objects of this server process
  current,    \* registry.current, as an index into sessions, 0 for nil
  manifests,  \* manifest files by session id
  sched,      \* the holder of schedulerMu, or None
  call,       \* per thread, the tool call under way
  reader,     \* per thread, its client's enumeration of the events
  ids, calls, faults

serverVars == <<sessions, current, sched>>
boundVars == <<ids, calls, faults>>
vars == <<native, owner, gone, drains, sessions, current, manifests, sched, call,
          reader, ids, calls, faults>>

SessionIds == 1 .. MaxSessions

(***************************************************************************)
(* The plugin. A segment is the run of records from .. to, under an index. *)
(* drain and offset are the cursor: the first segment not drained, and how *)
(* far into it the last drain came.                                        *)
(***************************************************************************)
NoNative == [id |-> 0, mode |-> "continuous", active |-> FALSE, segments |-> <<>>,
             next |-> 0, drain |-> 1, offset |-> 0, unread |-> 0]

Capturing(n) == n.active /\ n.segments # <<>> /\ ~Last(n.segments).sealed

\* DeleteTraceSessionAccessFilesLocked.
DeleteFiles(n) == [n EXCEPT !.segments = <<>>, !.next = 0, !.drain = 1, !.offset = 0]

SealSegment(n) ==
  IF n.segments = <<>> THEN n
  ELSE [n EXCEPT !.segments = [@ EXCEPT ![Len(@)].sealed = TRUE]]

\* The sealed segments the retention cap removes: a prefix.
SealedFrom(n, k) == {j \in k .. Len(n.segments) : n.segments[j].sealed}
Victims(n) == {k \in DOMAIN n.segments : /\ n.segments[k].sealed
                                         /\ Cardinality(SealedFrom(n, k)) > MaxSegments}

\* Mutant of Unread: does not count the segment the cursor is in.
UnreadAfterCursor(n, segment) == segment.index > n.drain

\* Evicting the segment the cursor is in loses its rest.
Unread(n, segment) == segment.index >= n.drain

Evict(n) ==
  LET victims == Victims(n)
      newest  == n.segments[Max(victims)].index
  IN  IF victims = {} THEN n
      ELSE [n EXCEPT
             !.segments = SubSeq(@, Max(victims) + 1, Len(@)),
             !.unread = @ + Cardinality({k \in victims : Unread(n, n.segments[k])}),
             !.drain = Max({@, newest + 1}),
             !.offset = IF n.drain <= newest THEN 0 ELSE @]

\* The records of the evicted segments whose line no drain has read to its end.
Unreached(n) ==
  UNION {{r \in n.segments[k].from .. n.segments[k].to :
            \/ n.segments[k].index > n.drain
            \/ /\ n.segments[k].index = n.drain
               /\ 2 * (r - n.segments[k].from + 1) > n.offset} : k \in Victims(n)}

\* RotateTraceSessionAccessSegmentLocked: seal, then open the next segment.
OpenSegment(n, records) ==
  LET sealed == SealSegment(n)
  IN  [sealed EXCEPT !.next = @ + 1,
                     !.segments = Append(@, [index |-> n.next + 1, from |-> records + 1,
                                             to |-> records, sealed |-> FALSE])]

RotateSegment(n) == OpenSegment(n, Len(owner))

\* FinishTraceSessionLocked.
Finish(n) == IF n.active THEN [SealSegment(n) EXCEPT !.active = FALSE] ELSE n

\* BuildTraceSessionStartData ends and deletes a session it replaces.
Retired(n) == DeleteFiles(Evict(Finish(n)))

\* ShutdownTraceSession, before the machine's modules or the plugin go away.
ShutDown(n) == [Retired(n) EXCEPT !.id = 0]

\* SealTraceSessionSegmentLocked, RotateTraceSessionSegmentLocked and
\* FinishTraceSessionLocked all end with the eviction.
Evicting(n) == native' = Evict(n) /\ gone' = gone \cup Unreached(n)

Init ==
  /\ native = NoNative
  /\ owner = <<>> /\ gone = {} /\ drains = {}
  /\ sessions = <<>> /\ current = 0
  /\ manifests = [i \in SessionIds |-> None]
  /\ sched = None
  /\ call = [t \in Thread |-> [pc |-> "idle"]]
  /\ reader = [t \in Thread |-> [obj |-> 0]]
  /\ ids = 0 /\ calls = 0 /\ faults = 0

(***************************************************************************)
(* What the emulator does by itself                                        *)
(***************************************************************************)
WriteRecord ==
  /\ Capturing(native) /\ Len(owner) < MaxRecords
  /\ owner' = Append(owner, native.id)
  /\ native' = [native EXCEPT !.segments[Len(native.segments)].to = @ + 1]
  /\ UNCHANGED <<gone, drains, serverVars, manifests, call, reader, boundVars>>

\* The monitor thread: a continuous session rotates; a sampled one closes its
\* window, and opens the next.
Rotate ==
  /\ native.active /\ native.next < MaxRotations
  /\ native.mode = "continuous" \/ ~Capturing(native)
  /\ Evicting(RotateSegment(native))
  /\ UNCHANGED <<owner, drains, serverVars, manifests, call, reader, boundVars>>

CloseWindow ==
  /\ Capturing(native) /\ native.mode = "sampled"
  /\ Evicting(SealSegment(native))
  /\ UNCHANGED <<owner, drains, serverVars, manifests, call, reader, boundVars>>

\* The frame limit ends the session and leaves its files. If the processor went
\* away there is nobody to flush the open segment, which stays unsealed.
FrameLimit ==
  /\ native.active /\ faults < MaxFaults
  /\ Evicting(Finish(native))
  /\ faults' = faults + 1
  /\ UNCHANGED <<owner, drains, serverVars, manifests, call, reader, ids, calls>>

ProcessorGone ==
  /\ native.active /\ faults < MaxFaults
  /\ native' = [native EXCEPT !.active = FALSE]
  /\ faults' = faults + 1
  /\ UNCHANGED <<owner, drains, gone, serverVars, manifests, call, reader, ids, calls>>


(***************************************************************************)
(* Collecting: trace_session_status, trace_session_events and              *)
(* trace_session_stop begin alike.                                         *)
(***************************************************************************)
Go(t, pc) == call' = [call EXCEPT ![t].pc = pc]
Return(t) == call' = [call EXCEPT ![t] = [pc |-> "idle"]]

Collector == {"status", "events", "stop"}

\* What follows the collection and the native status read, which changes nothing.
AfterStatus == [status |-> "persist", events |-> "page", stop |-> "sched"]

\* cursor: an event page continues the enumeration of an earlier one. Only stop
\* cannot be told not to collect.
Begin(t, tool, cursor, collect) ==
  /\ call[t].pc = "idle" /\ calls < MaxCalls /\ current # 0
  /\ cursor => tool = "events" /\ reader[t].obj = current /\ reader[t].more
  /\ tool = "stop" => collect
  /\ call' = [call EXCEPT ![t] = [pc |-> IF collect THEN "carry" ELSE AfterStatus[tool],
                                  tool |-> tool, obj |-> current, cursor |-> cursor]]
  /\ calls' = calls + 1
  /\ UNCHANGED <<native, owner, drains, gone, serverVars, manifests, reader, ids, faults>>

InCollection == {"drain", "feed", "keep"}

\* session.AccessCarry().
ReadCarry(t) ==
  /\ call[t].pc = "carry"
  /\ LET obj == call[t].obj
         overlaps == \E u \in Thread \ {t} :
                       call[u].pc \in InCollection /\ call[u].obj = obj
     IN  /\ call' = [call EXCEPT ![t] =
                       [pc |-> "drain", tool |-> @.tool, obj |-> obj, cursor |-> @.cursor,
                        seg |-> sessions[obj].cseg, carry |-> sessions[obj].carry,
                        read |-> 0, sealing |-> TRUE]]
         /\ sessions' = [sessions EXCEPT ![obj].clean = @ /\ ~overlaps]
  /\ UNCHANGED <<native, owner, drains, gone, current, manifests, sched, reader, boundVars>>

\* BuildTraceSessionDrainData: the first drain of a collection seals the open
\* segment; a continuous session goes on in the next one.
Sealed(n, sealing) ==
  IF ~(sealing /\ Capturing(n)) THEN n
  ELSE IF n.mode = "continuous" THEN RotateSegment(n) ELSE SealSegment(n)

\* DrainTraceSessionStreamLocked: the answer, and the cursor after it.
Drainable(n) == {k \in DOMAIN n.segments : n.segments[k].sealed
                                           /\ n.segments[k].index >= n.drain}

Drained(n) ==
  IF Drainable(n) = {} THEN [seg |-> 0, offset |-> n.offset, data |-> <<>>, size |-> 0]
  ELSE LET segment == n.segments[Min(Drainable(n))]
           file == Cells(segment.from, segment.to)
       IN  [seg |-> segment.index, offset |-> n.offset, size |-> Len(file),
            data |-> SubSeq(file, n.offset + 1, Min({n.offset + Chunk, Len(file)}))]

AfterDrain(n) ==
  LET chunk == Drained(n)
      reached == chunk.offset + Len(chunk.data)
  IN  IF Drainable(n) = {} THEN n
      ELSE IF reached >= chunk.size THEN [n EXCEPT !.drain = chunk.seg + 1, !.offset = 0]
      ELSE [n EXCEPT !.offset = reached]

\* History: data of this native session goes to this object.
Tapped(obj, n) ==
  IF Drained(n).data = <<>> THEN drains ELSE drains \cup {<<obj, n.id>>}

Drain(t) ==
  /\ call[t].pc = "drain"
  /\ LET sealed == Sealed(native, call[t].sealing)
         evicted == Evict(sealed)
         after == AfterDrain(evicted)
     IN  /\ native' = after
         /\ gone' = gone \cup Unreached(sealed)
         /\ drains' = Tapped(call[t].obj, evicted)
         /\ call' = [call EXCEPT ![t] =
                       [pc |-> "feed", tool |-> @.tool, obj |-> @.obj, cursor |-> @.cursor,
                        seg |-> @.seg, carry |-> @.carry, read |-> @.read,
                        chunk |-> Drained(evicted),
                        unread |-> after.unread, done |-> Drainable(after) = {}]]
  /\ UNCHANGED <<owner, serverVars, manifests, reader, boundVars>>

\* The drain fails: it never reached the plugin, a file could not be read, or
\* (executed) its answer is lost with the chunk. The collection returns the error and
\* does not store what it carries; only at an unexecuted first drain is that nothing.
DrainFails(t, executed) ==
  /\ call[t].pc = "drain" /\ faults < MaxFaults
  /\ LET sealed == Sealed(native, call[t].sealing)
     IN  IF executed
         THEN /\ native' = AfterDrain(Evict(sealed))
              /\ gone' = gone \cup Unreached(sealed)
              /\ drains' = Tapped(call[t].obj, Evict(sealed))
         ELSE UNCHANGED <<native, gone, drains>>
  /\ sessions' = [sessions EXCEPT ![call[t].obj].clean =
                    @ /\ ~executed /\ call[t].sealing]
  /\ Return(t)
  /\ faults' = faults + 1
  /\ UNCHANGED <<owner, current, manifests, sched, reader, ids, calls>>

\* The server parses the chunk. The code does not look at the answer's session_id.
Feed(t, misread) ==
  /\ call[t].pc = "feed"
  /\ LET c == call[t]
         s == sessions[c.obj]
         empty == c.chunk.data = <<>>
         cut == Cut([seg |-> c.seg, carry |-> c.carry], c.chunk)
         parsed == ParseAccessSegment(cut.whole, misread)
         read == c.read + Len(c.chunk.data)
         pc == IF c.done \/ read >= Budget THEN "keep" ELSE "drain"
     IN  /\ misread => ~empty /\ parsed.malformed = 0 /\ 0 \in {parsed.events[i] : i \in DOMAIN parsed.events}
         /\ sessions' = [sessions EXCEPT ![c.obj] =
              LET fed == IF empty THEN s
                         ELSE AddAccessParseStats(AddAccessEvents(s, parsed.events),
                                                  parsed.malformed)
              IN  AddAccessLoss(fed, c.unread)]
         /\ call' = [call EXCEPT ![t] =
              [pc |-> pc, tool |-> c.tool, obj |-> c.obj, cursor |-> c.cursor,
               seg |-> IF empty THEN c.seg ELSE c.chunk.seg,
               carry |-> IF empty THEN c.carry ELSE cut.carry,
               read |-> read, sealing |-> FALSE]]
  /\ UNCHANGED <<native, owner, drains, gone, current, manifests, sched, reader, boundVars>>

\* session.SetAccessCarry(), then the native status read. Only stop goes on without
\* its answer.
Kept(t) == sessions' = [sessions EXCEPT ![call[t].obj].cseg = call[t].seg,
                                        ![call[t].obj].carry = call[t].carry]

KeepCarry(t) ==
  /\ call[t].pc = "keep"
  /\ Kept(t)
  /\ call' = [call EXCEPT ![t] = [pc |-> AfterStatus[@.tool], tool |-> @.tool,
                                  obj |-> @.obj, cursor |-> @.cursor]]
  /\ UNCHANGED <<native, owner, drains, gone, current, manifests, sched, reader, boundVars>>

StatusFails(t) ==
  /\ call[t].pc = "keep" /\ call[t].tool # "stop" /\ faults < MaxFaults
  /\ Kept(t)
  /\ Return(t)
  /\ faults' = faults + 1
  /\ UNCHANGED <<native, owner, drains, gone, current, manifests, sched, reader, ids, calls>>

(***************************************************************************)
(* trace_session_events: one page, and the cursor of the next              *)
(***************************************************************************)
\* Mutant of NextCursor: names the newest event.
NewestCursor(s, page) == Len(s.fed)

NextCursor(s, page) == page.last

Page(t) ==
  /\ call[t].pc = "page"
  /\ LET obj == call[t].obj
         s == sessions[obj]
         begun == IF call[t].cursor THEN reader[t]
                  ELSE [obj |-> obj, start |-> Max({0, OldestSequence(s) - 1}), got |-> 0,
                        skipped |-> 0, after |-> Max({0, OldestSequence(s) - 1})]
         page == SelectPage(s, IF call[t].cursor THEN reader[t].after ELSE 0)
         evicted == IF call[t].cursor /\ OldestSequence(s) > begun.after + 1
                    THEN OldestSequence(s) - begun.after - 1 ELSE 0
     IN  reader' = [reader EXCEPT ![t] =
           [obj |-> obj, start |-> begun.start, got |-> begun.got + page.returned,
            skipped |-> begun.skipped + evicted,
            after |-> IF page.returned = 0 THEN begun.after ELSE NextCursor(s, page),
            more |-> page.remaining > page.returned /\ page.returned > 0,
            newest |-> Len(s.fed)]]
  /\ Go(t, "persist")
  /\ UNCHANGED <<native, owner, drains, gone, serverVars, manifests, boundVars>>

(***************************************************************************)
(* The manifest: a snapshot, then an atomic write                          *)
(***************************************************************************)
Snapshot(t) ==
  /\ call[t].pc = "persist"
  /\ call' = [call EXCEPT ![t] = [pc |-> "save",
                                  manifest |-> NewManifest(sessions[call[t].obj])]]
  /\ UNCHANGED <<native, owner, drains, gone, serverVars, manifests, reader, boundVars>>

Save(t) ==
  /\ call[t].pc = "save"
  /\ manifests' = [manifests EXCEPT ![call[t].manifest.id] = call[t].manifest]
  /\ Return(t)
  /\ UNCHANGED <<native, owner, drains, gone, serverVars, reader, boundVars>>

(***************************************************************************)
(* Under schedulerMu: trace_session_start, trace_session_stop and rom_load *)
(***************************************************************************)
BeginStart(t, mode) ==
  /\ call[t].pc = "idle" /\ calls < MaxCalls /\ ids < MaxSessions
  /\ call' = [call EXCEPT ![t] = [pc |-> "sched", tool |-> "start", id |-> ids + 1,
                                  mode |-> mode]]
  /\ ids' = ids + 1 /\ calls' = calls + 1
  /\ UNCHANGED <<native, owner, drains, gone, serverVars, manifests, reader, faults>>

BeginLoad(t) ==
  /\ call[t].pc = "idle" /\ calls < MaxCalls /\ native.id # 0
  /\ call' = [call EXCEPT ![t] = [pc |-> "sched", tool |-> "load"]]
  /\ calls' = calls + 1
  /\ UNCHANGED <<native, owner, drains, gone, serverVars, manifests, reader, ids, faults>>

EnterScheduler(t) ==
  /\ call[t].pc = "sched" /\ sched = None
  /\ sched' = t
  /\ Go(t, "native")
  /\ UNCHANGED <<native, owner, drains, gone, sessions, current, manifests, reader, boundVars>>

Started(n, id, mode) ==
  OpenSegment([NoNative EXCEPT !.id = id, !.mode = mode, !.active = TRUE], Len(owner))

StartNative(t) ==
  /\ call[t].pc = "native" /\ call[t].tool = "start"
  /\ native' = Started(native, call[t].id, call[t].mode)
  /\ Go(t, "commit")
  /\ UNCHANGED <<owner, drains, gone, serverVars, manifests, reader, boundVars>>

\* stop: delete_segments removes the files, drained or not.
StopNative(t, delete) ==
  /\ call[t].pc = "native" /\ call[t].tool = "stop"
  /\ LET finished == Finish(native)
     IN  /\ native' = IF delete THEN DeleteFiles(Evict(finished)) ELSE Evict(finished)
         /\ gone' = gone \cup Unreached(finished)
  /\ Go(t, "commit")
  /\ UNCHANGED <<owner, drains, serverVars, manifests, reader, boundVars>>

\* PurgeManagedDebugState comes before the modules are exchanged.
LoadNative(t) ==
  /\ call[t].pc = "native" /\ call[t].tool = "load"
  /\ native' = ShutDown(native)
  /\ Go(t, "commit")
  /\ UNCHANGED <<owner, drains, gone, serverVars, manifests, reader, boundVars>>

\* The command fails: unsent, refused by a start or a load that has already ended the
\* session before, or executed with its answer lost.
NativeFails(t, outcome) ==
  /\ call[t].pc = "native" /\ faults < MaxFaults
  /\ outcome = "refused" => call[t].tool \in {"start", "load"}
  /\ native' = CASE outcome = "unsent" -> native
                 [] call[t].tool = "load" -> ShutDown(native)
                 [] outcome = "lost" /\ call[t].tool = "start"
                      -> Started(native, call[t].id, call[t].mode)
                 [] OTHER -> Retired(native)
  /\ sched' = None
  /\ Return(t)
  /\ faults' = faults + 1
  /\ UNCHANGED <<owner, drains, gone, sessions, current, manifests, reader, ids, calls>>

CommitStart(t) ==
  /\ call[t].pc = "commit" /\ call[t].tool = "start"
  /\ sessions' = Append(sessions, NewSession(call[t].id, call[t].mode))
  /\ current' = Len(sessions) + 1
  /\ sched' = None
  /\ call' = [call EXCEPT ![t] = [pc |-> "persist", tool |-> "start",
                                  obj |-> Len(sessions) + 1]]
  /\ UNCHANGED <<native, owner, drains, gone, manifests, reader, boundVars>>

CommitStop(t) ==
  /\ call[t].pc = "commit" /\ call[t].tool = "stop"
  /\ sessions' = [sessions EXCEPT ![call[t].obj] = MarkStopped(@)]
  /\ sched' = None
  /\ Return(t)
  /\ UNCHANGED <<native, owner, drains, gone, current, manifests, reader, boundVars>>

\* retireTraceSession: whatever session is current by now.
CommitLoad(t) ==
  /\ call[t].pc = "commit" /\ call[t].tool = "load"
  /\ sessions' = IF current = 0 THEN sessions
                 ELSE [sessions EXCEPT ![current] = MarkStopped(@)]
  /\ sched' = None
  /\ Return(t)
  /\ UNCHANGED <<native, owner, drains, gone, current, manifests, reader, boundVars>>

(***************************************************************************)
(* trace_session_recover with install, and the restart before it           *)
(***************************************************************************)
Recover(t, id) ==
  /\ call[t].pc = "idle" /\ calls < MaxCalls /\ manifests[id] # None
  /\ call' = [call EXCEPT ![t] = [pc |-> "check", manifest |-> manifests[id]]]
  /\ calls' = calls + 1
  /\ UNCHANGED <<native, owner, drains, gone, serverVars, manifests, reader, ids, faults>>

\* A live session is looked for first, and the view replaces current later.
CheckLive(t) ==
  /\ call[t].pc = "check"
  /\ IF current # 0 /\ ~sessions[current].stopped THEN Return(t) ELSE Go(t, "replace")
  /\ UNCHANGED <<native, owner, drains, gone, serverVars, manifests, reader, boundVars>>

Install(t) ==
  /\ call[t].pc = "replace"
  /\ sessions' = Append(sessions, RestoreSession(call[t].manifest))
  /\ current' = Len(sessions) + 1
  /\ Return(t)
  /\ UNCHANGED <<native, owner, drains, gone, manifests, sched, reader, boundVars>>

ServerRestart ==
  /\ faults < MaxFaults /\ sessions # <<>>
  /\ sessions' = <<>> /\ current' = 0 /\ sched' = None /\ drains' = {}
  /\ call' = [t \in Thread |-> [pc |-> "idle"]]
  /\ reader' = [t \in Thread |-> [obj |-> 0]]
  /\ faults' = faults + 1
  /\ UNCHANGED <<native, owner, gone, manifests, ids, calls>>

\* Nothing is left to do within the bounds.
Quiet ==
  /\ \A t \in Thread : call[t].pc = "idle"
  /\ UNCHANGED vars

Emulator == WriteRecord \/ Rotate \/ CloseWindow \/ FrameLimit \/ ProcessorGone

Collect(t) ==
  \/ \E tool \in Collector, cursor, collect \in BOOLEAN : Begin(t, tool, cursor, collect)
  \/ ReadCarry(t) \/ Drain(t) \/ KeepCarry(t)
  \/ \E executed \in BOOLEAN : DrainFails(t, executed)
  \/ \E misread \in BOOLEAN : Feed(t, misread)
  \/ StatusFails(t) \/ Page(t) \/ Snapshot(t) \/ Save(t)

Lifecycle(t) ==
  \/ \E mode \in Modes : BeginStart(t, mode)
  \/ BeginLoad(t) \/ EnterScheduler(t)
  \/ StartNative(t) \/ LoadNative(t) \/ CommitStart(t) \/ CommitStop(t) \/ CommitLoad(t)
  \/ \E delete \in BOOLEAN : StopNative(t, delete)
  \/ \E outcome \in {"unsent", "refused", "lost"} : NativeFails(t, outcome)
  \/ \E id \in SessionIds : Recover(t, id)
  \/ CheckLive(t) \/ Install(t)

Next ==
  \/ Emulator \/ ServerRestart \/ Quiet
  \/ \E t \in Thread : Collect(t) \/ Lifecycle(t)

Spec == Init /\ [][Next]_vars

(***************************************************************************)
(* Properties                                                              *)
(***************************************************************************)
Own(s) == {r \in DOMAIN owner : owner[r] = s.id}
FedSet(s) == {s.fed[i] : i \in DOMAIN s.fed}
Object == DOMAIN sessions

\* The object got every chunk its native session gave out, and no other, from
\* collections that neither overlapped nor lost one. An answer that goes astray or
\* to another object is no loss any counter knows of.
Undisturbed(i) ==
  /\ sessions[i].clean
  /\ \A d \in drains : d[1] = i <=> d[2] = sessions[i].id

\* The session objects, the native cursor and the retained window are well formed:
\* the ring never exceeds its capacity and accounts for every record it was fed.
TypeOK ==
  /\ native.id \in 0 .. ids /\ native.drain \in Nat /\ native.offset \in Nat
  /\ \A k \in DOMAIN native.segments :
       /\ native.segments[k].index = native.next - Len(native.segments) + k
       /\ native.segments[k].sealed \/ k = Len(native.segments)
  /\ current \in 0 .. Len(sessions) /\ sched \in Thread \cup {None}
  /\ gone \subseteq DOMAIN owner
  /\ \A i \in Object : LET s == sessions[i] IN
       /\ s.count <= MaxEvents
       /\ FedSet(s) \subseteq 0 .. MaxRecords /\ s.last \in 0 .. MaxRecords
       /\ ~s.stopped => s.count + s.dropped = Len(s.fed)
       /\ Len(s.carry) < 2

\* What collectTraceSessionAccess feeds to a session are the session's own records,
\* once each and in the order the engine wrote them, whatever the chunk and segment
\* boundaries: a record before the last one fed is missing only if the retention cap
\* removed its segment unread, and no line is malformed.
DrainExact ==
  \A i \in Object : LET s == sessions[i] IN Undisturbed(i) =>
    /\ FedSet(s) \subseteq Own(s) /\ s.malformed = 0
    /\ \A j \in 1 .. Len(s.fed) - 1 : s.fed[j] < s.fed[j + 1]
    /\ \A r \in Own(s) : r < s.last => r \in FedSet(s) \cup gone

\* A record the retention cap removed does not vanish silently (AddAccessEvents,
\* AddAccessLoss): access_sequence_gaps counts exactly the holes between the records
\* fed, and a hole before the first of them shows as an unread evicted segment.
NoSilentLoss ==
  \A i \in Object : LET s == sessions[i]
                        missing == {r \in Own(s) : r < s.last} \ FedSet(s)
                        leading == {r \in missing : \A f \in FedSet(s) : r < f}
                    IN Undisturbed(i) =>
    /\ s.gaps = Cardinality(missing \ leading)
    /\ leading # {} => s.unread > 0

\* An enumeration of the events by cursor (runTraceSessionEvents) returned every
\* event between its beginning and its cursor, or announced it as skipped; one that
\* is told there is no next page has reached the newest event.
PagingHonest ==
  \A t \in Thread : LET e == reader[t] IN e.obj # 0 =>
    /\ e.got + e.skipped = e.after - e.start
    /\ ~e.more => e.after = e.newest

\* docs/TRACE-SESSIONS.md: complete: true means "the capture covered the requested
\* window with no gaps, and the session has ended" - every record of a session that
\* ended with that verdict was drained.
CompleteIsComplete ==
  \A i \in Object : LossComplete(sessions[i]) => Own(sessions[i]) \subseteq FedSet(sessions[i])
=============================================================================
