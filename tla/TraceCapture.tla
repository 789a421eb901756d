----------------------------- MODULE TraceCapture -----------------------------
(***************************************************************************)
(* cpu_trace_capture, cpu_trace_capture_watchpoint and cpu_coverage_capture*)
(* on one processor. The window in which instructions are recorded is one  *)
(* native operation; what the recorded lines become, their decoded         *)
(* lengths, the blocks and the watchpoint event, is read in commands that  *)
(* follow it, of a machine that has its prior run state back.              *)
(***************************************************************************)
EXTENDS Integers, FiniteSets, Sequences, SequencesExt, FiniteSetsExt, Orders

CONSTANTS CodeEnd,        \* instructions start at 0..CodeEnd
          RomEnd,         \* ROM is below it
          RamStart,       \* RAM is from it on
          Codes,          \* programs: the length of the instruction at each address
          Targets,        \* where the program branches to
          Trigger,        \* managed watchpoints
          CaptureFilters, \* [start, end, rom, ram, repeated]
          EntryLimit,     \* max_entries
          AddressCap,     \* maxCoverageAddresses
          SweepLimit,     \* maxDisassemblyCount
          MinLength,      \* minimumInstructionBytes
          MaxExecuted,    \* bound: instructions a window records
          MaxHits,        \* bound: hits of one watchpoint
          MaxMishaps      \* bound: commands that fail, instructions overwritten, and pauses,
                          \* resumes and removals by other clients

Instruction == 0..CodeEnd
Lengths == UNION {{program[a] : a \in Instruction} : program \in Codes}
Whole == [start |-> 0, end |-> CodeEnd + 1, rom |-> TRUE, ram |-> TRUE, repeated |-> TRUE]

\* parseTraceFilters refuses an empty range.
WellFormedFilter(filter) == filter.start < filter.end

ASSUME TraceCaptureAssumption ==
  /\ {CodeEnd, RomEnd, RamStart} \subseteq Nat /\ RomEnd <= RamStart
  /\ Targets \subseteq Instruction /\ MinLength \in Nat \ {0}
  /\ Codes \subseteq [Instruction -> Nat \ {0}] /\ Codes # {} /\ IsFiniteSet(Trigger)
  /\ {EntryLimit, AddressCap, SweepLimit} \subseteq Nat \ {0} /\ {MaxHits, MaxMishaps} \subseteq Nat
  /\ \A filter \in CaptureFilters : WellFormedFilter(filter)

VARIABLES code, pc, rolling,   \* the machine
          triggers,            \* the managed watchpoints
          log,                 \* the processor's trace file
          capture,             \* the call
          report,              \* what it has answered
          mishaps

captureMachine == <<code, pc, rolling>>
captureVars == <<code, pc, rolling, triggers, log, capture, report, mishaps>>

NoTrace == [kind |-> "none", phase |-> "idle", filter |-> Whole, trigger |-> "none",
              wasRunning |-> FALSE, baseline |-> [w \in Trigger |-> 0], text |-> <<>>, fired |-> {},
              left |-> {}, lengths |-> [a \in Instruction |-> 0], intact |-> TRUE,
              pc |-> 0, found |-> FALSE, struck |-> {}]

NoReport == [rows |-> <<>>, counts |-> [a \in Instruction |-> 0], ranges |-> {}, blocks |-> {},
             edges |-> [step \in Instruction \X Instruction |-> 0],
             complete |-> FALSE, event |-> {}]

TraceCaptureTypeOK ==
  /\ code \in [Instruction -> Nat] /\ pc \in Instruction /\ rolling \in BOOLEAN
  /\ \A w \in Trigger : triggers[w].hits \in 0..MaxHits
  /\ log \in Seq(Instruction) /\ capture.left \subseteq Instruction
  /\ capture.phase \in {"idle", "warming", "window", "decoding", "pc", "details", "hits", "done"}
  /\ report.edges \in [Instruction \X Instruction -> Nat]
  /\ mishaps \in 0..MaxMishaps

TraceCaptureStart ==
  /\ pc = 0 /\ rolling = TRUE /\ log = <<>>
  /\ triggers = [w \in Trigger |-> [placed |-> TRUE, armed |-> TRUE, hits |-> 0]]
  /\ capture = NoTrace /\ report = NoReport
  /\ mishaps = 0

TraceCaptureInit == TraceCaptureStart /\ code \in Codes

----------------------------------------------------------------------------
\* The machine and the other clients.

isROMAddress(a) == a < RomEnd
isRAMAddress(a) == a >= RamStart

Recording == capture.phase \in {"warming", "window"}

Successors(a) == ({a + code[a]} \cup Targets) \cap Instruction

\* An armed watchpoint the instruction touches counts a hit and pauses the machine. While
\* lines are decoded nothing reads where the program is, and its steps are left out.
Struck(touched) == {w \in touched : triggers[w].placed /\ triggers[w].armed}

Retire(next, touched) ==
  /\ rolling /\ capture.phase \notin {"decoding", "done"} /\ next \in Successors(pc) /\ pc' = next
  /\ Recording => Len(log) < MaxExecuted
  /\ log' = IF Recording THEN Append(log, pc) ELSE log
  /\ \A w \in Struck(touched) : triggers[w].hits < MaxHits
  /\ triggers' = [w \in Trigger |-> IF w \in Struck(touched)
                                    THEN [triggers[w] EXCEPT !.hits = @ + 1] ELSE triggers[w]]
  /\ rolling' = (Struck(touched) = {})
  /\ capture' = IF Recording
                THEN [capture EXCEPT !.struck = @ \cup (Struck(touched) \X {pc})] ELSE capture
  /\ UNCHANGED <<code, report, mishaps>>

\* An instruction in RAM is overwritten, by the program or by another client.
Rewrite(a, length) ==
  /\ isRAMAddress(a) /\ code[a] # length /\ capture.phase # "done"
  /\ mishaps < MaxMishaps /\ mishaps' = mishaps + 1
  /\ code' = [code EXCEPT ![a] = length]
  /\ capture' = [capture EXCEPT !.intact = capture.phase = "idle" /\ @]
  /\ UNCHANGED <<pc, rolling, triggers, log, report>>

\* Other clients' mutations wait while the native operation runs, and are free after it.
Toggled == /\ ~Recording /\ capture.phase # "done" /\ mishaps < MaxMishaps /\ mishaps' = mishaps + 1
           /\ UNCHANGED <<code, pc, log, capture, report>>

PauseOrResume == Toggled /\ rolling' = ~rolling /\ UNCHANGED triggers

RemoveTrigger(w) ==
  /\ Toggled /\ triggers[w].placed
  /\ triggers' = [triggers EXCEPT ![w].placed = FALSE] /\ UNCHANGED rolling

----------------------------------------------------------------------------
\* The native operation.

\* The trigger is disarmed for a short warm-up; coverage and watchpoint captures run a parked
\* machine, a plain one does not.
BeginCapture(kind, filter, w) ==
  /\ capture.phase = "idle"
  /\ capture' = [NoTrace EXCEPT
                   !.kind = kind, !.filter = filter, !.trigger = w, !.wasRunning = rolling,
                   !.baseline = [x \in Trigger |-> triggers[x].hits],
                   !.phase = IF kind = "watchpoint" THEN "warming" ELSE "window"]
  /\ rolling' = (rolling \/ kind # "trace")
  /\ triggers' = IF kind = "watchpoint" THEN [triggers EXCEPT ![w].armed = FALSE] ELSE triggers
  /\ UNCHANGED <<code, pc, log, report, mishaps>>

BeginTrace(filter)    == BeginCapture("trace", filter, "none")
BeginCoverage(filter) == BeginCapture("coverage", filter, "none")
BeginWatchpoint(w)    == triggers[w].placed /\ BeginCapture("watchpoint", Whole, w)

Rearm ==
  /\ capture.phase = "warming"
  /\ capture' = [capture EXCEPT !.phase = "window"]
  /\ triggers' = [triggers EXCEPT ![capture.trigger].armed = TRUE] /\ rolling' = TRUE
  /\ UNCHANGED <<code, pc, log, report, mishaps>>

Passes(a, filter) ==
  /\ a >= filter.start /\ a < filter.end
  /\ filter.rom \/ ~isROMAddress(a)
  /\ filter.ram \/ ~isRAMAddress(a)

Filtered(text, filter) == Selected(text, LAMBDA a : Passes(a, filter))

\* The last max_entries lines of the file.
Recent == SubSeq(log, Max({0, Len(log) - EntryLimit}) + 1, Len(log))

\* Mutant of Fired: a watchpoint that has ever been hit has fired.
FiredEver == {w \in Trigger : triggers[w].placed /\ triggers[w].hits > 0}

\* The watchpoints whose counter advanced in the window.
Fired == {w \in Trigger : triggers[w].placed /\ triggers[w].hits > capture.baseline[w]}

\* The window ends on its timeout or, in a watchpoint capture, once the machine has stopped;
\* the prior run state comes back.
CloseWindow ==
  /\ capture.phase = "window" /\ rolling' = capture.wasRunning
  /\ capture' = [capture EXCEPT !.phase = "decoding", !.text = Recent, !.fired = Fired,
                                !.left = ToSet(Filtered(Recent, capture.filter))]
  /\ UNCHANGED <<code, pc, triggers, log, report, mishaps>>

----------------------------------------------------------------------------
\* Decoding: one disasm command at a time.

Outage(ok) == mishaps' = IF ok THEN mishaps ELSE mishaps + 1

CanFail(ok) == ok \/ mishaps < MaxMishaps

\* The addresses a linear sweep of count instructions lists from a on.
Swept(a, count) ==
  LET line[i \in 1..count] == IF i = 1 THEN a
                              ELSE IF line[i - 1] > CodeEnd THEN CodeEnd + 1
                              ELSE line[i - 1] + code[line[i - 1]]
  IN {line[i] : i \in 1..count} \cap Instruction

\* Mutant of Taken: the addresses the sweep jumps over count as decoded.
TakenOver(left, lines) == {a \in left : a <= Max(lines)}

\* A sweep serves the wanted addresses up to the first it jumps over.
Taken(left, lines) == {a \in left : \A b \in left : b <= a => b \in lines}

fetchInstructionLengths(ok) ==
  /\ capture.phase = "decoding" /\ capture.kind = "coverage" /\ capture.left # {} /\ CanFail(ok)
  /\ LET first == Min(capture.left)
         lines == Swept(first, Min({Cardinality(capture.left), SweepLimit}))
         taken == IF ok THEN Taken(capture.left, lines) ELSE {first}
         length(a) == IF ok /\ a \in lines THEN code[a] ELSE MinLength
     IN capture' = [capture EXCEPT !.left = @ \ taken, !.intact = @ /\ ok,
                      !.lengths = [a \in Instruction |-> IF a \in taken THEN length(a) ELSE @[a]]]
  /\ Outage(ok) /\ UNCHANGED <<captureMachine, triggers, log, report>>

\* A trace asks for every address once, in the order of its lines.
fetchInstructionInfo(ok) ==
  /\ capture.phase = "decoding" /\ capture.kind # "coverage" /\ capture.left # {} /\ CanFail(ok)
  /\ LET text == capture.text
         next == text[Min({i \in DOMAIN text : text[i] \in capture.left})]
     IN capture' = [capture EXCEPT !.left = @ \ {next}, !.intact = @ /\ ok,
                                   !.lengths = [@ EXCEPT ![next] = IF ok THEN code[next] ELSE 0]]
  /\ Outage(ok) /\ UNCHANGED <<captureMachine, triggers, log, report>>

----------------------------------------------------------------------------
\* What the lines become.

\* One event per line that passes, or per address when repetitions are dropped.
Rows(text, filter, lengths) ==
  LET lines == Filtered(text, filter)
      kept  == {i \in DOMAIN lines : filter.repeated \/ \A j \in 1..i - 1 : lines[j] # lines[i]}
  IN [n \in 1..Cardinality(kept) |->
        LET a == lines[Ascend(kept)[n]] IN [pc |-> a, length |-> lengths[a]]]

\* The runs of an ascending sequence of addresses, cut where an address is not the
\* one expected after its predecessor.
Runs(addresses, expected) ==
  FoldLeft(LAMBDA runs, a : IF runs # <<>> /\ a = expected[Last(Last(runs))]
                            THEN [runs EXCEPT ![Len(runs)] = Append(@, a)]
                            ELSE Append(runs, <<a>>),
           <<>>, addresses)

Span(run, counts) ==
  [start |-> Head(run), end |-> Last(run), members |-> ToSet(run),
   executions |-> MapThenSumSet(LAMBDA a : counts[a], ToSet(run))]

NextAddress == [a \in Instruction |-> a + 1]

FallThrough == [a \in Instruction |-> a + capture.lengths[a]]

\* Mutant of Counts: an address is counted once per run of it.
CountsOnce(lines) ==
  [a \in Instruction |-> Cardinality({i \in DOMAIN lines : lines[i] = a /\ (i = 1 \/ lines[i - 1] # a)})]

Counts(lines) == [a \in Instruction |-> Cardinality({i \in DOMAIN lines : lines[i] = a})]

\* Edges are the neighbours in the filtered sequence.
Edges(lines) ==
  [step \in Instruction \X Instruction |->
     Cardinality({i \in 2..Len(lines) : lines[i - 1] = step[1] /\ lines[i] = step[2]})]

Coverage ==
  LET lines  == Filtered(capture.text, capture.filter)
      unique == ToSet(lines)
      counts == Counts(lines)
  IN [NoReport EXCEPT
        !.counts = counts, !.edges = Edges(lines), !.complete = Cardinality(unique) <= AddressCap,
        !.ranges = {Span(run, counts) : run \in ToSet(Runs(Ascend(unique), NextAddress))},
        !.blocks = {Span(run, counts) : run \in ToSet(Runs(Ascend(unique), FallThrough))}]

Compose(kinds, answer, next) ==
  /\ capture.phase = "decoding" /\ capture.left = {} /\ capture.kind \in kinds
  /\ report' = answer
  /\ capture' = [capture EXCEPT !.phase = next]
  /\ UNCHANGED <<captureMachine, triggers, log, mishaps>>

ComposeCoverage == Compose({"coverage"}, Coverage, "done")

\* The rows are stored; a requested watchpoint that fired is then described.
ComposeTrace ==
  Compose({"trace", "watchpoint"},
          [NoReport EXCEPT !.rows = Rows(capture.text, capture.filter, capture.lengths)],
          IF capture.trigger \in capture.fired THEN "pc" ELSE "done")

fetchCPUCurrentPC(ok) ==
  /\ capture.phase = "pc" /\ CanFail(ok)
  /\ capture' = [capture EXCEPT !.phase = "details", !.pc = IF ok THEN pc ELSE 0]
  /\ Outage(ok) /\ UNCHANGED <<captureMachine, triggers, log, report>>

fetchWatchpointInfo(ok) ==
  /\ capture.phase = "details" /\ CanFail(ok)
  /\ capture' = [capture EXCEPT !.phase = "hits", !.found = ok /\ triggers[capture.trigger].placed]
  /\ Outage(ok) /\ UNCHANGED <<captureMachine, triggers, log, report>>

\* What the event says; the hit count is a second listing, and what is missing is 0.
DebugEvent(ok) ==
  LET now == triggers[capture.trigger]
  IN [resource |-> capture.trigger, pc |-> capture.pc, described |-> capture.found,
      hits |-> IF ok /\ now.placed THEN now.hits ELSE 0]

PushEvent(ok) ==
  /\ capture.phase = "hits" /\ CanFail(ok)
  /\ report' = [report EXCEPT !.event = {DebugEvent(ok)}]
  /\ capture' = [capture EXCEPT !.phase = "done"]
  /\ Outage(ok) /\ UNCHANGED <<captureMachine, triggers, log>>

TraceCaptureNext ==
  \/ \E next \in Instruction, touched \in {{}} \cup {{w} : w \in Trigger} : Retire(next, touched)
  \/ \E a \in Instruction, length \in Lengths : Rewrite(a, length)
  \/ PauseOrResume
  \/ \E w \in Trigger : RemoveTrigger(w)
  \/ \E filter \in CaptureFilters : BeginTrace(filter) \/ BeginCoverage(filter)
  \/ \E w \in Trigger : BeginWatchpoint(w)
  \/ Rearm \/ CloseWindow \/ ComposeCoverage \/ ComposeTrace
  \/ \E ok \in BOOLEAN : \/ fetchInstructionLengths(ok) \/ fetchInstructionInfo(ok)
                         \/ fetchCPUCurrentPC(ok) \/ fetchWatchpointInfo(ok) \/ PushEvent(ok)

TraceCaptureSpec == TraceCaptureInit /\ [][TraceCaptureNext]_captureVars

----------------------------------------------------------------------------
\* What a finished capture should say, in terms of the log of what ran.

\* The positions of the log a capture is about.
Shown == {i \in DOMAIN log : i > Len(log) - EntryLimit /\ Passes(log[i], capture.filter)}

Finished(kind) == capture.phase = "done" /\ capture.kind = kind

(***************************************************************************)
(* A coverage report counts every execution that passes its filter, among  *)
(* the last max_entries of the window, once: in counts, in exactly one     *)
(* range, which holds executed addresses only and touches no other range,  *)
(* and, without a filter, in the edges the program took                    *)
(* (tools_phase5.go:2597-2715, 2794-2923).                                 *)
(***************************************************************************)
CoverageFaithful ==
  Finished("coverage") =>
    LET unique == {log[i] : i \in Shown}
    IN /\ \A a \in Instruction : report.counts[a] = Cardinality({i \in Shown : log[i] = a})
       /\ UNION {range.start..range.end : range \in report.ranges} = unique
       /\ \A one, other \in report.ranges : one = other \/ one.end + 1 < other.start \/ other.end + 1 < one.start
       /\ MapThenSumSet(LAMBDA block : block.executions, report.blocks) = Cardinality(Shown)
       /\ capture.filter = Whole =>
            \A a, b \in Instruction :
              report.edges[<<a, b>>] = Cardinality({i \in Shown : i + 1 \in Shown /\ log[i] = a /\ log[i + 1] = b})

(***************************************************************************)
(* "Instruction-aware blocks": when no command failed and nothing rewrote  *)
(* the code, each block is straight-line code, exactly the instructions a  *)
(* disassembly from its start lists up to its end; the blocks partition the*)
(* executed addresses, and none could have been extended by the next one   *)
(* (tools_cpu.go:361-410, tools_phase5.go:2925-2973).                      *)
(***************************************************************************)
StraightBlocks ==
  (Finished("coverage") /\ capture.intact) =>
    LET unique == {log[i] : i \in Shown}
    IN /\ UNION {block.members : block \in report.blocks} = unique
       /\ \A block \in report.blocks :
            /\ block.members = Swept(block.start, Cardinality(block.members))
            /\ block.end = Max(block.members)
            /\ LET later == {a \in unique : a > block.end}
               IN later # {} => Min(later) # block.end + code[block.end]
       /\ \A one, other \in report.blocks : one = other \/ one.members \cap other.members = {}

(***************************************************************************)
(* The rows of a trace are the executed instructions that pass the filter, *)
(* in the order they ran, each with the length it had, and with            *)
(* retain_repeated false the first execution of each address               *)
(* (tools_cpu.go:884-1020).                                                *)
(***************************************************************************)
RowsFaithful ==
  capture.phase = "done" /\ capture.kind # "coverage" =>
    LET first(i) == \A j \in Shown : j < i => log[j] # log[i]
        chosen   == Ascend({i \in Shown : capture.filter.repeated \/ first(i)})
    IN /\ [n \in DOMAIN report.rows |-> report.rows[n].pc] = [n \in DOMAIN chosen |-> log[chosen[n]]]
       /\ capture.intact => \A n \in DOMAIN report.rows : report.rows[n].length = code[report.rows[n].pc]

(***************************************************************************)
(* A watchpoint event is recorded exactly when the requested watchpoint    *)
(* fired in the window, whatever other watchpoints have done before or in  *)
(* it, and the last row of the trace is the instruction that made it fire  *)
(* (tools_phase5.go:2202-2257, ExodusMcpPlugin.cpp:3207-3237).             *)
(***************************************************************************)
EventHonest ==
  Finished("watchpoint") =>
    /\ report.event # {} <=> \E a \in Instruction : <<capture.trigger, a>> \in capture.struck
    /\ report.event # {} => <<capture.trigger, Last(report.rows).pc>> \in capture.struck

(***************************************************************************)
(* What a trace call answers is true of the window it was about: its rows  *)
(* and its event (tools_cpu.go:884-1020, tools_phase5.go:2202-2257).       *)
(***************************************************************************)
TraceFaithful == RowsFaithful /\ EventHonest

=============================================================================
