# exodus-mcp in TLA+

exodus-mcp is a Go server that gives any number of MCP clients access to one Sega
Mega Drive emulator (Exodus). A native plugin inside the emulator executes commands
one at a time over a named pipe; everything else - who may change the machine, what
a client is told about it, what is recorded, what is stored - is decided in Go, by
goroutines that run one per tool call. This directory holds TLA+ models of that
decision making, the TLC configurations that check them, and TLAPS proofs about the
scheduler at their centre, captures, debug instruments, trace sessions, the persistent
stores, freezes, input sequences and replay.

Paths below are relative to `src/`; `mcp/`, `analysis/`, ... are under `internal/`.

## 1. Inventory

| component | code | state it keeps | operations | model |
|---|---|---|---|---|
| target revision | `analysis/target.go:18-85` | `generation`, `unknown` | Advance, MarkUnknown, ResynchronizeIfUnknown, Generation, Unknown | TargetScheduler |
| mutation scheduler | `mcp/mutation.go` | `schedulerMu` | executeMutation, the stamp of responses | TargetScheduler |
| control lock | `analysis/target.go:96-283` | the installed lock, its TTL, the drop hook | Acquire, Renew, Release, DropIf, Active, Valid | ControlRegistry |
| lock tools | `mcp/tools_target.go` | - | target_control_acquire, _renew, _release, _status | TargetScheduler |
| audit stream | `analysis/audit.go` | ring of 2000 entries | Record, Query | order and honesty in TargetScheduler, ring and pages in Listings |
| bridge and pipe | `bridge/*`, the plugin's pipe thread | one connection | Execute, deadlines, disconnect | TargetScheduler |
| read path | `mcp/server.go` (runCommand, executeCommand), `mcp/tools.go` | status cache | callTool | TargetScheduler |
| run-state tracker | `mcp/runstate.go` | last observed run state, its provenance | observe, setByMCP, setBreakpointStop | RunState |
| capture windows | `mcp/consistency.go`, `tools_capture.go`, `tools_system_snapshot.go` | locals of a call | begin, sample, close, withCaptureGuard | CaptureWindow |
| debug instruments | `mcp/server.go`, `tools_control.go`, `tools_run_until.go` | provenance maps, event ring | set, remove, list, sweep | DebugStops |
| run_until | `mcp/tools_run_until.go` | locals of a call | the whole tool | DebugStops |
| trace sessions | `mcp/tools_trace_session.go`, `tracing/*`, the plugin's trace commands and monitor thread | native segments and drain cursor; session objects with ring, carry and loss counters; the current one; manifest files | start, status, events, stop, recover; rotate, seal, evict, drain | TraceStore, TraceSession (access stream) |
| trace and coverage captures | `mcp/tools_cpu.go`, `tools_phase5.go` | locals of a call, native window | cpu_trace_capture, its watchpoint variant, cpu_coverage_capture | TraceCapture |
| artifact store and index | `artifact/*` | files, entries and captures, the index document | RegisterArtifact, RegisterCapture, ExpireOlderThan, DeleteContext, reload; artifact_list | ArtifactStore; the pages in Listings |
| analysis contexts, annotations, state records | `analysis/context.go`, `annotations.go`, `persist.go`, `states.go` | registries, `contexts.json`, one annotation document per context, state files | create, close, prune, annotate, import, erase, state_save, _delete, restart | Workspace; the pages in Listings |
| freeze engine | `mcp/tools_freeze.go` | the freeze registry | memory_freeze, _remove, _clear, the sweeper | MachineHolds |
| input sequences, ledger | `mcp/tools_input_sequence.go`, `input_ledger.go` | buttons commanded down | input_set, input_sequence | MachineHolds |
| replay | `mcp/tools_replay.go` | locals of a call | deterministic_replay | Replay |
| experiments | `experiment/*`, `mcp/tools_experiment.go` | child process, reader, waiter, budgets | run, step protocol, manifest | Experiment |
| memory search and differences | `mcp/tools_phase5.go` | stored dumps; the cursor in the client | memory_search, memory_diff | Searches |
| events and paging | `mcp/tools_events.go`, `paging.go` | debug event ring; the cursor in the client | events_list and the cursors of all listings | Listings |
| decoders, argument contract, symbols, start-up, scripts | see `PROJECT.json` | none | - | not modelled: stateless conversion or I/O |

### How the parts interact

* Every tool call runs on its own goroutine. A mutation takes `schedulerMu`, checks
  the caller's optional guards (expected generation, control id), sends one native
  command, advances the generation, writes an audit entry, unlocks. A read sends its
  command without `schedulerMu`; the response is stamped with the generation at its end.
* The pipe has one instance. A client that meets its deadline closes its end, but the
  plugin may still execute the command it has read: late, and unknown to the server.
* The lock registry has a mutex of its own, and *releases it* to run the hook that
  audits a dropped lock.
* The tracker learns of mutations after `schedulerMu` is released, of observations when
  a status answer has been digested, and of breakpoint stops in the sweep of whichever
  call saw the machine paused first. Captures and run_until decide by what it says.
* A trace session lives twice: natively, as segment files under a retention cap with one
  drain cursor, and in the server, as an object fed by the drains of whichever tool call
  comes by. Drains take no lock, so they meet each other, a start, a stop or a reload.
* A tool call resolves its context at its start and acts in it later, with no lock that
  keeps the context: it may be closed and pruned meanwhile. Artifacts, records, annotations
  and contexts are separate stores, each with its own mutex and its own document.
* The freeze sweeper writes past `schedulerMu`, from a copy of the set. input_sequence and
  deterministic_replay are several mutations under one control lock that may run out.
* A client walks a listing by cursors while the rows under it are added, changed and expired.
* Users click in the emulator's UI. The server finds out when it looks.

### What is hard

Interleavings inside executeMutation (two looks at the target, two looks at the lock),
commands that land after their caller has given up, knowledge that is old when it is
used (stamp, tracker, instrument lists), windows left open by an early return, locks
whose TTL passes in the middle of a call, records that are evicted, cut or deleted
between the engine and the client, stores whose document lags behind the memory when a
write fails or the process dies, contexts pruned under a call at work, cursors into a
stream that moves, children that stop talking, and returning at all when the plugin is
silent. `PROJECT.json` lists each hazard at its line with the property that covers
it, or the reason why none does.

### What makes each part correct

| part | property |
|---|---|
| scheduler | The audit stream is one ordered history of the machine (`AuditTrailOrdered`), each generation has exactly one cause (`GenerationAccounted`), no entry lies about an effect, even one that comes later (`AuditHonest`); mutations form one line of revisions (`ImplementsRevisionHistory`); a guard built on an earlier mutation protects it (`WriteGuardSound`); calls return (`MutationReturns`). |
| control lock | Its holder has the machine to itself (`NoForeignMutation`); a lock that ended is reported ended once (`LockEndReported`). |
| captures | All samples of a composite are of one emulated moment and the run state is given back (`ExclusiveWindow`); a read never silently leaves the machine paused (`GuardNeverLeaks`); captures return with their lock (`CaptureReturns`). |
| instruments | Recorded stops happened (`StopsAreReal`); run_until reports its own hit and a removal that took place (`UntilHonest`); nobody sweeps away an instrument a window waits for (`WindowOwnsRemoval`); run_until ends (`UntilEnds`). |
| trace sessions | A session holds its own records, in order, once (`DrainExact`); what retention removed is counted (`NoSilentLoss`); an enumeration by cursor misses nothing unannounced (`PagingHonest`); complete means complete (`CompleteIsComplete`, which the code does not keep). |
| trace and coverage captures | Counts, ranges and edges agree with what was executed (`CoverageFaithful`), blocks are straight-line code and maximal (`StraightBlocks`), rows and the watchpoint event are true of the window (`TraceFaithful`). |
| stores | A listed artifact has its bytes (`EntriesHaveBytes`); what a response promised survives any crash (`Durable`); what was removed does not come back, and a prune leaves nothing (`RemovalsHold`); a snapshot record names a file that exists (`SnapshotsReadable`). |
| listings | A walk by cursors lists nothing twice and leaves nothing out that stayed (`WalkExact`). |
| freezes and pads | The set keeps its cap and one entry for each cell (`FreezeSetSound`); frozen bytes come back (`FrozenIsRewritten`); a sequence leaves none of its buttons down (`SequenceReleases`). |
| replay | A deterministic verdict means that the passes saw the same frames (`VerdictSound`); the target is left as the answer says (`LeftAsFound`). |
| experiments | The manifest tells what was done, in the script's order (`ManifestFaithful`); every run ends and leaves no child (`RunEnds`). |
| search and differences | A walk reports exactly the matches or differences of the bytes it began with, in order (`EnumerationExact`). |

## 2. Modules

```
ControlRegistry  <-- TargetScheduler --refines--> RevisionHistory
                          ^
                     MCTargetScheduler, TargetSchedulerProofs
RunState <-- CaptureWindow <-- MCCaptureWindow, CaptureWindowProofs
RunState <-- DebugStops    <-- MCDebugStops, DebugStopsProofs
TraceStore <-- TraceSession <-- MCTraceSession, TraceSessionProofs
ArtifactStore <-- Workspace <-- MCWorkspace, WorkspaceProofs
Listings, MachineHolds, Replay, Experiment, Searches, TraceCapture <-- MCTools
Orders <-- Listings, Experiment, Searches, TraceCapture
Listings, Searches, TraceCapture <-- AnswersProofs
MCTools, AnswersProofs <-- ToolsProofs
ListLemmas <-- WorkspaceProofs, TraceSessionProofs, ToolsProofs, AnswersProofs
TargetScheduler, DebugStops, MachineHolds, Experiment  <-- (INSTANCE) MCReturns
```

(`<--`: is extended by. The MC modules add the symmetry set. MCTools and MCReturns also
choose the tool, or the component, a behaviour is about.)

**ControlRegistry** is the lock with its hook. Expiry is lazy, as in the code: `lock`
stays installed after its TTL has passed (`Expire`) until a method meets it. Each method
is an operator over the registry. One that meets an expired lock *drops* it, which clears
`lock`, leaves the mutex (`drop[t].phase = "hook"`) and comes back with the answer it had
computed before; other threads run in between.

**TargetScheduler** is executeMutation in the code's steps: `EnterScheduler` (take
schedulerMu, read Generation), `CheckGeneration` (read Unknown), `CheckActive`,
`CheckValid`, `Prepare`, the exchange with the plugin (`Status...`, `Send`, `DialFails`,
`Receive`, `GiveUp`), then `FailAmbiguous`, `FailProvably`, or `Advance` and
`RecordLanded`. Reads take `Resynchronize` and `Stamp`. The plugin is `Execute`
(a mutation takes effect, fully, partly or not at all) and `Disconnect`; a client that
gave up leaves its command on the pipe (`left`). `machine` counts effects. It stands for
the emulator's contents: two states with the same count are the same history.
`effects`, `landed` and `resyncs` are history variables only properties read.

**RevisionHistory** is what the scheduler promises: one line of revisions, where a
mutation moves from the current revision to a new one, an ambiguous failure loses the
revision, and an observation opens a fresh one. The mapping reads
`revision <- gen, known <- ~unknown, landings <- Landings`.

**RunState** holds the tracker's methods as operators. **CaptureWindow** runs guarded
reads, `memory_snapshot_capture` and `system_snapshot_capture` against cpu_pause,
cpu_run, emulator_status, lock tools, expiry and UI clicks. A mutation there is admission
(under schedulerMu), native effect, and a later `Note` to the tracker. Samples are the
emulated `moment`s they see. **DebugStops** has breakpoints and watchpoints with the hit
counters the plugin keeps, and the server's provenance. It also has the sweep in the
code's steps: list, snapshot of provenance, one instrument at a time, event, removal,
first breakpoints and then watchpoints. run_until polls around it. A mutation is a single
step there. TargetScheduler has its detail, and only the server's own steps around it
matter to stops.

**TraceStore** holds the server's session object as operators: parsing of whole and cut
lines, the carry between chunks, the ring, the loss counters, the page after a cursor,
the manifest and what comes back from it. A line is two cells, so that a chunk may end
inside it. Two half lines joined by mistake are malformed or, when both were cut inside
the number, misread.

**TraceSession** puts the plugin before it. `native` is its session: segments as runs of
record numbers, the retention cap, the one drain cursor. `WriteRecord` is the engine;
`Rotate`, `CloseWindow`, `FrameLimit` and `ProcessorGone` are the monitor thread. A
collection is `ReadCarry`, then `Drain` and `Feed` per chunk (a native command, its
digestion), then `KeepCarry`; status, events and stop all begin with one. Start, stop and
rom_load act under schedulerMu, natively (`StartNative`, `StopNative`, `LoadNative`) and
then on the registry (`Commit...`). `Snapshot` and `Save` write the manifest; `Recover`,
`CheckLive`, `Install` bring it back, also after `ServerRestart`. `owner`, `gone` and
`drains` are history, and so is the field `clean`, which marks the sessions whose
collections did not overlap and lost no chunk. A session is `Undisturbed` if it is clean and
`drains` shows that it and its native session were drained into each other alone: a
collection for an old session object may take a chunk of the new native session, which then
looks complete to both. To the others the code promises nothing (`PROJECT.json`, "hazards").

**ArtifactStore** has the critical sections of the store as operators; each takes whether
the write of the index document succeeded. **Workspace** adds the context registry, the
annotations and the state records, and is the threads that call them: `Resolve` first,
then the store's sections in the order of the tool (bytes, entry, capture; file, record,
evicted file; registry, documents), `Sweep`, and `Restart`, which reads the documents back
and forgets everything in memory. Every disk operation may fail. `promised`, `said`,
`removed`, `used` and `disturbed` are history: what answers have said, and which contexts
were pruned under a call at work.

**Listings** is five streams with their own orders, cursors and filters (audit entries, the
mutation projection, annotations, artifacts, debug events) and a client that walks one of
them while rows are recorded, rewritten, deleted and expired. Each page is the code's own
resumption after its cursor: a sequence number, a time with an identity, or an offset. The
walk remembers which rows were there all along and which the cursor cannot place any more.

**Orders** says what sorting, filtering and listing in order come to, without recursion: a
finite set in the order of a relation, and the members of a list at some of its places.

**MachineHolds** is the freeze set with its sweeper, and the pads with the ledger of the
buttons the server believes down. Freezes are prepared, sent and committed under the
scheduler; the sweeper copies the set (`CopyFreezes`) and writes each entry past it
(`WriteFreeze`). An input_sequence is one mutation per press, advance and release under a
control lock that may run out. The ledger is read and written in two steps after the
scheduler is free. **Replay** is deterministic_replay as the sequence of mutations it makes,
each of which may fail, time out or not be echoed, with the machine rendering frames
whenever it runs. `seen` is what each pass saw since its restore.

**Experiment** has the script, the reader, the waiter, the deadline and the runner's loop
as five processes. The script may fail to start or to read its init message (`Greet`). The
loop takes whichever of line, exit and deadline is ready; executing a call, replying to it
and counting it are separate steps, and the reply may block on a script that does not
read. A fixture's steps go through the same steps.

**Searches** is memory_search and memory_diff over the stored dumps, with their windows,
alignment, cell width and byte order, and their cursors, against references that say in
one set comprehension which addresses belong to the answer. **TraceCapture** is the native
window that records instructions, and what three tools make of the recorded lines with
the commands that follow the window: disassembly sweeps for the lengths of the
instructions, blocks, edges, ranges, the watchpoint event. The machine runs on meanwhile
and may rewrite its code.

**MCTools** puts six of these beside one another: their states are disjoint in the code
and in the models, so that a behaviour of the run is one of the six with the others at
rest. It checks each of them as a run of its own would. **MCReturns** does the same for
the liveness properties of four components, with the fairness each module states.

Abstractions common to all: payloads, addresses, names and wording are gone; ids are
model values; time is absent, and a TTL or a deadline may pass at any moment; tool
arguments are chosen from what the caller can know (`basis`, `mine`).

## 3. Runs

| run | instance | what it shows |
|---|---|---|
| target_scheduler | 3 threads, 3 lock ids, 3 calls | type, the audit properties, WriteGuardSound, LockEndReported, NoForeignMutation and the refinement, over all interleavings |
| capture_windows | 2 threads, 3 calls, 2 moments, 1 UI click | ExclusiveWindow, GuardNeverLeaks |
| capture_returns | 2 threads, 2 calls, fairness | CaptureReturns |
| debug_stops | 2 threads, 1 breakpoint and 1 watchpoint of break counter 2, 3 calls or UI clicks, 1 stop of each | StopsAreReal, UntilHonest, WindowOwnsRemoval |
| trace_sessions | 2 threads, 3 calls, 2 sessions in both modes, 3 records, 1 retained segment, ring of 2, chunks of one and a half lines, 1 failure | DrainExact, NoSilentLoss, PagingHonest |
| workspace | 2 threads, the default context and 2 more, 2 artifacts, 1 capture, 2 notes, 2 snapshots, 4 calls, 2 failed disk operations or crashes; caps of 1 note and 1 snapshot | EntriesHaveBytes, Durable, RemovalsHold, SnapshotsReadable |
| tools | Listings: 3 rows of 3 kinds, 2 moments, pages of 1, ring of 2, 1 change during a walk. MachineHolds: 2 callers, 3 calls, 2 cells and buttons, cap of 1, 1 failure. Replay: 2 steps, 2 upsets. Experiment: 3 messages, 2 steps, 1 artifact. Searches: 5 addresses, 5 searches, 6 differences, 2 writes of the program. TraceCapture: 4 instructions, 4 executed, 2 triggers, 1 mishap | WalkExact, FreezeSetSound, SequenceReleases, VerdictSound, LeftAsFound, ManifestFaithful, EnumerationExact, CoverageFaithful, StraightBlocks, TraceFaithful |
| calls_return | 2 scheduler threads with 2 calls, 1 run_until thread with 2 calls, 2 callers of the holds with 2 calls, a script of 2 messages, fairness | MutationReturns, UntilEnds, FrozenIsRewritten, RunEnds |
| acquire_race, stale_stamp, capture_leak, trace_complete | the above, 2 or 3 calls (one thread in trace_complete) | a claim of a comment or document that the code does not keep (section 5) |

Why the bounds are enough. Each property is about at most three calls: one that establishes
something (a generation, a lock, an armed instrument), one that disturbs it, and one that
relies on it, so three calls in all, on as many threads as can overlap in a way the property
can see. Renewing and acquiring count as calls; releasing, expiring and closing need no
bound. Three lock ids allow a lock, its successor, and the one a race installs. Two moments
tell "same" from "different". Two hits with break counter 2 tell a counted hit from a stop.
Chunks of three cells cut every second line in the middle; three records fill a ring of two
and reach over a segment boundary; one retained segment makes the second seal evict. In the
stores, four calls store something, rely on it, prune it and disturb the prune, and two
faults let a write fail and the process die after it; caps of one make the second note
refused and the second snapshot evict. Three rows over pages of one give a walk with a row
before, at and after the cursor, and a ring of two drops one of them. Steps of one and of
two frames tell an extra frame from a step, and two cells of two bytes in a space of five
tell aligned from misaligned offsets at both ends. Every property has a mutant of the code
(`PROJECT.json`, "mutants") that the same run refutes, so the interesting case occurs in
each. In the scheduler, captures, stops and sessions deadlock is checked: quiescence is the
explicit `NoMoreCalls`, allowed only when every thread is idle. The cfgs of workspace, tools
and calls_return switch the check off (`CHECK_DEADLOCK FALSE`), because there the end of a
walk, a run or a replay, or having used up the bounds, is a state the system may rest in;
that calls do not hang is what calls_return and capture_returns say.

### Fairness

* WF on the steps of a call that has started: a goroutine that can run, runs. Steps
  that wait for the plugin are enabled by the deadline (`GiveUp`): `applyDeadline`
  (`bridge/client_windows.go:123`) bounds every exchange, so no fairness of the plugin,
  and none of the clients, is assumed.
* SF on taking schedulerMu: `sync.Mutex` hands the lock to a waiter that has starved for 1 ms.
* SF on `JudgeLate` in DebugStops: polls that find the machine running do not come
  before the deadline for ever.

* WF on the sweeper's `CopyFreezes` and `WriteFreeze`: its ticker goes on for the life of the
  process, and it takes neither the scheduler nor the lock.
* Of an experiment: WF on the runner's steps that wait for nobody (`Unblocked`), on the
  timer (`Expire`), the kill and the end of a killed process, the waiter and the reader.
  None on the script, which may write nothing, read nothing and never exit.

MCReturns states the same conjuncts, each guarded by the component the behaviour is about.
Starting calls, UI clicks, hits and the expiry of locks are never fair.

## 4. Proofs

For every number of threads, callers, contexts, cells, segments and ids, and every bound:

| theorem | module | statement |
|---|---|---|
| TypeCorrect | TargetSchedulerProofs | `Spec => []TypeOK` |
| Inductive | TargetSchedulerProofs | `Spec => []IInv` |
| TrailOrdered | TargetSchedulerProofs | `Spec => []AuditTrailOrdered` |
| Refinement | TargetSchedulerProofs | `Spec => ImplementsRevisionHistory` |
| AuditIsHonest | TargetSchedulerProofs | `Spec => []AuditHonest` |
| LockEndsAreReported | TargetSchedulerProofs | `Spec => []LockEndReported` |
| GenerationsAreAccounted | TargetSchedulerProofs | `Spec => []GenerationAccounted` |
| ControlIsExclusive | TargetSchedulerProofs | `Spec => NoForeignMutation` |
| GuardIsSound | TargetSchedulerProofs | `Spec => []WriteGuardSound` |
| CapturesAreTyped | CaptureWindowProofs | `Spec => []TypeOK` |
| CapturesAreExclusive | CaptureWindowProofs | `Spec => []ExclusiveWindow` |
| GuardsNeverLeak | CaptureWindowProofs | `Spec => []GuardNeverLeaks` |
| DebugStopsAreTyped | DebugStopsProofs | `Spec => []TypeOK` |
| RecordedStopsAreReal | DebugStopsProofs | `Spec => []StopsAreReal` |
| UntilAnswersHonestly | DebugStopsProofs | `Spec => []UntilHonest` |
| WindowsOwnTheirRemoval | DebugStopsProofs | `Spec => WindowOwnsRemoval` |
| SessionsAreTyped | TraceSessionProofs | `Spec => []TypeOK` |
| PagesAreHonest | TraceSessionProofs | `Spec => []PagingHonest` |
| DrainsAreExact | TraceSessionProofs | `Spec => []DrainExact` |
| LossIsNotSilent | TraceSessionProofs | `Spec => []NoSilentLoss` |
| WorkspaceTypeCorrect | WorkspaceProofs | `WorkspaceSpec => []WorkspaceTypeOK` |
| EntriesKeepBytes | WorkspaceProofs | `WorkspaceSpec => []EntriesHaveBytes` |
| PromisesAreDurable | WorkspaceProofs | `WorkspaceSpec => []Durable` |
| RemovalsAreFinal | WorkspaceProofs | `WorkspaceSpec => []RemovalsHold` |
| RecordsNameFiles | WorkspaceProofs | `WorkspaceSpec => []SnapshotsReadable` |
| FreezesStaySound | ToolsProofs | `HoldsSpec => []FreezeSetSound` |
| SequencesRelease | ToolsProofs | `HoldsSpec => []SequenceReleases` |
| HoldsAreTyped | ToolsProofs | `HoldsSpec => []HoldsTypeOK` |
| ReplayIsTyped | ToolsProofs | `ReplaySpec => []ReplayTypeOK` |
| VerdictsAreSound | ToolsProofs | `ReplaySpec => []VerdictSound` |
| TargetLeftAsFound | ToolsProofs | `ReplaySpec => []LeftAsFound` |
| ManifestsAreFaithful | ToolsProofs | `ExperimentSpec => []ManifestFaithful` |
| ExperimentsAreTyped | ToolsProofs | `ExperimentSpec => []ExperimentTypeOK` |
| ToolsAreTyped | ToolsProofs | `Spec => []ToolsTypeOK` (the composition of MCTools) |
| SearchesAreTyped | AnswersProofs | `SearchesSpec => []SearchesTypeOK` |
| EnumerationsAreExact | AnswersProofs | `SearchesSpec => []EnumerationExact` |
| ListingsAreTyped | AnswersProofs | `ListingsSpec => []ListingsTypeOK` |
| WalksAreExact | AnswersProofs | `ListingsSpec => []WalkExact` |
| TraceCapturesAreTyped | AnswersProofs | `TraceCaptureSpec => []TraceCaptureTypeOK` |
| TracesAreFaithful | AnswersProofs | `TraceCaptureSpec => []TraceFaithful` |
| CoveragesAreFaithful | AnswersProofs | `TraceCaptureSpec => []CoverageFaithful` |
| BlocksAreInstructionAware | AnswersProofs | `TraceCaptureSpec => []StraightBlocks` |

Assumptions, all of them named `ASSUME`s that TLC evaluates: `None` and `Nothing` are not
ids, the kinds of ids are disjoint (`IdAssumption`: in the code each id carries the prefix
of its kind; `NoneAssumption`), no state of the pipe is `None` (`ConnectionAssumption`), and
bounds are natural numbers (`MaxCallsAssumption`, `WorkspaceAssumption`, `HoldsAssumption`,
`ReplayAssumption`, `ExperimentAssumption`, `SearchesAssumption`, `ListingsAssumption`,
`SessionAssumption`, `TraceCaptureAssumption`).
`SearchesAssumption` says besides what a parsed query is: a pattern has at least one byte, a
cell is one or two bytes wide, addresses are natural numbers (uint64 in the code).
`TraceCaptureAssumption` says that there is a program, that an instruction has a length, that
the program branches to instructions, that limits are positive, and that a filter's range is not empty
(parseTraceFilters refuses it).
`HoldsAssumption` says besides that the plans of a sequence press something, `SessionAssumption` that a chunk is at least two cells, a whole
line: `kTraceSessionMinDrainBytes` is 4096, and no line is longer.

### The scheduler

`AuditTrailOrdered` is not inductive: an entry is appended two steps after
the generation it carries was read, and in between reads may resynchronise the target.
`IInv == TypeOK /\ LocalsOK /\ TrailBehind /\ AuditTrailOrdered` adds

* `LocalsOK`: a thread at a step of executeMutation holds schedulerMu; the generation it
  read is not ahead of the target's; what it is about to record begins before it ends
  and ends no later than the target's generation;
* `TrailBehind`: no landed entry on record ends later than the target's generation nor,
  while a mutation is under way, later than the generation that mutation read.

The second part is what schedulerMu buys: the landed entries on record were complete
before the current holder read the generation, so the entry it appends starts after all
of them. `TypeStep` has one case per action; `LocalsStep` and `TrailStep` split the
actions into those that leave the trail alone (`QuietSteps`) and `RecordLanded`. The
refinement follows action by action: `Advance` maps to a landing, `Resynchronize` to an
observation, `FailAmbiguous` to a loss, everything else to a stutter; `RecordLanded` moves
a pair from what is due to what is recorded and so leaves the set of landings as it is.

The other five theorems each extend it by one conjunct. `AuditInv` identifies a mutation by
its number: at each step of executeMutation it says whether the number may be in `effects`
(`EffectsOK`), and the command on the pipe is that of the call waiting for it or that of a
client which left, whose entry is or will be `ambiguous` (`PipeOK`), so that a command that
lands late never contradicts a `failed` (`RefusalsFinal`). `ControlInv` says that once a
command under the installed lock was sent, every call behind `CheckActive`, and the pending
command on the pipe, present that lock (`WindowHeld`), and that a thread inside the drop hook
is at one of a few steps (`SuspendedOK`). `GuardInv` says that a trusted generation a
mutation returned describes the machine, or the call that changed it is about to say so
(`MachineKnown`), and that a guard once checked still holds, but for a raced call
(`GuardKept`). `GenerationInv` and `LockInv` turn the cardinalities into unique witnesses
(`OpenedOnce`, `ReportedOnce`).

### Captures and instruments

`CaptureInv == TypeOK /\ LocalOK /\ HoldsOK /\ MachineOK`. `HoldsOK`: only the holder of
schedulerMu acts on the machine, and a composite's own lock is installed unless its TTL has
passed. `MachineOK`: of a composite that stopped the machine under such a lock, while nothing
has disturbed it, no other call is about to act, the machine is stopped until the composite
resumes it, and the samples taken are of the present moment.

`StopsInv == Shape /\ Counted /\ Believed /\ Owned`. A sweep works from lists and a copy of
the provenance that may be old. `Believed` says what an old list is still worth: hit counters
only grow and break counters never change, so that a proof of a hit found in a list stays
true. `Counted` ties the counters to the stops. `Owned` says that the instruments of two
calls are different, and that every copy of the provenance, in whatever sweep, defers the
removal of an instrument a window waits for.

### Sequences, freezes, replay

`FreezeSetSound`: the cap and the uniqueness are checked in `Admit` and relied on in
`Commit`, a native command later. `FreezeInv == HeldTypes /\ RoomKept /\ FreezeSetSound` says
that the call in between holds the scheduler, so that the room it found is still there: only
the holder changes the set, and the sweeper only reads it. `SequenceReleases` needs `Held`:
a sequence that was never disturbed has the lock, so that nobody gets in and whoever was in
before it is out by its first press, and of the buttons it has tried only that of the step
under way may be down (`OneDown`). The history variables `tried` and `left` are there to
state it. For the types, the bound on the programs loaded needs that a load counts from the
moment it is begun (`LoadsFit`).

`ReplayInv` has the place of the call in its steps and among its passes (`PlaceOK`), the
buttons down at each place (`PadOK`), and, while neither the user nor another client has
acted, `RunsOK` and `StillOK`: each pass has seen the frames of its steps and no others, and
the machine moves by the frames of the call alone from the snapshot on.

### Experiments

The manifest is compared with all that the script has written, of which the runner has seen
a beginning. `ExperimentInv` keeps count of it: *p* of the messages have been handled, the
channel and the reader's hand hold the next ones in order (`Piped`), and after them at most
one event for the end of the output, sent by a reader that then stops. `Told` relates the run
to those *p* messages: while the script is listened to, the calls among them are the steps
(or the steps and the one being executed); "completed" means that the last of them was
`complete` and nothing is taken after it; and however the run ends, its steps are the calls
among the first few. `RunSound` has the ids: a call being executed has an id that no step has.
Writing appends, so it changes nothing of the first *p* (`SaidStays`); taking a message adds
its call to them or nothing (`SaidGrows`); and the calls of a beginning are a beginning of
the calls (`SaidIsPrefix`).

The calls of a list are the members at the places of its calls, in ascending order.
`ListLemmas` has what is needed of that: the members of a finite set have different numbers
of members before them, so that every place is taken (`EveryPlaceIsTaken`); a list of a set
in strict order is *the* list of it (`ListsAreUnique`); and of two sets, one below the other,
the lists are joined (`AscendJoins`). The module also has the induction over numbers and the
facts on smallest and greatest members and on sums that the folds of the trace modules need.

### Searches

`SearchesInv` says which bytes a walk is about and what it has listed of them. The window of a
search lies in its snapshot and, where the snapshot has provenance, begins at the address it
was captured from (`FitsSearch`); the snapshots of a comparison have one length, and it
begins where the first was captured (`FitsDiff`). Dumps are only appended, so the next page
finds the same offsets. `Enumerated`: the rows so far are the offsets below the resume point,
or all of them when the walk is done, and they ascend. A page is a beginning of the ascending
list of what is left (`PageRows`), so it continues the rows and moves the resume point past
its last one (`PageKeeps`).

That the rows are the right ones is one equation per kind: the offsets of the scan, moved to
addresses, are the addresses at which the bytes match (`MatchesAreExact`) or the cells differ
(`DifferencesAreExact`). `CellsAligned` is the part a test would hardly reach: the scan's first
cell and stride give exactly the addresses divisible by the width, also in a snapshot that
begins at an odd address. Of a legacy dump in a comparison only the shape of the walk is
claimed: a later page forgets the address the caller gave.

### Listings

`Precedence(stream)` is the order of a stream and `Picked(stream, query)` what a query selects
of the stored rows; each listing is all of the second in the first (`ListingInOrder`), also
where ids are random and several rows share a creation time. `WalkInv` then says what an open
walk has and what is still ahead of it, in two ways, because the code has two kinds of cursor.

* A keyset (`AnchoredOpen`: audit, mutations, annotations, debug events): the rows listed are in the order
  of the stream, the cursor is the key of the last, and every steady row (stored and selected
  since the first page) is among them or behind that key. A page is a beginning of what lies
  behind it (`AnswersPage`). No change of the rows disturbs this, since it speaks of the
  listed rows' keys and not of their places; only an import that overwrites gives a listed
  row another key, and those rows are in `moved`.
* An offset (`CountedOpen`: artifacts): every row that was not moved is listed if and only if
  its place in the listing is at most the offset, and then at that place. Here every change
  needs the count of rows before a row (`PlacesSurvive`): a late registration displaces what
  sorts behind it, an expiry everything.

`ChangesKeep` is the step for any change that issues no id twice and names what it moved
(`Sound`); the seven actions that change a stream are instances of it. `ListingsAreTyped` is
more than types in one place: a counted stream never holds more rows than its cap, because
the rows it retains are told apart by the number of newer ones (`RetainedFit`).

### Trace captures

`CaptureInv` follows the call from its window to its answer. `ReadBack`: the text is the newest
part of the log, which nothing extends once the window is closed. `DecodedRight`: while no
command has failed and nothing was overwritten, a line that is no longer left to decode has
the length of its instruction: a sweep serves the wanted addresses up to the first it jumps
over, all of which it has listed, and the others wait for a sweep of their own (`Taken`). `ReportRight`: the report is the conversion of that text with
those lengths, and has an event exactly when the requested watchpoint is among the fired.
`TriggerRight` ties the fired to the window: the counter passed its baseline exactly when the
watchpoint was struck there, by the last instruction of the log, because the hit stops the
machine and the capture resumes nothing before it is closed. So `struck` speaks of the
window, whatever the other clients' hits, removals and pauses. Most actions change none of this
(`UnmovedKeeps`), or only move the call on (`AdvancingKeeps`).

That the rows are the right ones is about lists. The filtered lines are the shown positions of
the log in ascending order (`LinesAreShown`), and an ascending map carries the list of one set
to the list of the other (`AscendMaps`); with repetitions dropped the kept lines are the first
ones, on both sides (`RowsAre`).

The ranges and the blocks of a coverage are one fold over the executed addresses in ascending
order, which continues a run where the next address is the expected one. The invariant of that
fold (`RunsOf`, proved by induction over the number of addresses taken) says that the runs hold
the addresses taken, in order; inside a run each address is the one expected after the one
before, and across a cut it is not. From it the runs partition the addresses and are as long as
they can be (`SpansPartition`, `SpansAreMaximal`). For
the ranges, where one more is expected, it follows that they are whole and do not touch
(`RangesAreWhole`); for the blocks, where the length of the instruction is expected, that a block
is what a disassembly from its start lists (`SpansAreSwept`). The executions of the blocks add
up because those of each address are disjoint sets of lines and the runs are disjoint sets of
addresses (`SumOfParts`, used twice, in `ExecutionsAddUp`). Edges are pairs of neighbouring lines,
and without a filter neighbouring lines are neighbouring positions of the log (`EdgesAreTrue`).

### Trace sessions

`TypeInv` (with `Shape` for the native session, `Ring` for an object, `CallOK` for a call)
is far more than the types. The segments are consecutive runs of the record numbers, all but
the last sealed; the drain cursor is in one of them or right behind the last, and inside a
file before its end; the chunk a collection holds is a piece of one file, so that
parsing it leaves at most half a line to carry. Each operation on the native session has
a lemma that it keeps `Shape` and moves the cursor only over records that are read or lost
(`Advances`). Parsing and filling the ring are folds. A fold of the community modules is a
function by well-founded recursion over finite sets, and `NaturalsAreReached`, a first-order
induction over a set of naturals, is enough to unfold it from either end
(`AddAccessEventsByOne`, `ParseByOne`): so what whole lines parse to, and what a run of
records does to the ring, are lemmas for any length.

`PagesAreHonest` needs `ReadersInv`: the object of an enumeration exists and never shrinks
(`Grown`), and the call that continues it is about the same object. The rest is the
arithmetic of one page (`PageCounts`).

`DrainsAreExact` and `LossIsNotSilent` rest on
`DrainInv == TypeInv /\ OwnersInv /\ StartsInv /\ ObjectsRight`.

* `OwnersInv`: the records of one native session are consecutive in the numbering, its
  segments hold the newest of them, and if one of them was lost, `unread` is positive. This
  is what makes "missing" a difference of sets that the counters can equal.
* `StartsInv`: a start between its native command and its commit holds the scheduler, its id
  is in nobody else's hands, and if the native session it made is still there, nothing of it
  has been drained by another. The new object therefore begins where its session begins.
* `ObjectsRight`, for each clean object. Between drains it is `Standing`: it was fed the
  records of its own session below the cursor that were not lost, and its carry goes on where
  the cursor stands (`Joined`). While the one collection that serves it is under way it is
  `Flying`: the chunk in the collection's hands, joined to the carry or with the carry
  dropped (`Cut`), is the whole lines of one run of the session's own records; what is below
  that run is fed or lost, what is between it and the cursor is lost.

An action either leaves every object as it was (`Spared`), or it is a step of a collection.
The lifecycle of the native session, its retention and rotation spare the objects because
they only move the cursor over records that are lost (`StandingStays`, `FlyingStays`). A
step of a collection concerns the one object it serves (`DrainSparesOthers`), and
`FeedingLeavesRight` is the heart: what a chunk parses to, after the carry was kept or
dropped, is the run of records from the last one fed to the cursor, and
`access_sequence_gaps` grows by the size of the hole in front of it. An `Undisturbed`
object of the two properties is a clean one to which all data of its session, and no other,
was given (`Taps`); the invariant promises the rest of it nothing either. TLC has checked
`OwnersInv`, `StartsInv` and `ObjectsRight` on the instance of the run before they were
proved (2,160,535 states).

### The stores

None of the four properties is inductive alone, because calls carry ids from
one critical section to the next while other calls, sweeps and crashes come between.
`WInv` is their conjunction with

* `UsedInv`: whatever memory, disk or an answer knows of was generated before, so that a
  fresh id meets nothing old;
* `BytesInv`: a call about to enter an artifact has its bytes on disk, no entry exists yet,
  and no other call is about to enter the same;
* `IndexInv`: of an artifact whose file exists, the document knows what the memory knows or
  nothing (a failed write may leave a *removed* artifact in the document, but its file is gone
  and a restart skips it);
* `RemovedInv`, `PromisedInv`, `CapturesInv`: what was removed has no file; what was
  promised is in memory and in the document; a capture names parts that can be recovered or
  were removed by expiry;
* `NotesInv`, `SaidInv`: the same for annotations and for the states of contexts;
* `PruningAbsent`, `PruneInv`: a context being pruned is out of the registry already, and
  what an undisturbed prune has worked through is empty;
* `SnapshotInv`: the records of a context name distinct existing files, and the file a call
  is about to record or to remove is in no list, nor in the hands of another call.

There is one lemma per part (`UsedStep`, `BytesStep`, ..., `SnapshotStep`), each with a case
for every action that can disturb the part and a common case for those that cannot
(`Effects`). `PruneStep` reasons about one context at a time (`PruneInvPointwise`).
`StepHolds` puts them together. `ListLemmas` has what the removal of an element does to a
list.

### The tools together

MCTools runs one tool at a time. Its behaviours are behaviours of each of the six modules
(`EachToolRuns`), so `ToolsAreTyped` follows from the six theorems on types. The same lemma
carries the other theorems of ToolsProofs and AnswersProofs to the specification the run
checks.

### Model-checked only

* The liveness properties `MutationReturns`, `CaptureReturns`, `UntilEnds`,
  `FrozenIsRewritten` and `RunEnds`: fairness and ENABLED are beyond the prover.

## 5. Disagreements found

| run | claim | what the code does |
|---|---|---|
| acquire_race | `target.go`: acquisition fails while another lock is active | Two acquisitions meet an expired lock; the one that runs the hook, with the mutex released, then installs its lock over the other's. |
| stale_stamp | `mutation.go:340`: a read, then a mutation guarded by its generation, is a safe round trip | The stamp is taken when the response is completed, not when the read executed; a mutation in between is invisible to the guard. |
| capture_leak | `tools_capture.go:287`: a partial capture never leaks a paused system | Two error returns inside the window skip `closeWindow`. |
| trace_complete | `docs/TRACE-SESSIONS.md:155`: loss.complete means that the capture covered the requested window with no gaps | trace_session_stop drains first; the native stop then seals the open segment and deletes it, undrained and uncounted. |

Further divergences met while modelling, without a run of their own; those that bite are
hazards in `PROJECT.json` with the reason why no property covers them:

* A capture can resume a machine the user has paused meanwhile (`mcp/consistency.go:106`), and
  one whose pause fails ambiguously leaves it paused (`consistency.go:242`).
* A run_until can take its own hit for a preemption (`tools_run_until.go:812`), and an
  instrument set during a sweep loses its provenance (`:802`).
* A debug-event page asked for by its cursor alone is filtered by that call's arguments
  (`tools_events.go:377-411`, `paging.go:177`), and a memory_diff cursor forgets the start
  address and the permission to compare unlike dumps.
* A script that writes `complete` and exits at once may be recorded as failed
  (`experiment/runner.go:514` against `protocol.go:20` and `:83`).
* The sweeper may write a frozen range once more after memory_freeze_remove has answered:
  it works from a copy (`tools_freeze.go:236`).
* Two calls of input_set that overlap may leave the ledger without one of the buttons: it is
  read and written in two steps (`input_ledger.go`).
* `lock_acquired` is recorded after Acquire has returned, so the stream may show the end of a
  lock before its beginning (`tools_target.go:126`).

## 6. Not modelled

* Of the modelled components: the contents of results and audit details, ROM identity, frame
  tokens, the live (unpaused) mode of captures, the provenance envelope finalised after a
  capture, register conditions. Of trace sessions: the execution stream (the same drain, carry
  and counters again), watches, filters and totals, the export of events to files and their
  recovery, the retention cap in bytes, the limit of 64 drains per collection. Of the stores:
  encodings, names, tags and ranges of annotations, export formats, ages and sizes of single
  artifacts.
* snapshot_diff, state_diff and the merging of captures compare or join documents in one step
  and keep nothing; queries over stored traces likewise.
* The decoding of VDP, tiles, sprites, audio and registers (`mcp/tools_vdp.go`,
  `tools_phase1.go`, the rest of `tools_cpu.go`): conversions of a payload without control
  state, covered by the unit tests of the repository. As reads, they are in
  TargetScheduler and CaptureWindow.
* Argument validation, aliases, error wording, symbols, flags, launching the emulator, HTTP:
  stateless or pure I/O.
* The Exodus SDK behind the plugin. Only what the server relies on is in the models:
  one command at a time, fresh instrument ids, hit counters that stop the machine at
  multiples of the break counter.

## 7. Plan

1. (done) ControlRegistry, TargetScheduler, RevisionHistory; the scheduler's inductive
   invariant and refinement.
2. (done) RunState, CaptureWindow, DebugStops.
3. (done for the access stream) TraceStore, TraceSession. Left: exported event files and
   their recovery; the abstract specification, a session as a log of what the engine
   wrote with its holes counted, and the refinement to it.
4. (done) ArtifactStore, Workspace, Listings; the inductive invariant of the workspace.
5. (done) MachineHolds, Replay; the invariant of the freeze set.
6. (done) Experiment.
7. (done) Searches, TraceCapture.
8. (done) The proofs of section 4.
9. Runs for the divergences of section 5 that have none.
