----------------------------- MODULE DebugStops -----------------------------
(***************************************************************************)
(* Debug instruments and the stops they cause (internal/mcp/               *)
(* tools_run_until.go, tools_control.go, server.go). The plugin keeps the  *)
(* armed breakpoints and watchpoints with their hit counters, the server   *)
(* keeps the provenance of those it knows of. Whoever observes the machine *)
(* paused sweeps them: it lists the instruments, drops the provenance of   *)
(* what is not listed, attributes the pause to what has fired, records an  *)
(* event and removes what was set one-shot. run_until arms an instrument,  *)
(* runs the machine under the control lock and polls until it stops.       *)
(*                                                                         *)
(* A mutation is one step, with the refusal, the provable failure and the  *)
(* ambiguous one that TargetScheduler details. What the server does after  *)
(* it, or between two native reads, are steps of their own.                *)
(***************************************************************************)
EXTENDS RunState, Sequences, FiniteSetsExt

CONSTANTS
  Thread,
  Breakpoint, Watchpoint,  \* instrument ids, in the order the sweep takes them
  Every,       \* the break counters a breakpoint may be set with
  MaxCalls,    \* bound: tool calls, and run-state changes made in the UI, in one behaviour
  MaxStops,    \* bound: stops by one instrument
  ListsMayFail \* whether a list command may fail

ASSUME BoundsAssumption ==
  /\ ListsMayFail \in BOOLEAN
  /\ {MaxCalls, MaxStops} \cup Every \subseteq Nat /\ 0 \notin Every
ASSUME OrderAssumption ==
  /\ Breakpoint \cup Watchpoint \subseteq Nat
  /\ \A b \in Breakpoint, w \in Watchpoint : b < w
  /\ None \notin Breakpoint \cup Watchpoint \cup Thread

VARIABLES
  running,   \* the machine's run state
  armed,     \* the instruments the plugin holds
  every,     \* per instrument its break counter, 0 while it was never set
  hits,      \* per instrument its native hit counter
  fired,     \* history: per instrument, the counter values at which it stopped the machine
  managed,   \* server.breakpoints and server.watchpoints: the provenance, by instrument
  events,    \* server.debugEvents: per instrument, the counter values recorded
  lock,      \* the serial number of the call that holds the control lock, or 0
  pc, call,  \* per thread, the next step of its call and the call's locals
  calls

machineVars == <<running, armed, every, hits, fired>>
vars == <<observed, mcpSet, stop, running, armed, every, hits, fired,
          managed, events, lock, pc, call, calls>>

Instrument == Breakpoint \cup Watchpoint
Tool == {"until", "set", "remove", "cpu_run", "cpu_pause", "rom_load", "emulator_status"}

\* serial numbers the calls, and is the control id of the lock a run_until takes.
\* scan is the kind being swept, listed and metas the two snapshots the sweep
\* works on. outcome and removal are what a run_until answers.
NoCall == [tool |-> "none", serial |-> 0, id |-> None, oneShot |-> FALSE, answer |-> "unknown",
           scan |-> {}, listed |-> <<>>, metas |-> <<>>,
           outcome |-> "none", removal |-> "none"]

Init ==
  /\ TrackerInit
  /\ running \in BOOLEAN
  /\ armed = {}
  /\ every = [i \in Instrument |-> 0] /\ hits = [i \in Instrument |-> 0]
  /\ fired = [i \in Instrument |-> {}]
  /\ managed = <<>>
  /\ events = [i \in Instrument |-> <<>>]
  /\ lock = 0
  /\ pc = [t \in Thread |-> "idle"]
  /\ call = [t \in Thread |-> NoCall]
  /\ calls = 0

Goto(t, step) == pc' = [pc EXCEPT ![t] = step]
Finish(t) == Goto(t, "idle") /\ call' = [call EXCEPT ![t] = NoCall]

-----------------------------------------------------------------------------
(* The machine.                                                             *)

\* The core counts every passing hit, and stops the machine at the multiples of
\* the break counter.
Hit(i) ==
  /\ running /\ i \in armed /\ hits[i] < MaxStops * every[i]
  /\ hits' = [hits EXCEPT ![i] = @ + 1]
  /\ running' = (hits'[i] % every[i] # 0)
  /\ fired' = [fired EXCEPT ![i] = IF running' THEN @ ELSE @ \cup {hits'[i]}]
  /\ UNCHANGED <<trackerVars, armed, every, managed, events, lock, pc, call, calls>>

\* The user pauses or runs the machine in the UI.
ToggleInUI ==
  /\ calls < MaxCalls
  /\ calls' = calls + 1
  /\ running' = ~running
  /\ UNCHANGED <<trackerVars, armed, every, hits, fired, managed, events, lock, pc, call>>

-----------------------------------------------------------------------------
(* The provenance maps, under debugMu.                                      *)

Forget(i) == managed' = [j \in DOMAIN managed \ {i} |-> managed[j]]

\* Mutant of HandBack: the entry is written back whether it was present or not.
HandBackUnchecked(i) ==
  managed' = [j \in DOMAIN managed \cup {i} |->
                IF j # i THEN managed[j]
                ELSE IF i \in DOMAIN managed THEN [managed[i] EXCEPT !.defer = FALSE]
                ELSE [oneShot |-> FALSE, defer |-> FALSE, every |-> 0, control |-> 0]]

\* setDebugResourceDeferRemoval(false) does nothing for an unknown instrument.
HandBack(i) == managed' = [j \in DOMAIN managed |->
                             IF j = i THEN [managed[j] EXCEPT !.defer = FALSE] ELSE managed[j]]

-----------------------------------------------------------------------------
(* Calls.                                                                   *)

\* A run_until takes the control lock, and refuses when another call holds it. (A
\* control id of the caller's would take the place of the one taken here.)
StartUntil(t) ==
  /\ pc[t] = "idle" /\ calls < MaxCalls /\ lock = 0
  /\ calls' = calls + 1 /\ lock' = calls + 1
  /\ call' = [call EXCEPT ![t] = [NoCall EXCEPT !.tool = "until", !.serial = calls + 1,
                                                !.oneShot = TRUE]]
  /\ Goto(t, "set")
  /\ UNCHANGED <<trackerVars, machineVars, managed, events>>

FirstStep(tool) == CASE tool = "set" -> "set"
                     [] tool = "remove" -> "remove"
                     [] tool \in {"cpu_run", "cpu_pause", "rom_load"} -> "control"
                     [] tool = "emulator_status" -> "ask"

Start(t) ==
  /\ pc[t] = "idle" /\ calls < MaxCalls
  /\ calls' = calls + 1
  /\ \E tool \in Tool \ {"until"}, oneShot \in BOOLEAN, i \in DOMAIN managed \cup {None} :
       /\ tool = "remove" <=> i # None
       /\ oneShot => tool = "set"
       /\ call' = [call EXCEPT ![t] = [NoCall EXCEPT !.tool = tool, !.oneShot = oneShot, !.id = i]]
       /\ Goto(t, FirstStep(tool))
  /\ UNCHANGED <<trackerVars, machineVars, managed, events, lock>>

-----------------------------------------------------------------------------
(* Mutations: executeMutation with the control id control.                  *)

Admitted(control) == lock \in {0, control}

\* The plugin numbers the instruments of each kind in order.
Fresh == {Min(unused) : unused \in
            {{i \in kind : every[i] = 0} : kind \in {Breakpoint, Watchpoint}} \ {{}}}

\* breakpoint_set, watchpoint_set. A watchpoint has no break counter but 1.
Set(t) ==
  /\ pc[t] = "set"
  /\ \E i \in Fresh, n \in Every \cup {1}, answered \in BOOLEAN :
       /\ n \in (IF i \in Watchpoint THEN {1} ELSE Every)
       /\ Admitted(call[t].serial)
       /\ armed' = armed \cup {i}
       /\ every' = [every EXCEPT ![i] = n]
       /\ IF answered THEN Goto(t, "track") /\ call' = [call EXCEPT ![t].id = i]
          ELSE IF call[t].tool = "until"
          THEN Goto(t, "reply") /\ call' = [call EXCEPT ![t].outcome = "failed"]
          ELSE Finish(t)
  /\ UNCHANGED <<trackerVars, running, hits, fired, managed, events, lock, calls>>

\* Refused, or failed without an effect.
SetFails(t) ==
  /\ pc[t] = "set"
  /\ IF call[t].tool = "until"
     THEN Goto(t, "reply") /\ call' = [call EXCEPT ![t].outcome = "failed"]
     ELSE Finish(t)
  /\ UNCHANGED <<trackerVars, machineVars, managed, events, lock, calls>>

\* trackDebugResource, once the set has returned.
Track(t) ==
  /\ pc[t] = "track"
  /\ LET i == call[t].id
         meta == [oneShot |-> call[t].oneShot, defer |-> call[t].tool = "until",
                  every |-> every[i], control |-> call[t].serial]
     IN managed' = [j \in DOMAIN managed \cup {i} |-> IF j = i THEN meta ELSE managed[j]]
  /\ IF call[t].tool = "until" THEN Goto(t, "control") /\ UNCHANGED call ELSE Finish(t)
  /\ UNCHANGED <<trackerVars, machineVars, events, lock, calls>>

\* cpu_run and cpu_pause, the run of a run_until, and rom_load, which deletes the
\* plugin's instruments and, in its commit, the server's provenance.
Control(t) ==
  /\ pc[t] = "control"
  /\ Admitted(call[t].serial)
  /\ running' \in CASE call[t].tool = "cpu_pause" -> {FALSE}
                    [] call[t].tool = "rom_load"  -> BOOLEAN
                    [] OTHER                      -> {TRUE}
  /\ IF call[t].tool = "rom_load" THEN armed' = {} /\ managed' = <<>>
     ELSE UNCHANGED <<armed, managed>>
  /\ call' = [call EXCEPT ![t].answer = Label(running')]
  /\ Goto(t, "note")
  /\ UNCHANGED <<trackerVars, every, hits, fired, events, lock, calls>>

\* Refused, or failed: provably, or with an effect nobody was told of.
ControlFails(t) ==
  /\ pc[t] = "control"
  /\ \/ UNCHANGED <<running, armed>>
     \/ /\ Admitted(call[t].serial)
        /\ running' \in CASE call[t].tool = "cpu_pause" -> {FALSE}
                          [] call[t].tool = "rom_load"  -> BOOLEAN
                          [] OTHER                      -> {TRUE}
        /\ armed' = IF call[t].tool = "rom_load" THEN {} ELSE armed
  /\ IF call[t].tool = "until"
     THEN Goto(t, "remove") /\ call' = [call EXCEPT ![t].outcome = "failed"]
     ELSE Finish(t)
  /\ UNCHANGED <<trackerVars, every, hits, fired, managed, events, lock, calls>>

\* recordStateFromPayload.
Note(t) ==
  /\ pc[t] = "note"
  /\ SetByMCP(call[t].answer)
  /\ IF call[t].tool = "until"
     THEN Goto(t, "ask") /\ call' = [call EXCEPT ![t].answer = "unknown"]
     ELSE Finish(t)
  /\ UNCHANGED <<machineVars, managed, events, lock, calls>>

\* The remove tools, and removeInstrument: the commit forgets the provenance, a
\* missing instrument counts as removed, any other failure hands it to the sweep.
Removed(t, result) ==
  IF call[t].tool = "until"
  THEN Goto(t, "reply") /\ call' = [call EXCEPT ![t].removal = result]
  ELSE Finish(t)

RemoveInstrument(t) ==
  /\ pc[t] = "remove" /\ Admitted(call[t].serial)
  /\ \/ armed' = armed \ {call[t].id} /\ call[t].id \in armed /\ Forget(call[t].id)
     \/ /\ call[t].id \notin armed /\ UNCHANGED armed
        /\ IF call[t].tool = "until" THEN Forget(call[t].id) ELSE UNCHANGED managed
  /\ Removed(t, "removed")
  /\ UNCHANGED <<trackerVars, running, every, hits, fired, events, lock, calls>>

RemoveFails(t) ==
  /\ pc[t] = "remove"
  /\ armed' \in {armed} \cup (IF Admitted(call[t].serial) THEN {armed \ {call[t].id}} ELSE {})
  /\ IF call[t].tool = "until" THEN HandBack(call[t].id) ELSE UNCHANGED managed
  /\ Removed(t, "failed")
  /\ UNCHANGED <<trackerVars, running, every, hits, fired, events, lock, calls>>

-----------------------------------------------------------------------------
(* fetchEmulatorStatus, by emulator_status and by the poll of a run_until.  *)

\* The native answer.
Ask(t) ==
  /\ pc[t] = "ask"
  /\ call' = [call EXCEPT ![t].answer = Label(running), ![t].scan = Breakpoint]
  /\ Goto(t, IF running THEN "observe" ELSE "list")
  /\ UNCHANGED <<trackerVars, machineVars, managed, events, lock, calls>>

\* The status command fails, or the poll finds its context cancelled.
AskFails(t) ==
  /\ pc[t] = "ask"
  /\ IF call[t].tool = "until"
     THEN Goto(t, "remove") /\ call' = [call EXCEPT ![t].outcome = "failed"]
     ELSE Finish(t)
  /\ UNCHANGED <<trackerVars, machineVars, managed, events, lock, calls>>

\* The end of one sweepDebugKind: breakpoints first, then watchpoints.
NextScan(t) ==
  IF call[t].scan = Breakpoint
  THEN /\ Goto(t, "list")
       /\ call' = [call EXCEPT ![t].scan = Watchpoint, ![t].listed = <<>>, ![t].metas = <<>>]
  ELSE /\ Goto(t, "observe")
       /\ call' = [call EXCEPT ![t].scan = {}, ![t].listed = <<>>, ![t].metas = <<>>]

\* breakpoint_list, watchpoint_list.
List(t) ==
  /\ pc[t] = "list"
  /\ call' = [call EXCEPT ![t].listed = [i \in armed \cap call[t].scan |-> hits[i]]]
  /\ Goto(t, "metas")
  /\ UNCHANGED <<trackerVars, machineVars, managed, events, lock, calls>>

\* A sweep whose list command fails passes the kind over.
ListFails(t) ==
  /\ pc[t] = "list" /\ ListsMayFail
  /\ NextScan(t)
  /\ UNCHANGED <<trackerVars, machineVars, managed, events, lock, calls>>

\* debugResourceMetas.
Metas(t) ==
  /\ pc[t] = "metas"
  /\ IF DOMAIN managed \cap call[t].scan = {} THEN NextScan(t)
     ELSE /\ call' = [call EXCEPT ![t].metas =
                        [i \in DOMAIN managed \cap call[t].scan |-> managed[i]]]
          /\ Goto(t, "sweep")
  /\ UNCHANGED <<trackerVars, machineVars, managed, events, lock, calls>>

\* Mutant of FiredProof: any counted hit passes for a stop.
FiredOnce(hitCount, breakCounter) == hitCount >= 1

\* instrumentFiredProof: the counter is a positive multiple of the break counter.
FiredProof(hitCount, breakCounter) == hitCount >= 1 /\ hitCount % breakCounter = 0

Swept(t) == Min(DOMAIN call[t].metas)
SweptDone(t) == call' = [call EXCEPT ![t].metas = [i \in DOMAIN @ \ {Swept(t)} |-> @[i]]]

\* One instrument of the sweep: its provenance is dropped when it was not listed,
\* it is passed over when it has not fired, and else the pause is attributed to it.
Sweep(t) ==
  /\ pc[t] = "sweep" /\ DOMAIN call[t].metas # {}
  /\ LET i == Swept(t) IN
     \/ /\ i \notin DOMAIN call[t].listed
        /\ Forget(i) /\ SweptDone(t) /\ UNCHANGED <<trackerVars, pc>>
     \/ /\ i \in DOMAIN call[t].listed /\ ~FiredProof(call[t].listed[i], call[t].metas[i].every)
        /\ SweptDone(t) /\ UNCHANGED <<trackerVars, managed, pc>>
     \/ /\ i \in DOMAIN call[t].listed /\ FiredProof(call[t].listed[i], call[t].metas[i].every)
        /\ SetBreakpointStop(i)
        /\ Goto(t, "push") /\ UNCHANGED <<managed, call>>
  /\ UNCHANGED <<machineVars, events, lock, calls>>

SweepEnds(t) ==
  /\ pc[t] = "sweep" /\ DOMAIN call[t].metas = {}
  /\ NextScan(t)
  /\ UNCHANGED <<trackerVars, machineVars, managed, events, lock, calls>>

\* Mutant of SweepsAway: the sweep does not leave the removal to the run_until.
SweepsOneShots(meta) == meta.oneShot

SweepsAway(meta) == meta.oneShot /\ ~meta.defer

\* pushSweepDebugEvent, after two native reads: the event is folded into the last
\* one of the instrument when the counter is the same.
Push(t) ==
  /\ pc[t] = "push"
  /\ LET i == Swept(t)  h == call[t].listed[i] IN
     /\ events' = IF events[i] # <<>> /\ events[i][Len(events[i])] = h THEN events
                  ELSE [events EXCEPT ![i] = Append(@, h)]
     /\ IF SweepsAway(call[t].metas[i]) THEN Goto(t, "away") /\ UNCHANGED call
        ELSE Goto(t, "sweep") /\ SweptDone(t)
  /\ UNCHANGED <<trackerVars, machineVars, managed, lock, calls>>

\* The one_shot_sweep mutation, with the control id the instrument was set with.
SweepAway(t) ==
  /\ pc[t] = "away"
  /\ LET i == Swept(t) IN
     \/ /\ Admitted(call[t].metas[i].control) /\ i \in armed
        /\ armed' = armed \ {i}
        /\ Forget(i) \/ UNCHANGED managed
     \/ UNCHANGED <<armed, managed>>
  /\ Goto(t, "sweep") /\ SweptDone(t)
  /\ UNCHANGED <<trackerVars, running, every, hits, fired, events, lock, calls>>

\* The observation reaches the tracker only now.
ObserveAnswer(t) ==
  /\ pc[t] = "observe"
  /\ Observe(call[t].answer)
  /\ IF call[t].tool = "until" THEN Goto(t, "judge") /\ UNCHANGED call ELSE Finish(t)
  /\ UNCHANGED <<machineVars, managed, events, lock, calls>>

-----------------------------------------------------------------------------
(* The verdict of a run_until.                                              *)

\* Mutant of Verdict: any attributed stop is taken for the window's own.
VerdictAnyStop(t) == IF stop # None THEN "hit" ELSE "preempted"

Verdict(t) == IF stop = call[t].id THEN "hit" ELSE "preempted"

\* The machine was found paused: by the instrument, or by somebody else.
JudgePaused(t) ==
  /\ pc[t] = "judge" /\ call[t].answer = "paused"
  /\ call' = [call EXCEPT ![t].outcome = Verdict(t), ![t].answer = "unknown"]
  /\ Goto(t, "remove")
  /\ UNCHANGED <<trackerVars, machineVars, managed, events, lock, calls>>

\* It was found running, before the deadline: poll again.
JudgeRunning(t) ==
  /\ pc[t] = "judge" /\ call[t].answer = "running"
  /\ call' = [call EXCEPT ![t].answer = "unknown"]
  /\ Goto(t, "ask")
  /\ UNCHANGED <<trackerVars, machineVars, managed, events, lock, calls>>

\* Mutant of JudgeLate: the deadline is passed over.
JudgeLateAgain(t) == JudgeRunning(t)

\* It was found running, after the deadline.
JudgeLate(t) ==
  /\ pc[t] = "judge" /\ call[t].answer = "running"
  /\ call' = [call EXCEPT ![t].outcome = "timeout", ![t].answer = "unknown"]
  /\ Goto(t, "remove")
  /\ UNCHANGED <<trackerVars, machineVars, managed, events, lock, calls>>

\* The return, and the deferred Release of the lock, if it is still held.
Reply(t) ==
  /\ pc[t] = "reply"
  /\ lock' = IF lock = call[t].serial THEN 0 ELSE lock
  /\ Finish(t)
  /\ UNCHANGED <<trackerVars, machineVars, managed, events, calls>>

\* The lock's TTL, 120 s, passes before the window is over.
LockExpires ==
  /\ lock # 0
  /\ lock' = 0
  /\ UNCHANGED <<trackerVars, machineVars, managed, events, pc, call, calls>>

-----------------------------------------------------------------------------
Step(t) ==
  \/ Set(t) \/ SetFails(t) \/ Track(t) \/ Control(t) \/ ControlFails(t) \/ Note(t)
  \/ RemoveInstrument(t) \/ RemoveFails(t)
  \/ Ask(t) \/ AskFails(t) \/ List(t) \/ ListFails(t) \/ Metas(t)
  \/ Sweep(t) \/ SweepEnds(t) \/ Push(t) \/ SweepAway(t) \/ ObserveAnswer(t)
  \/ JudgePaused(t) \/ JudgeRunning(t) \/ Reply(t)

NoMoreCalls ==
  /\ \A t \in Thread : pc[t] = "idle"
  /\ UNCHANGED vars

Next ==
  \/ \E t \in Thread : StartUntil(t) \/ Start(t) \/ Step(t) \/ JudgeLate(t)
  \/ \E i \in Instrument : Hit(i)
  \/ ToggleInUI \/ LockExpires
  \/ NoMoreCalls

\* A call that has started goes on. A deadline passes: of the polls that find the
\* machine running, one is after it.
Fairness == \A t \in Thread : WF_vars(Step(t)) /\ SF_vars(JudgeLate(t))

Spec == Init /\ [][Next]_vars
FairSpec == Spec /\ Fairness

-----------------------------------------------------------------------------
(* Properties.                                                              *)

Meta == [oneShot : BOOLEAN, defer : BOOLEAN, every : Every \cup {1}, control : 0..MaxCalls]

\* Every variable keeps its type.
TypeOK ==
  /\ TrackerTypeOK(Instrument)
  /\ running \in BOOLEAN
  /\ armed \subseteq Instrument
  /\ every \in [Instrument -> Every \cup {0, 1}]
  /\ \A i \in Instrument : /\ hits[i] \in 0 .. MaxStops * every[i]
                          /\ fired[i] \subseteq 1 .. hits[i]
                          /\ \A k \in DOMAIN events[i] : events[i][k] \in 1 .. hits[i]
  /\ DOMAIN managed \subseteq Instrument /\ \A i \in DOMAIN managed : managed[i] \in Meta
  /\ lock \in 0..MaxCalls /\ calls \in 0..MaxCalls
  /\ \A t \in Thread :
       /\ call[t].tool \in Tool \cup {"none"} /\ call[t].serial \in 0..MaxCalls
       /\ call[t].id \in Instrument \cup {None}
       /\ pc[t] = "idle" <=> call[t].tool = "none"

\* What the server says of stops is true, however stale the lists its sweeps work
\* on: every recorded event is a hit that stopped the machine, and the instrument a
\* pause is attributed to has stopped it.
StopsAreReal ==
  /\ \A i \in Instrument : \A k \in DOMAIN events[i] : events[i][k] \in fired[i]
  /\ stop # None => fired[stop] # {}

\* A run_until that reports a hit was stopped by its own instrument, and one that
\* reports the instrument removed leaves it disarmed.
UntilHonest ==
  \A t \in Thread : pc[t] = "reply" =>
    /\ call[t].outcome = "hit" => fired[call[t].id] # {}
    /\ call[t].removal = "removed" => call[t].id \notin armed

\* While a run_until waits for its instrument, no sweep of another call removes it:
\* the window would lose the removal it reports.
Waits(t) == call[t].tool = "until" /\ call[t].id # None /\ pc[t] \notin {"remove", "reply"}

WindowOwnsRemoval ==
  [][\A s, t \in Thread : pc[s] = "away" /\ pc'[s] # "away" /\ Waits(t) =>
                           call[t].id \notin armed \ armed']_vars

\* A run_until ends, whether its instrument fires or not.
UntilEnds == \A t \in Thread : call[t].tool = "until" ~> pc[t] = "idle"
=============================================================================
