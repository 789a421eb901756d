--------------------------- MODULE CaptureWindow ---------------------------
(***************************************************************************)
(* Paused captures (internal/mcp/consistency.go, tools_capture.go,         *)
(* tools_system_snapshot.go): a capture pauses the machine if the run-state *)
(* tracker says it runs, samples it in several native reads, and restores  *)
(* the run state it found. Three kinds of window do so:                    *)
(*   "guard"   withCaptureGuard, around one read tool, under no lock       *)
(*   "memory"  memory_snapshot_capture                                     *)
(*   "system"  system_snapshot_capture                                     *)
(* The last two hold the control lock for the whole window: one the client *)
(* acquired and passes, or one of their own. Around them other clients call *)
(* cpu_pause, cpu_run and emulator_status, and a user clicks in the        *)
(* emulator's UI, which the server does not see. No debug instrument is    *)
(* set here: DebugStops has them.                                          *)
(*                                                                         *)
(* A mutation is two steps here, its admission under schedulerMu and its   *)
(* native effect: TargetScheduler has the detail, and shows that a late    *)
(* effect of a timed-out command precedes the next command. The tracker    *)
(* learns of a mutation in a third step, after schedulerMu is released.    *)
(***************************************************************************)
EXTENDS RunState, FiniteSets

CONSTANTS
  Thread,
  Client,      \* the id of a lock that target_control_acquire gave to a client
  MaxCalls,    \* bound: tool calls in one behaviour
  MaxMoment,   \* bound: emulated moments
  MaxToggles   \* bound: run-state changes made in the UI

ASSUME BoundsAssumption == {MaxCalls, MaxMoment, MaxToggles} \subseteq Nat
ASSUME ClientAssumption == Client \notin Thread /\ None \notin Thread \cup {Client}

VARIABLES
  running, moment,  \* the machine: its run state, and the emulated time
  toggles,          \* UI changes so far
  sched,            \* the holder of schedulerMu, or None
  lock, lockLive,   \* the installed control lock by owner, and whether it is unexpired
  pc, win,          \* per thread, the next step of its call and the call's locals
  calls

machineVars == <<running, moment, toggles>>
lockVars == <<lock, lockLive>>
vars == <<observed, mcpSet, stop, running, moment, toggles, sched, lock, lockLive,
          pc, win, calls>>

Window == {"guard", "memory", "system"}
Composite == {"memory", "system"}
Tool == Window \cup {"cpu_pause", "cpu_run", "emulator_status"}

\* control is the id the call's mutations present, paused is PausedByTool, failed
\* says that a composite's samples are incomplete, restore is the code the response
\* carries for the run state ("none": no word). landed ("stopped" a running machine,
\* or met a "paused" one), resumed and disturbed are history: what the window's own
\* mutations really did, and whether the UI or the end of a lock of its own got in
\* its way.
NoWin == [kind |-> "none", control |-> None, action |-> "run", initial |-> "unknown",
          paused |-> FALSE, moments |-> {}, failed |-> FALSE, restore |-> "none",
          landed |-> "no", resumed |-> FALSE, disturbed |-> FALSE]

Init ==
  /\ TrackerInit
  /\ running \in BOOLEAN /\ moment = 0 /\ toggles = 0
  /\ sched = None
  /\ lock = None /\ lockLive = FALSE
  /\ pc = [t \in Thread |-> "idle"]
  /\ win = [t \in Thread |-> NoWin]
  /\ calls = 0

Goto(t, step) == pc' = [pc EXCEPT ![t] = step]
Finish(t) == Goto(t, "idle") /\ win' = [win EXCEPT ![t] = NoWin]
ActiveLock == IF lockLive THEN lock ELSE None

-----------------------------------------------------------------------------
(* Calls.                                                                   *)

\* cpu_pause, cpu_run: one mutation, which may present the client's lock.
StartControl(t) ==
  /\ pc[t] = "idle" /\ calls < MaxCalls
  /\ \E kind \in {"cpu_pause", "cpu_run"}, c \in {None, Client} :
       win' = [win EXCEPT ![t] = [NoWin EXCEPT !.kind = kind, !.control = c,
                                               !.action = IF kind = "cpu_run" THEN "run" ELSE "pause"]]
  /\ Goto(t, "admit")
  /\ calls' = calls + 1
  /\ UNCHANGED <<trackerVars, machineVars, sched, lockVars>>

\* emulator_status: the native answer now, the tracker's observation later.
StartStatus(t) ==
  /\ pc[t] = "idle" /\ calls < MaxCalls
  /\ win' = [win EXCEPT ![t] = [NoWin EXCEPT !.kind = "emulator_status",
                                             !.initial = Label(running)]]
  /\ Goto(t, "learn")
  /\ calls' = calls + 1
  /\ UNCHANGED <<trackerVars, machineVars, sched, lockVars>>

\* withCaptureGuard: pauseSystemOnce and resumeSystemOnce present no control id.
StartGuard(t) ==
  /\ pc[t] = "idle" /\ calls < MaxCalls
  /\ win' = [win EXCEPT ![t] = [NoWin EXCEPT !.kind = "guard"]]
  /\ Goto(t, "observe")
  /\ calls' = calls + 1
  /\ UNCHANGED <<trackerVars, machineVars, sched, lockVars>>

\* A composite acquires a lock of its own, or checks the one it was given; it
\* refuses when another lock is live.
StartComposite(t) ==
  /\ pc[t] = "idle" /\ calls < MaxCalls
  /\ calls' = calls + 1
  /\ \E kind \in Composite :
       \/ /\ ActiveLock = None
          /\ lock' = t /\ lockLive' = TRUE
          /\ win' = [win EXCEPT ![t] = [NoWin EXCEPT !.kind = kind, !.control = t]]
       \/ /\ ActiveLock = Client
          /\ win' = [win EXCEPT ![t] = [NoWin EXCEPT !.kind = kind, !.control = Client]]
          /\ UNCHANGED lockVars
  /\ Goto(t, "observe")
  /\ UNCHANGED <<trackerVars, machineVars, sched>>

-----------------------------------------------------------------------------
(* The opening of a window.                                                 *)

\* observedRunState, answered by the tracker.
ObserveTracked(t) ==
  /\ pc[t] = "observe" /\ observed # "unknown"
  /\ win' = [win EXCEPT ![t].initial = observed]
  /\ Goto(t, "decide")
  /\ UNCHANGED <<trackerVars, machineVars, sched, lockVars, calls>>

\* observedRunState, answered by emulator_status, or by nobody.
ObserveNative(t) ==
  /\ pc[t] = "observe" /\ observed = "unknown"
  /\ \/ win' = [win EXCEPT ![t].initial = Label(running)] /\ Goto(t, "learn")
     \/ UNCHANGED win /\ Goto(t, "decide")
  /\ UNCHANGED <<trackerVars, machineVars, sched, lockVars, calls>>

\* tracker.observe of a native answer.
Learn(t) ==
  /\ pc[t] = "learn"
  /\ Observe(win[t].initial)
  /\ IF win[t].kind = "emulator_status" THEN Finish(t) ELSE Goto(t, "decide") /\ UNCHANGED win
  /\ UNCHANGED <<machineVars, sched, lockVars, calls>>

\* currentState is read a second time before the pause.
Decide(t) ==
  /\ pc[t] = "decide"
  /\ win' = [win EXCEPT ![t].paused = observed # "paused", ![t].action = "pause"]
  /\ Goto(t, IF observed = "paused" THEN "sample" ELSE "admit")
  /\ UNCHANGED <<trackerVars, machineVars, sched, lockVars, calls>>

-----------------------------------------------------------------------------
(* executeMutation of cpu_control, by whoever runs it.                      *)

Closing(t) == win[t].action = "run" /\ win[t].kind \in Window

\* A mutation that failed: the tool fails, a window that could not pause
\* returns the failure, closeWindow notes that it could not restore.
MutationFails(t) ==
  CASE Closing(t) -> /\ win' = [win EXCEPT ![t].restore = "failed"]
                     /\ Goto(t, "reply")
    [] win[t].kind \in Window /\ ~Closing(t) ->
                     /\ win' = [win EXCEPT ![t].restore = "pause_failed"]
                     /\ Goto(t, "reply")
    [] OTHER      -> Finish(t)

Admitted(t) == ActiveLock = None \/ ActiveLock = win[t].control

\* Mutant of Admit: the control lock is not consulted.
AdmitAnyone(t) ==
  /\ pc[t] = "admit" /\ sched = None
  /\ sched' = t /\ Goto(t, "land") /\ UNCHANGED win
  /\ UNCHANGED <<trackerVars, machineVars, lockVars, calls>>

Admit(t) ==
  /\ pc[t] = "admit" /\ sched = None
  /\ IF Admitted(t)
     THEN sched' = t /\ Goto(t, "land") /\ UNCHANGED win
     ELSE MutationFails(t) /\ UNCHANGED sched
  /\ UNCHANGED <<trackerVars, machineVars, lockVars, calls>>

\* The native effect, and the return of executeMutation.
Land(t) ==
  /\ pc[t] = "land"
  /\ sched' = None
  /\ running' = (win[t].action = "run")
  /\ win' = [win EXCEPT ![t].resumed = Closing(t),
                        ![t].landed = IF win[t].action = "run" THEN @
                                      ELSE IF running THEN "stopped" ELSE "paused"]
  /\ Goto(t, "note")
  /\ UNCHANGED <<trackerVars, moment, toggles, lockVars, calls>>

\* A provable failure changes nothing; an ambiguous one may have landed.
LandFails(t) ==
  /\ pc[t] = "land"
  /\ sched' = None
  /\ running' \in {running, win[t].action = "run"}
  /\ MutationFails(t)
  /\ UNCHANGED <<trackerVars, moment, toggles, lockVars, calls>>

\* tracker.setByMCP, after the scheduler has been left.
Note(t) ==
  /\ pc[t] = "note"
  /\ SetByMCP(IF win[t].action = "run" THEN "running" ELSE "paused")
  /\ CASE win[t].kind \notin Window -> Finish(t)
       [] Closing(t) -> /\ win' = [win EXCEPT ![t].restore = "restored"]
                        /\ Goto(t, "reply")
       [] OTHER -> Goto(t, "sample") /\ UNCHANGED win
  /\ UNCHANGED <<machineVars, sched, lockVars, calls>>

-----------------------------------------------------------------------------
(* The samples, and the close.                                              *)

\* One native read: the plugin runs it at one emulated moment. The window makes
\* any number of them, and moments is what they saw.
Sample(t) ==
  /\ pc[t] = "sample"
  /\ win' = [win EXCEPT ![t].moments = @ \cup {moment}]
  /\ UNCHANGED <<trackerVars, machineVars, sched, lockVars, pc, calls>>

\* The last read has been made, or a native read has failed: close the window.
SampleEnds(t) ==
  /\ pc[t] = "sample"
  /\ \E failure \in BOOLEAN :
       win' = [win EXCEPT ![t].failed = failure /\ win[t].kind \in Composite]
  /\ Goto(t, "close")
  /\ UNCHANGED <<trackerVars, machineVars, sched, lockVars, calls>>

\* Mutant of SampleUnusable: an early return leaves the guard's window open.
SampleUnusableReturns(t) ==
  /\ pc[t] = "sample" /\ win[t].moments # {}
  /\ Goto(t, "reply")
  /\ win' = [win EXCEPT ![t].failed = win[t].kind \in Composite]
  /\ UNCHANGED <<trackerVars, machineVars, sched, lockVars, calls>>

\* The answer does not decode, or the artifact store refuses it: the guard and
\* system_snapshot_capture close, memory_snapshot_capture just returns.
SampleUnusable(t) ==
  /\ pc[t] = "sample" /\ win[t].moments # {}
  /\ Goto(t, IF win[t].kind = "memory" THEN "reply" ELSE "close")
  /\ win' = [win EXCEPT ![t].failed = win[t].kind \in Composite]
  /\ UNCHANGED <<trackerVars, machineVars, sched, lockVars, calls>>

\* closeWindow: nothing to restore, a restore it must not make, or the resume. The
\* samples and the observation are forgotten: nothing looks at them again.
Close(t) ==
  /\ pc[t] = "close"
  /\ LET w == [win[t] EXCEPT !.initial = "unknown", !.moments = {}] IN
     CASE ~w.paused ->
            win' = [win EXCEPT ![t] = [w EXCEPT !.restore = "already_paused"]] /\ Goto(t, "reply")
       [] w.paused /\ win[t].initial = "unknown" ->
            win' = [win EXCEPT ![t] = [w EXCEPT !.restore = "skipped_unknown"]] /\ Goto(t, "reply")
       [] OTHER ->
            win' = [win EXCEPT ![t] = [w EXCEPT !.action = "run"]] /\ Goto(t, "admit")
  /\ UNCHANGED <<trackerVars, machineVars, sched, lockVars, calls>>

\* A complete composite writes its manifest after the close; when that fails, the
\* response is the store's error and says nothing of the run state.
ManifestFails(t) ==
  /\ pc[t] = "reply" /\ win[t].kind \in Composite /\ ~win[t].failed
  /\ win[t].restore \notin {"none", "pause_failed"}
  /\ win' = [win EXCEPT ![t].restore = "none"]
  /\ UNCHANGED <<trackerVars, machineVars, sched, lockVars, pc, calls>>

\* Mutant of Reply: Release forgets the lock and leaves its expiry running.
ReplyHalfReleases(t) ==
  /\ pc[t] = "reply"
  /\ lock' = IF lock = t THEN None ELSE lock
  /\ Finish(t)
  /\ UNCHANGED <<trackerVars, machineVars, sched, lockLive, calls>>

\* Mutant of Reply: the deferred Release is missing.
ReplyKeepsLock(t) ==
  /\ pc[t] = "reply"
  /\ Finish(t)
  /\ UNCHANGED <<trackerVars, machineVars, sched, lockVars, calls>>

\* The return: an internal lock is released, expired or not, if it is still the
\* installed one.
Reply(t) ==
  /\ pc[t] = "reply"
  /\ lock' = IF lock = t THEN None ELSE lock
  /\ lockLive' = (lockLive /\ lock # t)
  /\ Finish(t)
  /\ UNCHANGED <<trackerVars, machineVars, sched, calls>>

-----------------------------------------------------------------------------
(* The rest of the world.                                                   *)

\* target_control_acquire and target_control_release by a client.
ClientAcquires ==
  /\ ActiveLock = None /\ calls < MaxCalls
  /\ lock' = Client /\ lockLive' = TRUE
  /\ calls' = calls + 1
  /\ UNCHANGED <<trackerVars, machineVars, sched, pc, win>>

ClientReleases ==
  /\ lock = Client
  /\ lock' = None /\ lockLive' = FALSE
  /\ UNCHANGED <<trackerVars, machineVars, sched, pc, win, calls>>

\* The TTL of the installed lock passes (60 s, 120 s, or the client's).
LockExpires ==
  /\ lockLive
  /\ lockLive' = FALSE
  /\ win' = [t \in Thread |-> IF win[t].control = t /\ lock = t
                              THEN [win[t] EXCEPT !.disturbed = TRUE] ELSE win[t]]
  /\ UNCHANGED <<trackerVars, machineVars, sched, lock, pc, calls>>

\* Emulated time passes while the machine runs.
Tick ==
  /\ running /\ moment < MaxMoment
  /\ moment' = moment + 1
  /\ UNCHANGED <<trackerVars, running, toggles, sched, lockVars, pc, win, calls>>

\* The user pauses or runs the machine in the UI.
ToggleInUI ==
  /\ toggles < MaxToggles
  /\ toggles' = toggles + 1
  /\ running' = ~running
  /\ win' = [t \in Thread |-> IF win[t].control = t
                              THEN [win[t] EXCEPT !.disturbed = TRUE] ELSE win[t]]
  /\ UNCHANGED <<trackerVars, moment, sched, lockVars, pc, calls>>

-----------------------------------------------------------------------------
Start(t) == StartControl(t) \/ StartStatus(t) \/ StartGuard(t) \/ StartComposite(t)

Step(t) ==
  \/ ObserveTracked(t) \/ ObserveNative(t) \/ Learn(t) \/ Decide(t)
  \/ Land(t) \/ LandFails(t) \/ Note(t)
  \/ Sample(t) \/ SampleEnds(t) \/ SampleUnusable(t) \/ Close(t) \/ Reply(t)

NoMoreCalls ==
  /\ \A t \in Thread : pc[t] = "idle"
  /\ UNCHANGED vars

Next ==
  \/ \E t \in Thread : Start(t) \/ Step(t) \/ Admit(t) \/ ManifestFails(t)
  \/ ClientAcquires \/ ClientReleases \/ LockExpires \/ Tick \/ ToggleInUI
  \/ NoMoreCalls

\* A call that has started goes on; schedulerMu is granted to who keeps asking.
Fairness == \A t \in Thread : WF_vars(Step(t)) /\ SF_vars(Admit(t))

Spec == Init /\ [][Next]_vars
FairSpec == Spec /\ Fairness

-----------------------------------------------------------------------------
(* Properties.                                                              *)

WinType == [kind : Tool \cup {"none"}, control : Thread \cup {Client, None},
            action : {"run", "pause"}, initial : RunStates \cup {"unknown"},
            paused : BOOLEAN, moments : SUBSET (0..MaxMoment), failed : BOOLEAN,
            restore : {"none", "already_paused", "skipped_unknown", "failed",
                       "pause_failed", "restored"},
            landed : {"no", "stopped", "paused"}, resumed : BOOLEAN, disturbed : BOOLEAN]

\* Every variable keeps its type.
TypeOK ==
  /\ TrackerTypeOK({})
  /\ running \in BOOLEAN /\ moment \in 0..MaxMoment /\ toggles \in 0..MaxToggles
  /\ sched \in Thread \cup {None}
  /\ lock \in Thread \cup {Client, None} /\ lockLive \in BOOLEAN
  /\ lock = None => ~lockLive
  /\ pc \in [Thread -> {"idle", "learn", "observe", "decide", "admit", "land", "note",
                        "sample", "close", "reply"}]
  /\ win \in [Thread -> WinType]
  /\ calls \in 0..MaxCalls

\* A composite that paused the machine under a lock of its own has the machine
\* to itself: until the UI or the TTL interferes, every sample is of the same
\* emulated moment, and a run state it has restored is there when it replies.
ExclusiveWindow ==
  \A t \in Thread :
    win[t].control = t /\ win[t].landed # "no" /\ ~win[t].disturbed =>
      /\ Cardinality(win[t].moments) <= 1
      /\ pc[t] = "reply" /\ win[t].resumed => running

\* A read under withCaptureGuard whose pause landed and that did not resume the
\* machine says so: restore failed, or deliberately skipped.
Silent(t) == /\ pc[t] = "reply" /\ win[t].landed # "no" /\ ~win[t].resumed
             /\ win[t].restore \in {"none", "already_paused", "restored"}

GuardNeverLeaks == \A t \in Thread : win[t].kind = "guard" => ~Silent(t)

\* A capture always returns, and the lock it took for itself ends with it.
CaptureReturns == \A t \in Thread : lock = t ~> pc[t] = "idle" /\ lock # t

-----------------------------------------------------------------------------
(* A claim of a comment that the code does not keep.                        *)

\* tools_capture.go: "Restore the prior run state so a partial capture never
\* leaks a paused system, and report the restore outcome with the failure".
CaptureNeverLeaks == \A t \in Thread : ~Silent(t)
=============================================================================
