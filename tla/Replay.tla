------------------------------- MODULE Replay -------------------------------
(***************************************************************************)
(* deterministic_replay: one call that pauses the machine, restores a      *)
(* snapshot, runs the same input steps two or three times, compares what   *)
(* it observed and restores the snapshot and the run state it found. Every *)
(* command of it is a mutation of its own under the scheduler; only the    *)
(* control lock, which runs out after 120 seconds, keeps other clients out *)
(* between them, and nothing keeps out the user of the emulator's window.  *)
(***************************************************************************)
EXTENDS Integers, FiniteSets, Sequences, SequencesExt

CONSTANTS Pressable, Missing,
          Foreign,     \* what another client wrote, among the frames the machine saw
          StepLists,   \* the normalized step lists: sequences of [buttons, frames]
          MaxTicks,    \* bound: frames the machine renders while it runs free
          MaxUpsets    \* bound: failures, lapses of the lock, foreign mutations and
                       \* actions of the user together

\* A normalized step: the buttons of all ports in port order, and at least one frame.
NormalizedStep == [buttons : Seq(Pressable), frames : Nat \ {0}]

ASSUME ReplayAssumption ==
  /\ MaxTicks \in Nat /\ MaxUpsets \in Nat
  /\ StepLists \subseteq Seq(NormalizedStep) \ {<<>>}

VARIABLES running, joypad, \* the machine: its run state and the buttons down,
          past,            \* what each frame since the snapshot saw,
          counter,         \* and the VDP's render counter, which no restore resets
          lock,            \* "free", "replay", or "foreign"
          admitted,        \* a mutation of another client that passed the guard
          replay,          \* the call
          ticks, upsets,
          touched,         \* history: the user acted during the call, or the call took an
                           \* old observation for the present run state
          intruded         \* history: a foreign mutation landed during the call

replayMachine == <<running, joypad, past, counter>>
replayVars    == <<running, joypad, past, counter, lock, admitted, replay, ticks, upsets, touched, intruded>>

\* One pass, as replayRunResult holds it. A register sample is what the machine has been
\* through; what could not be read is Missing. "seen" is the truth behind the samples.
Pass(confirmed) ==
  [confirmed |-> confirmed, baseline |-> Missing, fingerprint |-> Missing, tokens |-> <<>>,
   samples |-> <<>>, final |-> Missing, advanced |-> 0, seen |-> <<>>]

NoCall == [at |-> "idle", steps |-> <<>>, strict |-> FALSE, passes |-> 2, entry |-> "unknown",
           runs |-> <<>>, step |-> 1, todo |-> <<>>, closed |-> "open"]

ReplayPhase == {"idle", "pause", "save", "load", "settle", "baseline", "press", "advance", "sample",
       "release", "final", "restore", "resume", "verdict", "failed", "over"}

ReplayTypeOK ==
  /\ running \in BOOLEAN /\ joypad \subseteq Pressable /\ counter \in Nat
  /\ lock \in {"free", "replay", "foreign"} /\ admitted \in BOOLEAN
  /\ replay.at \in ReplayPhase /\ replay.entry \in {"running", "paused", "unknown"}
  /\ Len(replay.runs) <= replay.passes /\ replay.step <= Len(replay.steps) + 1
  /\ replay.closed \in {"open", "unrestored", "skipped", "paused", "stuck", "resumed"}

ReplayStart ==
  /\ joypad = {} /\ past = <<>> /\ counter = 0
  /\ lock = "free" /\ admitted = FALSE /\ replay = NoCall
  /\ ticks = 0 /\ upsets = 0 /\ touched = FALSE /\ intruded = FALSE

ReplayInit == running \in BOOLEAN /\ ReplayStart

Upset == upsets < MaxUpsets /\ upsets' = upsets + 1

----------------------------------------------------------------------------
\* The native effects of the commands of a replay. A frame advance leaves the machine
\* paused; a state load leaves it as it was and keeps the render counter.

Halt   == running' = FALSE /\ UNCHANGED <<joypad, past, counter>>
Resume  == running' = TRUE /\ UNCHANGED <<joypad, past, counter>>
Load   == past' = <<>> /\ UNCHANGED <<running, joypad, counter>>
Down(button) == joypad' = joypad \cup {button} /\ UNCHANGED <<running, past, counter>>
Up(button)   == joypad' = joypad \ {button} /\ UNCHANGED <<running, past, counter>>
Frames(n) ==
  /\ running' = FALSE /\ counter' = counter + n
  /\ past' = past \o [i \in 1..n |-> joypad]
  /\ UNCHANGED joypad

\* One command: answered with its effect and followed by "next", or refused because
\* another client holds the lock, or failed with or without its effect.
Command(effect, next, lost) ==
  /\ ~admitted
  /\ \/ lock # "foreign" /\ effect /\ replay' = next /\ UNCHANGED upsets
     \/ lock = "foreign" /\ UNCHANGED replayMachine /\ replay' = lost /\ UNCHANGED upsets
     \/ /\ lock # "foreign" /\ (effect \/ UNCHANGED replayMachine)
        /\ replay' = lost /\ Upset
  /\ UNCHANGED <<lock, admitted, ticks, touched, intruded>>

\* The command is answered, without what the call reads in the answer.
Unechoed(effect, next) ==
  /\ ~admitted /\ lock # "foreign" /\ effect /\ replay' = next /\ Upset
  /\ UNCHANGED <<lock, admitted, ticks, touched, intruded>>

RefusedReplay == [replay EXCEPT !.at = "failed"]

\* A pass that failed is abandoned: the snapshot is restored, and the run state.
Aborted == [replay EXCEPT !.at = "restore", !.runs = Front(@)]

----------------------------------------------------------------------------
\* The call.

\* The lock is taken, or the call is made under a lock its client already holds; then
\* the emulator is asked for the run state. Without an answer the tracker's last
\* observation stands, which may be old.
EnterReplay(first) ==
  /\ replay.at = "idle" /\ lock = "free" /\ lock' = "replay"
  /\ \E steps \in StepLists, strict \in BOOLEAN, passes \in {2, 3},
        entry \in {"running", "paused", "unknown"} :
       /\ replay' = [NoCall EXCEPT !.at = first[entry], !.steps = steps, !.strict = strict,
                                   !.passes = passes, !.entry = entry]
       /\ IF entry = (IF running THEN "running" ELSE "paused")
          THEN UNCHANGED <<upsets, touched>>
          ELSE Upset /\ touched' = (entry # "unknown")
  /\ UNCHANGED <<replayMachine, admitted, ticks, intruded>>

\* Mutant of OpenWindow: the pause is left to the restore.
OpenUnpaused == EnterReplay([entry \in {"running", "paused", "unknown"} |-> "save"])

\* A machine not known to be paused is paused before anything else.
OpenWindow == EnterReplay([entry \in {"running", "paused", "unknown"} |->
                             IF entry = "paused" THEN "save" ELSE "pause"])

PauseFirst ==
  /\ replay.at = "pause"
  /\ Command(Halt, [replay EXCEPT !.at = "save"], RefusedReplay)

\* The snapshot named by the caller, or one of the present state: reads, which neither
\* lock nor scheduler hold up.
SaveInitial ==
  /\ replay.at = "save"
  /\ \/ /\ replay' = [replay EXCEPT !.at = "load"]
        /\ past' \in {past, <<>>} /\ UNCHANGED upsets
     \/ replay' = RefusedReplay /\ Upset /\ UNCHANGED past
  /\ UNCHANGED <<running, joypad, counter, lock, admitted, ticks, touched, intruded>>

Begun(confirmed) ==
  [replay EXCEPT !.at = "baseline", !.step = 1, !.runs = Append(@, Pass(confirmed))]

\* The restore before a pass. When its echo does not prove the machine paused, the
\* machine is paused now, and that echo decides whether the start is confirmed.
Restore ==
  /\ replay.at = "load"
  /\ \/ Command(Load, IF running THEN [replay EXCEPT !.at = "settle"] ELSE Begun(TRUE), RefusedReplay)
     \/ Unechoed(Load, [replay EXCEPT !.at = "settle"])

PauseRestored ==
  /\ replay.at = "settle"
  /\ Command(Halt, Begun(TRUE), RefusedReplay) \/ Unechoed(Halt, Begun(FALSE))

Current == Last(replay.runs)
Recorded(run) == [replay.runs EXCEPT ![Len(replay.runs)] = run]

\* Where step i of the pass begins.
StepAt(call, i) ==
  IF i > Len(call.steps) THEN [call EXCEPT !.at = "final", !.step = i]
  ELSE [call EXCEPT !.at = IF call.steps[i].buttons = <<>> THEN "advance" ELSE "press",
                    !.step = i, !.todo = call.steps[i].buttons]

\* A read answers with the value, or is Missing after a failure.
Read(value, got) ==
  \/ got = value /\ UNCHANGED upsets
  \/ got = Missing /\ Upset

\* The token and the registers come from one command each; either may fail.
Baseline ==
  /\ replay.at = "baseline"
  /\ \E token \in {counter, Missing}, registers \in {past, Missing} :
       /\ replay' = StepAt([replay EXCEPT !.runs = Recorded([Current EXCEPT !.baseline = token,
                                                                          !.fingerprint = registers])], 1)
       /\ IF token = Missing THEN Read(counter, token) ELSE Read(past, registers)
  /\ UNCHANGED <<replayMachine, lock, admitted, ticks, touched, intruded>>

\* The buttons of a step go down one after the other, and up again after its frames.
PressButton ==
  /\ replay.at = "press"
  /\ Command(Down(Head(replay.todo)),
             IF Len(replay.todo) > 1 THEN [replay EXCEPT !.todo = Tail(@)]
             ELSE [replay EXCEPT !.at = "advance"], Aborted)

AdvanceFrames ==
  /\ replay.at = "advance"
  /\ LET n == replay.steps[replay.step].frames
         advanced(token) ==
           [replay EXCEPT !.at = "sample",
              !.runs = Recorded([Current EXCEPT !.advanced = @ + n, !.tokens = Append(@, token),
                                              !.seen = Append(@, past')])]
     IN \/ Command(Frames(n), advanced(counter + n), Aborted)
        \/ Unechoed(Frames(n), advanced(Missing))

Sample ==
  /\ replay.at = "sample"
  /\ \E registers \in {past, Missing} :
       LET sampled == [replay EXCEPT !.runs = Recorded([Current EXCEPT !.samples = Append(@, registers)])]
       IN /\ Read(past, registers)
          /\ replay' = IF replay.steps[replay.step].buttons = <<>> THEN StepAt(sampled, replay.step + 1)
                       ELSE [sampled EXCEPT !.at = "release", !.todo = replay.steps[replay.step].buttons]
  /\ UNCHANGED <<replayMachine, lock, admitted, ticks, touched, intruded>>

ReleaseButton ==
  /\ replay.at = "release"
  /\ Command(Up(Head(replay.todo)),
             IF Len(replay.todo) > 1 THEN [replay EXCEPT !.todo = Tail(@)]
             ELSE StepAt(replay, replay.step + 1), Aborted)

\* The registers at the end of a pass; then the next pass, or the end of the window.
FinalRegisters ==
  /\ replay.at = "final"
  /\ \E registers \in {past, Missing} :
       /\ Read(past, registers)
       /\ replay' = [replay EXCEPT !.runs = Recorded([Current EXCEPT !.final = registers]),
                                   !.at = IF Len(replay.runs) < replay.passes THEN "load" ELSE "restore"]
  /\ UNCHANGED <<replayMachine, lock, admitted, ticks, touched, intruded>>

----------------------------------------------------------------------------
\* Closing the window: the snapshot, then the run state the call found. What closes an
\* abandoned pass has fewer passes than the call asked for.

Closed(how) ==
  [replay EXCEPT !.closed = how,
                 !.at = IF Len(replay.runs) = replay.passes THEN "verdict" ELSE "failed"]

\* Mutant of CloseRestore: a machine whose run state is not known is started.
CloseRestoreGuess ==
  /\ replay.at = "restore"
  /\ Command(Load, IF replay.entry = "paused" THEN Closed("paused") ELSE [replay EXCEPT !.at = "resume"],
             Closed("unrestored"))

CloseRestore ==
  /\ replay.at = "restore"
  /\ Command(Load,
             CASE replay.entry = "unknown" -> Closed("skipped")
               [] replay.entry = "paused"  -> Closed("paused")
               [] OTHER                    -> [replay EXCEPT !.at = "resume"],
             Closed("unrestored"))

CloseResume ==
  /\ replay.at = "resume"
  /\ Command(Resume, Closed("resumed"), Closed("stuck"))

\* compareReplayRuns. A token below its baseline proves nothing.
Delta(run, i) ==
  IF run.baseline = Missing \/ run.tokens[i] = Missing THEN Missing
  ELSE IF run.tokens[i] < run.baseline THEN Missing ELSE run.tokens[i] - run.baseline

Proven(run) == \A i \in DOMAIN run.tokens : Delta(run, i) # Missing

RegistersProven(run) ==
  run.fingerprint # Missing /\ run.final # Missing /\ \A i \in DOMAIN run.samples : run.samples[i] # Missing

Requested == FoldSeq(LAMBDA step, sum : sum + step.frames, 0, replay.steps)

Compare(run1, run2) ==
  /\ Proven(run1) /\ Proven(run2)
  /\ \A i \in DOMAIN run1.tokens : Delta(run1, i) = Delta(run2, i)
  /\ run1.advanced = Requested /\ run2.advanced = Requested
  /\ run1.confirmed /\ run2.confirmed
  /\ replay.strict => /\ RegistersProven(run1) /\ RegistersProven(run2)
                      /\ run1.samples = run2.samples /\ run1.final = run2.final

\* The compared passes are the last two; with a warm-up the first of three is discarded.
Deterministic ==
  Compare(replay.runs[replay.passes - 1], replay.runs[replay.passes])

\* The call returns and releases its lock.
Finish ==
  /\ replay.at \in {"verdict", "failed"}
  /\ replay' = [NoCall EXCEPT !.at = "over"]
  /\ lock' = IF lock = "replay" THEN "free" ELSE lock
  /\ UNCHANGED <<replayMachine, admitted, ticks, upsets, touched, intruded>>

ReplayStep ==
  \/ OpenWindow \/ PauseFirst \/ SaveInitial \/ Restore \/ PauseRestored \/ Baseline \/ PressButton
  \/ AdvanceFrames \/ Sample \/ ReleaseButton \/ FinalRegisters \/ CloseRestore \/ CloseResume \/ Finish

----------------------------------------------------------------------------
\* Everybody else.

\* The lock of the call runs out; another client takes it, or gives it back.
Lapse ==
  /\ lock = "replay" /\ Upset /\ lock' = "free"
  /\ UNCHANGED <<replayMachine, admitted, replay, ticks, touched, intruded>>

ForeignLock ==
  /\ \/ lock = "free" /\ replay.at \notin {"idle", "over"} /\ lock' = "foreign"
     \/ lock = "foreign" /\ lock' = "free"
  /\ UNCHANGED <<replayMachine, admitted, replay, ticks, upsets, touched, intruded>>

\* A mutation of another client passes the guard, and then lands.
ForeignAdmitted ==
  /\ ~admitted /\ lock # "replay" /\ Upset /\ admitted' = TRUE
  /\ UNCHANGED <<replayMachine, lock, replay, ticks, touched, intruded>>

ForeignLands ==
  /\ admitted /\ admitted' = FALSE
  /\ \/ past' = Append(past, Foreign) /\ UNCHANGED running
     \/ running' \in BOOLEAN /\ UNCHANGED past
  /\ intruded' = (intruded \/ replay.at \notin {"idle", "over"})
  /\ UNCHANGED <<joypad, counter, lock, replay, ticks, upsets, touched>>

\* The user runs, pauses or resets the machine from its window.
Toggle ==
  /\ Upset /\ touched' = (touched \/ replay.at # "idle")
  /\ \/ running' = ~running /\ UNCHANGED <<past, counter>>
     \/ past' = Append(past, Foreign) /\ counter' = 0 /\ UNCHANGED running
  /\ UNCHANGED <<joypad, lock, admitted, replay, ticks, intruded>>

\* The machine renders a frame while it runs.
RunFree ==
  /\ running /\ ticks < MaxTicks /\ ticks' = ticks + 1
  /\ past' = Append(past, joypad) /\ counter' = counter + 1
  /\ UNCHANGED <<running, joypad, lock, admitted, replay, upsets, touched, intruded>>

ReplayNext ==
  ReplayStep \/ Lapse \/ ForeignLock \/ ForeignAdmitted \/ ForeignLands \/ Toggle \/ RunFree

ReplaySpec == ReplayInit /\ [][ReplayNext]_replayVars

----------------------------------------------------------------------------
(***************************************************************************)
(* A deterministic verdict means that the two compared passes saw the same *)
(* frames from the snapshot on at every step, unless the user acted, or a  *)
(* mutation of another client, admitted before the lock was taken or after *)
(* it ran out, landed during the call: no frame of a machine that was      *)
(* running slips in between a restore and the baseline, where no delta     *)
(* would show it (tools_replay.go:430-447, 802-925).                       *)
(***************************************************************************)
VerdictSound ==
  replay.at = "verdict" /\ Deterministic /\ ~touched /\ ~intruded
    => replay.runs[replay.passes - 1].seen = replay.runs[replay.passes].seen

(***************************************************************************)
(* The target is left in the run state it had before the call, or paused   *)
(* where the call does not know it, with no button of a step down, and the *)
(* call says so (tools_replay.go:1272-1310).                               *)
(***************************************************************************)
LeftAsFound ==
  /\ replay.closed \in {"skipped", "paused", "resumed"} /\ ~touched /\ ~intruded
  /\ replay.at \in {"verdict", "failed"}
  => /\ running <=> replay.closed = "resumed"
     /\ replay.closed # "skipped" => (running <=> replay.entry = "running")
     /\ replay.at = "verdict" => joypad = {}

=============================================================================
