------------------------- MODULE CaptureWindowProofs -------------------------
(***************************************************************************)
(* Paused captures, for any number of callers, calls, moments and UI       *)
(* changes: type correctness, the exclusiveness of a composite's window    *)
(* and the run state a guarded read leaves behind.                         *)
(***************************************************************************)
EXTENDS CaptureWindow, FiniteSetTheorems, TLAPS

\* The steps before a window's pause, and those at which the machine it has
\* stopped has not been resumed.
OpeningStep == {"observe", "learn", "decide"}
StoppedStep == {"note", "sample", "close", "admit", "land"}

\* What the locals w of a call of t are worth when it is about to take step s.
Local(t, s, w) ==
  /\ w.kind = "none" <=> s = "idle"
  /\ w.control \in {t, Client, None}
  /\ w.control = t => w.kind \in Composite
  /\ w.kind \notin Window =>
       s \in {"idle", "admit", "land", "note"} \/ (s = "learn" /\ w.kind = "emulator_status")
  /\ w.landed # "no" => w.paused \/ w.kind \notin Window
  /\ w.kind \in Window =>
       /\ s \in OpeningStep => w.landed = "no"
       /\ s \in OpeningStep \cup {"admit", "land", "note"} => w.moments = {}
       /\ s \in {"admit", "land"} /\ w.action = "pause" => w.landed = "no"
       /\ s \in {"admit", "land", "note"} => w.paused
       /\ s \in OpeningStep \cup {"admit", "land", "sample", "close"} => ~w.resumed
       /\ s = "note" => (w.resumed <=> w.action = "run")
  /\ s = "reply" /\ w.kind = "guard" /\ w.landed # "no" /\ ~w.resumed =>
       w.restore \in {"failed", "skipped_unknown", "pause_failed"}

LocalOK == \A t \in Thread : Local(t, pc[t], win[t])

\* Only the holder of schedulerMu acts on the machine, and a composite's own
\* lock is the installed one unless the TTL has passed.
HoldsOK ==
  \A t \in Thread :
    /\ pc[t] = "land" => sched = t
    /\ win[t].control = t /\ ~win[t].disturbed => lock = t /\ lockLive

\* The machine of a composite that has stopped it under a lock of its own.
Alone(t) ==
  /\ \A u \in Thread \ {t} : pc[u] # "land"
  /\ pc[t] \in StoppedStep /\ ~win[t].resumed => ~running
  /\ win[t].resumed => running
  /\ pc[t] = "sample" => win[t].moments \subseteq {moment}
  /\ \E m \in 0..MaxMoment : win[t].moments \subseteq {m}

MachineOK ==
  \A t \in Thread :
    win[t].control = t /\ win[t].landed # "no" /\ ~win[t].disturbed => Alone(t)

CaptureInv == TypeOK /\ LocalOK /\ HoldsOK /\ MachineOK

-----------------------------------------------------------------------------
(* What a step does to the call that takes it.                              *)

Acts(t) == Start(t) \/ Step(t) \/ Admit(t) \/ ManifestFails(t)

PcStep == {"idle", "learn", "observe", "decide", "admit", "land", "note",
           "sample", "close", "reply"}

\* Only the call of t moves: it goes to step s with the locals w.
Moves(t, s, w) ==
  /\ pc' \in [Thread -> PcStep] /\ win' \in [Thread -> WinType]
  /\ s \in PcStep /\ w \in WinType
  /\ pc'[t] = s /\ win'[t] = w
  /\ \A u \in Thread \ {t} : win'[u] = win[u] /\ pc'[u] = pc[u]

LEMMA NoWinType == NoWin \in WinType
BY DEF NoWin, WinType, Tool, RunStates

LEMMA Types ==
  ASSUME TypeOK
  PROVE  /\ win \in [Thread -> WinType] /\ pc \in [Thread -> PcStep]
         /\ observed \in RunStates \cup {"unknown"} /\ moment \in 0..MaxMoment
         /\ Label(running) \in RunStates
BY DEF TypeOK, TrackerTypeOK, Label, RunStates, PcStep

LEMMA Update ==
  ASSUME win \in [Thread -> WinType], pc \in [Thread -> PcStep], NEW t \in Thread,
         NEW s \in PcStep, NEW w \in WinType,
         win' = [win EXCEPT ![t] = w], pc' = [pc EXCEPT ![t] = s]
  PROVE  Moves(t, s, w)
BY SMTT(40) DEF Moves

\* The locals keep their type when a few of their fields are updated.
LEMMA WinUpdates ==
  ASSUME NEW w \in WinType
  PROVE  /\ \A s \in RunStates \cup {"unknown"} : [w EXCEPT !.initial = s] \in WinType
         /\ \A b \in BOOLEAN : [w EXCEPT !.paused = b, !.action = "pause"] \in WinType
         /\ \A r \in {"none", "failed", "pause_failed", "restored"} :
              [w EXCEPT !.restore = r] \in WinType
         /\ \A b \in BOOLEAN, l \in {"no", "stopped", "paused"} :
              [w EXCEPT !.resumed = b, !.landed = l] \in WinType
         /\ \A b \in BOOLEAN : [w EXCEPT !.failed = b] \in WinType
         /\ [w EXCEPT !.disturbed = TRUE] \in WinType
         /\ \A m \in 0..MaxMoment : [w EXCEPT !.moments = w.moments \cup {m}] \in WinType
<1>1. \A m \in 0..MaxMoment : w.moments \cup {m} \in SUBSET (0..MaxMoment)
  BY DEF WinType
<1> QED
  BY <1>1, ZenonT(60) DEF WinType

LEMMA StartControlMoves ==
  ASSUME TypeOK, NEW t \in Thread, StartControl(t)
  PROVE  \E k \in {"cpu_pause", "cpu_run"}, c \in {None, Client}, a \in {"run", "pause"} :
           Moves(t, "admit", [NoWin EXCEPT !.kind = k, !.control = c, !.action = a])
<1>1. \A k \in {"cpu_pause", "cpu_run"}, c \in {None, Client}, a \in {"run", "pause"} :
        [NoWin EXCEPT !.kind = k, !.control = c, !.action = a] \in WinType
  BY DEF NoWin, WinType, Tool, RunStates
<1>2. PICK k \in {"cpu_pause", "cpu_run"}, c \in {None, Client} :
        win' = [win EXCEPT ![t] = [NoWin EXCEPT !.kind = k, !.control = c,
                                     !.action = IF k = "cpu_run" THEN "run" ELSE "pause"]]
  BY DEF StartControl
<1>3. PICK a \in {"run", "pause"} : a = IF k = "cpu_run" THEN "run" ELSE "pause"
  OBVIOUS
<1>4. /\ win' = [win EXCEPT ![t] = [NoWin EXCEPT !.kind = k, !.control = c, !.action = a]]
      /\ pc' = [pc EXCEPT ![t] = "admit"] /\ "admit" \in PcStep
  BY <1>2, <1>3 DEF StartControl, Goto, PcStep
<1> QED
  BY <1>1, <1>4, Types, Update

LEMMA StartStatusMoves ==
  ASSUME TypeOK, NEW t \in Thread, StartStatus(t)
  PROVE  \E s \in RunStates :
           Moves(t, "learn", [NoWin EXCEPT !.kind = "emulator_status", !.initial = s])
<1>1. \A s \in RunStates : [NoWin EXCEPT !.kind = "emulator_status", !.initial = s] \in WinType
  BY DEF NoWin, WinType, Tool, RunStates
<1>2. "learn" \in PcStep
  BY DEF PcStep
<1> QED
  BY <1>1, <1>2, Types, Update DEF StartStatus, Goto

LEMMA StartGuardMoves ==
  ASSUME TypeOK, NEW t \in Thread, StartGuard(t)
  PROVE  Moves(t, "observe", [NoWin EXCEPT !.kind = "guard"])
<1>1. [NoWin EXCEPT !.kind = "guard"] \in WinType
  BY DEF NoWin, WinType, Tool, RunStates, Window
<1>2. "observe" \in PcStep
  BY DEF PcStep
<1> QED
  BY <1>1, <1>2, Types, Update DEF StartGuard, Goto

LEMMA StartCompositeMoves ==
  ASSUME TypeOK, NEW t \in Thread, StartComposite(t)
  PROVE  \E k \in Composite, c \in {t, Client} :
           /\ Moves(t, "observe", [NoWin EXCEPT !.kind = k, !.control = c])
           /\ \/ c = t /\ ActiveLock = None /\ lock' = t /\ lockLive' = TRUE
              \/ c = Client /\ UNCHANGED <<lock, lockLive>>
<1>1. \A k \in Composite, c \in {t, Client} : [NoWin EXCEPT !.kind = k, !.control = c] \in WinType
  BY DEF NoWin, WinType, Tool, RunStates, Window, Composite
<1>2. "observe" \in PcStep /\ pc' = [pc EXCEPT ![t] = "observe"]
  BY DEF PcStep, StartComposite, Goto
<1>3. PICK k \in Composite, c \in {t, Client} :
        /\ win' = [win EXCEPT ![t] = [NoWin EXCEPT !.kind = k, !.control = c]]
        /\ \/ c = t /\ ActiveLock = None /\ lock' = t /\ lockLive' = TRUE
           \/ c = Client /\ UNCHANGED <<lock, lockLive>>
  BY DEF StartComposite, lockVars
<1> QED
  BY <1>1, <1>2, <1>3, Types, Update

LEMMA ObserveMoves ==
  ASSUME TypeOK, NEW t \in Thread, ObserveTracked(t) \/ ObserveNative(t)
  PROVE  \E s \in {"learn", "decide"}, i \in RunStates \cup {"unknown"} :
           Moves(t, s, [win[t] EXCEPT !.initial = i])
<1>1. \A i \in RunStates \cup {"unknown"} : [win[t] EXCEPT !.initial = i] \in WinType
  BY Types, WinUpdates
<1>2. {"learn", "decide"} \subseteq PcStep
  BY DEF PcStep
<1>3. PICK s \in {"learn", "decide"}, i \in RunStates \cup {"unknown"} :
        /\ win' = [win EXCEPT ![t] = [win[t] EXCEPT !.initial = i]]
        /\ pc' = [pc EXCEPT ![t] = s]
  <2>1. CASE ObserveTracked(t)
    BY <2>1, Types DEF ObserveTracked, Goto
  <2>2. CASE ObserveNative(t) /\ win' = [win EXCEPT ![t].initial = Label(running)]
    BY <2>2, Types DEF ObserveNative, Goto
  <2>3. CASE ObserveNative(t) /\ UNCHANGED win /\ pc' = [pc EXCEPT ![t] = "decide"]
    <3>1. win[t].initial \in RunStates \cup {"unknown"}
      BY Types DEF WinType
    <3>2. [win[t] EXCEPT !.initial = win[t].initial] = win[t]
      BY Types DEF WinType
    <3>3. win' = [win EXCEPT ![t] = [win[t] EXCEPT !.initial = win[t].initial]]
      BY <2>3, <3>2, Types
    <3> QED
      BY <2>3, <3>1, <3>3
  <2> QED
    BY <2>1, <2>2, <2>3 DEF ObserveNative, Goto
<1> QED
  BY <1>1, <1>2, <1>3, Types, Update

LEMMA LearnMoves ==
  ASSUME TypeOK, NEW t \in Thread, Learn(t)
  PROVE  IF win[t].kind = "emulator_status" THEN Moves(t, "idle", NoWin)
         ELSE Moves(t, "decide", win[t])
<1>1. {"idle", "decide"} \subseteq PcStep
  BY DEF PcStep
<1>2. CASE win[t].kind = "emulator_status"
  BY <1>1, <1>2, Types, Update, NoWinType DEF Learn, Finish, Goto
<1>3. CASE win[t].kind # "emulator_status"
  <2>1. win' = [win EXCEPT ![t] = win[t]] /\ pc' = [pc EXCEPT ![t] = "decide"] /\ win[t] \in WinType
    BY <1>3, Types DEF Learn, Goto
  <2> QED
    BY <1>1, <1>3, <2>1, Types, Update
<1> QED
  BY <1>2, <1>3

LEMMA DecideMoves ==
  ASSUME TypeOK, NEW t \in Thread, Decide(t)
  PROVE  \E b \in BOOLEAN :
           Moves(t, IF b THEN "admit" ELSE "sample", [win[t] EXCEPT !.paused = b, !.action = "pause"])
<1>1. \A b \in BOOLEAN : [win[t] EXCEPT !.paused = b, !.action = "pause"] \in WinType
  BY Types, WinUpdates
<1>2. PICK b \in BOOLEAN : b = (observed # "paused")
  OBVIOUS
<1>3. win' = [win EXCEPT ![t] = [win[t] EXCEPT !.paused = b, !.action = "pause"]]
  BY <1>2, Types DEF Decide
<1>4. /\ pc' = [pc EXCEPT ![t] = IF b THEN "admit" ELSE "sample"]
      /\ (IF b THEN "admit" ELSE "sample") \in PcStep
  BY <1>2 DEF Decide, Goto, PcStep
<1> QED
  BY <1>1, <1>3, <1>4, Types, Update

\* A mutation that fails: a window notes it, another tool returns.
LEMMA FailMoves ==
  ASSUME TypeOK, NEW t \in Thread, MutationFails(t)
  PROVE  \/ /\ win[t].kind \in Window
            /\ \E r \in {"failed", "pause_failed"} : Moves(t, "reply", [win[t] EXCEPT !.restore = r])
         \/ win[t].kind \notin Window /\ Moves(t, "idle", NoWin)
<1>1. {"idle", "reply"} \subseteq PcStep
  BY DEF PcStep
<1>2. \A r \in {"failed", "pause_failed"} : [win[t] EXCEPT !.restore = r] \in WinType
  BY Types, WinUpdates
<1>3. CASE win[t].kind \in Window
  <2>1. PICK r \in {"failed", "pause_failed"} :
          win' = [win EXCEPT ![t] = [win[t] EXCEPT !.restore = r]] /\ pc' = [pc EXCEPT ![t] = "reply"]
    <3>1. CASE Closing(t)
      BY <3>1, Types DEF MutationFails, Goto
    <3>2. CASE ~Closing(t)
      BY <1>3, <3>2, Types DEF MutationFails, Goto
    <3> QED
      BY <3>1, <3>2
  <2> QED
    BY <1>1, <1>2, <1>3, <2>1, Types, Update
<1>4. CASE win[t].kind \notin Window
  <2>1. Finish(t)
    BY <1>4 DEF MutationFails, Closing
  <2> QED
    BY <1>1, <1>4, <2>1, Types, NoWinType, Update DEF Finish, Goto
<1> QED
  BY <1>3, <1>4

LEMMA LandMoves ==
  ASSUME TypeOK, NEW t \in Thread, Land(t)
  PROVE  \E l \in {"no", "stopped", "paused"} :
           /\ Moves(t, "note", [win[t] EXCEPT !.resumed = Closing(t), !.landed = l])
           /\ win[t].action = "run" => l = win[t].landed
<1>1. win[t].landed \in {"no", "stopped", "paused"} /\ Closing(t) \in BOOLEAN
  BY Types DEF WinType, Closing
<1>2. PICK l \in {"no", "stopped", "paused"} :
        l = IF win[t].action = "run" THEN win[t].landed ELSE IF running THEN "stopped" ELSE "paused"
  BY <1>1
<1>3. PICK b \in BOOLEAN : b = Closing(t)
  BY <1>1
<1>4. [win[t] EXCEPT !.resumed = b, !.landed = l] \in WinType
  BY Types, WinUpdates
<1>5. win' = [win EXCEPT ![t] = [win[t] EXCEPT !.resumed = b, !.landed = l]]
  BY <1>2, <1>3, Types DEF Land
<1>6. pc' = [pc EXCEPT ![t] = "note"] /\ "note" \in PcStep
  BY DEF Land, Goto, PcStep
<1>7. Moves(t, "note", [win[t] EXCEPT !.resumed = b, !.landed = l])
  BY <1>4, <1>5, <1>6, Types, Update
<1> QED
  BY <1>2, <1>3, <1>7

LEMMA NoteMoves ==
  ASSUME TypeOK, NEW t \in Thread, Note(t)
  PROVE  \/ win[t].kind \notin Window /\ Moves(t, "idle", NoWin)
         \/ /\ win[t].kind \in Window /\ win[t].action = "run"
            /\ Moves(t, "reply", [win[t] EXCEPT !.restore = "restored"])
         \/ /\ win[t].kind \in Window /\ win[t].action = "pause"
            /\ Moves(t, "sample", win[t])
<1>1. {"idle", "reply", "sample"} \subseteq PcStep
  BY DEF PcStep
<1>2. CASE win[t].kind \notin Window
  BY <1>1, <1>2, Types, NoWinType, Update DEF Note, Finish, Goto, Closing
<1>3. CASE Closing(t)
  <2>1. [win[t] EXCEPT !.restore = "restored"] \in WinType
    BY Types, WinUpdates
  <2>2. win[t].kind \in Window /\ win[t].action = "run"
    BY <1>3 DEF Closing
  <2>3. /\ win' = [win EXCEPT ![t] = [win[t] EXCEPT !.restore = "restored"]]
        /\ pc' = [pc EXCEPT ![t] = "reply"]
    BY <1>3, <2>2, Types DEF Note, Goto
  <2> QED
    BY <1>1, <2>1, <2>2, <2>3, Types, Update
<1>4. CASE win[t].kind \in Window /\ ~Closing(t)
  <2>1. win[t].action = "pause"
    BY <1>4, Types DEF WinType, Closing
  <2>2. /\ win' = [win EXCEPT ![t] = win[t]] /\ pc' = [pc EXCEPT ![t] = "sample"]
        /\ win[t] \in WinType
    BY <1>4, Types DEF Note, Goto
  <2> QED
    BY <1>1, <1>4, <2>1, <2>2, Types, Update
<1> QED
  BY <1>2, <1>3, <1>4

LEMMA SampleMoves ==
  ASSUME TypeOK, NEW t \in Thread, Sample(t)
  PROVE  Moves(t, "sample", [win[t] EXCEPT !.moments = win[t].moments \cup {moment}])
<1>1. [win[t] EXCEPT !.moments = win[t].moments \cup {moment}] \in WinType
  BY Types, WinUpdates
<1>2. win' = [win EXCEPT ![t] = [win[t] EXCEPT !.moments = win[t].moments \cup {moment}]]
  BY Types DEF Sample
<1>3. pc' = [pc EXCEPT ![t] = "sample"] /\ "sample" \in PcStep
  BY Types DEF Sample, PcStep
<1> QED
  BY <1>1, <1>2, <1>3, Types, Update

LEMMA SampleEndsMoves ==
  ASSUME TypeOK, NEW t \in Thread, SampleEnds(t) \/ SampleUnusable(t)
  PROVE  \E b \in BOOLEAN :
           \/ Moves(t, "close", [win[t] EXCEPT !.failed = b])
           \/ win[t].kind = "memory" /\ Moves(t, "reply", [win[t] EXCEPT !.failed = b])
<1>1. \A b \in BOOLEAN : [win[t] EXCEPT !.failed = b] \in WinType
  BY Types, WinUpdates
<1>2. {"close", "reply"} \subseteq PcStep
  BY DEF PcStep
<1>3. PICK b \in BOOLEAN : win' = [win EXCEPT ![t] = [win[t] EXCEPT !.failed = b]]
  <2>1. CASE SampleEnds(t)
    <3>1. PICK f \in BOOLEAN : win' = [win EXCEPT ![t].failed = f /\ win[t].kind \in Composite]
      BY <2>1 DEF SampleEnds
    <3>2. CASE win[t].kind \in Composite
      <4>1. win' = [win EXCEPT ![t].failed = f]
        BY <3>1, <3>2
      <4> QED
        BY <4>1, Types
    <3>3. CASE win[t].kind \notin Composite
      <4>1. win' = [win EXCEPT ![t].failed = FALSE]
        BY <3>1, <3>3
      <4> QED
        BY <4>1, Types
    <3> QED
      BY <3>2, <3>3
  <2>2. CASE SampleUnusable(t)
    <3>1. CASE win[t].kind \in Composite
      <4>1. win' = [win EXCEPT ![t].failed = TRUE]
        BY <2>2, <3>1 DEF SampleUnusable
      <4> QED
        BY <4>1, Types
    <3>2. CASE win[t].kind \notin Composite
      <4>1. (win[t].kind \in Composite) = FALSE
        BY <3>2
      <4>2. win' = [win EXCEPT ![t].failed = win[t].kind \in Composite]
        BY <2>2 DEF SampleUnusable
      <4>3. win' = [win EXCEPT ![t].failed = FALSE]
        BY <4>1, <4>2, Zenon
      <4> QED
        BY <4>3, Types
    <3> QED
      BY <3>1, <3>2
  <2> QED
    BY <2>1, <2>2
<1>4. \/ pc' = [pc EXCEPT ![t] = "close"]
      \/ win[t].kind = "memory" /\ pc' = [pc EXCEPT ![t] = "reply"]
  BY DEF SampleEnds, SampleUnusable, Goto
<1> QED
  BY <1>1, <1>2, <1>3, <1>4, Types, Update

\* What closeWindow forgets.
Emptied(w) == [w EXCEPT !.initial = "unknown", !.moments = {}]

LEMMA CloseMoves ==
  ASSUME TypeOK, NEW t \in Thread, Close(t)
  PROVE  \/ /\ ~win[t].paused
            /\ Moves(t, "reply", [Emptied(win[t]) EXCEPT !.restore = "already_paused"])
         \/ /\ win[t].paused
            /\ Moves(t, "reply", [Emptied(win[t]) EXCEPT !.restore = "skipped_unknown"])
         \/ /\ win[t].paused
            /\ Moves(t, "admit", [Emptied(win[t]) EXCEPT !.action = "run"])
<1> DEFINE w == Emptied(win[t])
<1>1. {"reply", "admit"} \subseteq PcStep
  BY DEF PcStep
<1>2. w \in WinType /\ w.paused = win[t].paused
  <2>1. {} \in SUBSET (0..MaxMoment) /\ win[t] \in WinType
    BY Types
  <2> QED
    BY <2>1 DEF Emptied, WinType
<1>3. \A r \in {"already_paused", "skipped_unknown"} : [w EXCEPT !.restore = r] \in WinType
  BY <1>2 DEF WinType
<1>4. [w EXCEPT !.action = "run"] \in WinType
  BY <1>2 DEF WinType
<1>5. CASE ~win[t].paused
  <2>1. /\ win' = [win EXCEPT ![t] = [w EXCEPT !.restore = "already_paused"]]
        /\ pc' = [pc EXCEPT ![t] = "reply"]
    BY <1>2, <1>5 DEF Close, Goto, Emptied
  <2> QED
    BY <1>1, <1>3, <1>5, <2>1, Types, Update
<1>6. CASE win[t].paused /\ win[t].initial = "unknown"
  <2>1. /\ win' = [win EXCEPT ![t] = [w EXCEPT !.restore = "skipped_unknown"]]
        /\ pc' = [pc EXCEPT ![t] = "reply"]
    BY <1>2, <1>6 DEF Close, Goto, Emptied
  <2> QED
    BY <1>1, <1>3, <1>6, <2>1, Types, Update
<1>7. CASE win[t].paused /\ win[t].initial # "unknown"
  <2>1. /\ win' = [win EXCEPT ![t] = [w EXCEPT !.action = "run"]]
        /\ pc' = [pc EXCEPT ![t] = "admit"]
    BY <1>2, <1>7 DEF Close, Goto, Emptied
  <2> QED
    BY <1>1, <1>4, <1>7, <2>1, Types, Update
<1> QED
  BY <1>5, <1>6, <1>7

LEMMA ManifestMoves ==
  ASSUME TypeOK, NEW t \in Thread, ManifestFails(t)
  PROVE  Moves(t, "reply", [win[t] EXCEPT !.restore = "none"]) /\ win[t].kind \in Composite
<1>1. [win[t] EXCEPT !.restore = "none"] \in WinType
  BY Types, WinUpdates
<1>2. /\ win' = [win EXCEPT ![t] = [win[t] EXCEPT !.restore = "none"]]
      /\ win[t].kind \in Composite
  BY Types DEF ManifestFails
<1>3. pc' = [pc EXCEPT ![t] = "reply"] /\ "reply" \in PcStep
  BY Types DEF ManifestFails, PcStep
<1> QED
  BY <1>1, <1>2, <1>3, Types, Update

LEMMA ReplyMoves ==
  ASSUME TypeOK, NEW t \in Thread, Reply(t)
  PROVE  Moves(t, "idle", NoWin)
<1>1. "idle" \in PcStep
  BY DEF PcStep
<1> QED
  BY <1>1, Types, NoWinType, Update DEF Reply, Finish, Goto

-----------------------------------------------------------------------------
(* Types.                                                                   *)

\* Every step of a call belongs to one of the lemmas above.
LEMMA ActsMoves ==
  ASSUME TypeOK, NEW t \in Thread, Acts(t)
  PROVE  \E s \in PcStep, w \in WinType : Moves(t, s, w)
<1> USE DEF Moves
<1>1. CASE Start(t)
  BY <1>1, StartControlMoves, StartStatusMoves, StartGuardMoves, StartCompositeMoves DEF Start
<1>2. CASE ObserveTracked(t) \/ ObserveNative(t)
  BY <1>2, ObserveMoves
<1>3. CASE Learn(t)
  BY <1>3, LearnMoves
<1>4. CASE Decide(t)
  BY <1>4, DecideMoves
<1>5. CASE Admit(t)
  <2>1. CASE Admitted(t)
    <3>1. /\ win' = [win EXCEPT ![t] = win[t]] /\ pc' = [pc EXCEPT ![t] = "land"]
          /\ win[t] \in WinType /\ "land" \in PcStep
      BY <1>5, <2>1, Types DEF Admit, Goto, PcStep
    <3>2. Moves(t, "land", win[t])
      BY <3>1, Types, Update
    <3> QED
      BY <3>2
  <2>2. CASE MutationFails(t)
    BY <2>2, FailMoves
  <2> QED
    BY <1>5, <2>1, <2>2 DEF Admit
<1>6. CASE Land(t)
  BY <1>6, LandMoves
<1>7. CASE LandFails(t)
  BY <1>7, FailMoves DEF LandFails
<1>8. CASE Note(t)
  BY <1>8, NoteMoves
<1>9. CASE Sample(t)
  BY <1>9, SampleMoves
<1>10. CASE SampleEnds(t) \/ SampleUnusable(t)
  BY <1>10, SampleEndsMoves
<1>11. CASE Close(t)
  BY <1>11, CloseMoves
<1>12. CASE Reply(t)
  BY <1>12, ReplyMoves
<1>13. CASE ManifestFails(t)
  BY <1>13, ManifestMoves
<1> QED
  BY <1>1, <1>2, <1>3, <1>4, <1>5, <1>6, <1>7, <1>8, <1>9, <1>10, <1>11, <1>12, <1>13 DEF Acts, Step

\* The variables that are not a call's own.
LEMMA ActsFrame ==
  ASSUME TypeOK, NEW t \in Thread, Acts(t)
  PROVE  /\ observed' \in RunStates \cup {"unknown"} /\ mcpSet' \in RunStates \cup {"unknown"}
         /\ stop' = None
         /\ running' \in BOOLEAN /\ UNCHANGED <<moment, toggles>>
         /\ sched' \in Thread \cup {None}
         /\ lock' \in Thread \cup {Client, None} /\ lockLive' \in BOOLEAN
         /\ lock' = None => ~lockLive'
         /\ calls' \in 0..MaxCalls
<1>1. /\ observed \in RunStates \cup {"unknown"} /\ mcpSet \in RunStates \cup {"unknown"}
      /\ stop = None /\ running \in BOOLEAN /\ sched \in Thread \cup {None}
      /\ lock \in Thread \cup {Client, None} /\ lockLive \in BOOLEAN
      /\ lock = None => ~lockLive
      /\ calls \in 0..MaxCalls /\ MaxCalls \in Nat /\ None # t
      /\ win[t].initial \in RunStates \cup {"unknown"}
  BY Types, BoundsAssumption, ClientAssumption DEF TypeOK, TrackerTypeOK, WinType
<1> USE <1>1 DEF trackerVars, machineVars, lockVars
<1>2. CASE Start(t)
  <2>1. CASE StartControl(t) \/ StartStatus(t) \/ StartGuard(t)
    BY <2>1 DEF StartControl, StartStatus, StartGuard
  <2>2. CASE StartComposite(t)
    <3>1. calls' \in 0..MaxCalls /\ UNCHANGED <<trackerVars, machineVars, sched>>
      BY <2>2 DEF StartComposite
    <3> QED
      BY <2>2, <3>1, StartCompositeMoves
  <2> QED
    BY <1>2, <2>1, <2>2 DEF Start
<1>3. CASE Learn(t)
  BY <1>3 DEF Learn, Observe
<1>4. CASE Note(t)
  BY <1>4 DEF Note, SetByMCP, RunStates
<1>5. CASE Land(t) \/ LandFails(t)
  BY <1>5 DEF Land, LandFails
<1>6. CASE Admit(t)
  BY <1>6 DEF Admit
<1>7. CASE Reply(t)
  BY <1>7 DEF Reply
<1>8. CASE \/ ObserveTracked(t) \/ ObserveNative(t) \/ Decide(t) \/ Sample(t) \/ SampleEnds(t)
           \/ SampleUnusable(t) \/ Close(t) \/ ManifestFails(t)
  BY <1>8 DEF ObserveTracked, ObserveNative, Decide, Sample, SampleEnds, SampleUnusable, Close,
     ManifestFails
<1> QED
  BY <1>2, <1>3, <1>4, <1>5, <1>6, <1>7, <1>8 DEF Acts, Step

\* An expiry or a click marks the windows it got in the way of, and no more.
LEMMA WorldMarks ==
  ASSUME TypeOK, LockExpires \/ ToggleInUI, NEW t \in Thread
  PROVE  /\ win' \in [Thread -> WinType] /\ pc' = pc
         /\ \/ win'[t] = win[t]
            \/ win[t].control = t /\ win'[t] = [win[t] EXCEPT !.disturbed = TRUE]
<1>1. \A u \in Thread : win[u] \in WinType /\ [win[u] EXCEPT !.disturbed = TRUE] \in WinType
  BY Types, WinUpdates
<1>2. CASE LockExpires
  BY <1>1, <1>2 DEF LockExpires
<1>3. CASE ToggleInUI
  BY <1>1, <1>3 DEF ToggleInUI
<1> QED
  BY <1>2, <1>3, SMTT(40)

LEMMA TypeStep ==
  ASSUME TypeOK, [Next]_vars
  PROVE  TypeOK'
<1>1. ASSUME NEW t \in Thread, Acts(t)
      PROVE  TypeOK'
  <2>1. win' \in [Thread -> WinType] /\ pc' \in [Thread -> PcStep]
    BY <1>1, ActsMoves DEF Moves
  <2>2. moment \in 0..MaxMoment /\ toggles \in 0..MaxToggles
    BY DEF TypeOK
  <2> QED
    BY <1>1, <2>1, <2>2, ActsFrame DEF TypeOK, TrackerTypeOK, PcStep
<1>2. CASE LockExpires \/ ToggleInUI
  <2>1. win' \in [Thread -> WinType] /\ pc' = pc
    <3>1. CASE Thread = {}
      BY <1>2, <3>1 DEF LockExpires, ToggleInUI
    <3>2. CASE Thread # {}
      BY <1>2, <3>2, WorldMarks
    <3> QED
      BY <3>1, <3>2
  <2>2. CASE LockExpires
    BY <2>1, <2>2 DEF TypeOK, TrackerTypeOK, LockExpires, trackerVars, machineVars
  <2>3. CASE ToggleInUI
    BY <2>1, <2>3, BoundsAssumption DEF TypeOK, TrackerTypeOK, ToggleInUI, trackerVars, lockVars
  <2> QED
    BY <1>2, <2>2, <2>3
<1>3. CASE ClientAcquires \/ ClientReleases
  <2>1. Client # None /\ MaxCalls \in Nat
    BY BoundsAssumption, ClientAssumption
  <2>2. CASE ClientAcquires
    BY <2>1, <2>2 DEF TypeOK, TrackerTypeOK, ClientAcquires, trackerVars, machineVars
  <2>3. CASE ClientReleases
    BY <2>1, <2>3 DEF TypeOK, TrackerTypeOK, ClientReleases, trackerVars, machineVars
  <2> QED
    BY <1>3, <2>2, <2>3
<1>4. CASE Tick
  BY <1>4, BoundsAssumption DEF TypeOK, TrackerTypeOK, Tick, trackerVars, lockVars
<1>5. CASE UNCHANGED vars
  BY <1>5 DEF TypeOK, TrackerTypeOK, vars
<1> QED
  BY <1>1, <1>2, <1>3, <1>4, <1>5 DEF Next, NoMoreCalls, Acts

LEMMA TypeInit == Init => TypeOK
<1> SUFFICES ASSUME Init PROVE TypeOK
  OBVIOUS
<1>1. 0 \in 0..MaxCalls /\ 0 \in 0..MaxMoment /\ 0 \in 0..MaxToggles
  BY BoundsAssumption
<1>2. win \in [Thread -> WinType]
  BY NoWinType DEF Init
<1> QED
  BY <1>1, <1>2 DEF Init, TypeOK, TrackerInit, TrackerTypeOK, RunStates

-----------------------------------------------------------------------------
(* The locals of a call.                                                    *)

\* The ids of locks are not confused with one another, nor with the absence of one.
LEMMA NoClash ==
  ASSUME NEW t \in Thread
  PROVE  t # None /\ t # Client /\ None # Client
BY ClientAssumption

LEMMA NoWinLocal ==
  ASSUME NEW t \in Thread
  PROVE  Local(t, "idle", NoWin)
<1>1. /\ NoWin.kind = "none" /\ NoWin.control = None /\ NoWin.landed = "no"
      /\ NoWin.kind \notin Window
  BY DEF NoWin, Window
<1> QED
  BY <1>1, NoClash DEF Local

LEMMA LocalStep ==
  ASSUME TypeOK, LocalOK, [Next]_vars
  PROVE  LocalOK'
<1> USE DEF OpeningStep, Window, Composite
<1>1. ASSUME NEW t \in Thread, NEW s \in PcStep, NEW w \in WinType, Moves(t, s, w), Local(t, s, w)
      PROVE  LocalOK'
  <2>1. \A u \in Thread \ {t} : Local(u, pc'[u], win'[u])
    BY <1>1 DEF LocalOK, Moves
  <2>2. Local(t, pc'[t], win'[t])
    BY <1>1 DEF Moves
  <2> QED
    BY <2>1, <2>2 DEF LocalOK
<1>2. ASSUME NEW t \in Thread, Acts(t)
      PROVE  LocalOK'
  <2> DEFINE v == win[t]
  <2>1. v \in WinType /\ Local(t, pc[t], v)
    BY Types DEF LocalOK
  <2>2. Local(t, "idle", NoWin)
    BY NoWinLocal
  <2> USE NoClash
  <2> HIDE DEF v
  <2>3. CASE StartControl(t)
    <3>1. PICK k \in {"cpu_pause", "cpu_run"}, c \in {None, Client}, a \in {"run", "pause"} :
            Moves(t, "admit", [NoWin EXCEPT !.kind = k, !.control = c, !.action = a])
      BY <2>3, StartControlMoves
    <3> DEFINE w == [NoWin EXCEPT !.kind = k, !.control = c, !.action = a]
    <3>2. /\ w.kind = k /\ w.control = c /\ w.landed = "no" /\ k # "none"
          /\ k \notin Window
      BY DEF NoWin
    <3> HIDE DEF w
    <3>3. c # t /\ c \in {t, Client, None}
      OBVIOUS
    <3>4. Local(t, "admit", w)
      BY <3>2, <3>3 DEF Local
    <3> QED
      BY <1>1, <3>1, <3>4 DEF Moves, w
  <2>4. CASE StartStatus(t)
    <3>1. PICK i \in RunStates :
            Moves(t, "learn", [NoWin EXCEPT !.kind = "emulator_status", !.initial = i])
      BY <2>4, StartStatusMoves
    <3>2. Local(t, "learn", [NoWin EXCEPT !.kind = "emulator_status", !.initial = i])
      BY ClientAssumption DEF Local, NoWin
    <3> QED
      BY <1>1, <3>1, <3>2 DEF Moves
  <2>5. CASE StartGuard(t)
    <3>1. Moves(t, "observe", [NoWin EXCEPT !.kind = "guard"])
      BY <2>5, StartGuardMoves
    <3>2. Local(t, "observe", [NoWin EXCEPT !.kind = "guard"])
      BY ClientAssumption DEF Local, NoWin
    <3> QED
      BY <1>1, <3>1, <3>2 DEF Moves
  <2>6. CASE StartComposite(t)
    <3>1. PICK k \in Composite, c \in {t, Client} :
            Moves(t, "observe", [NoWin EXCEPT !.kind = k, !.control = c])
      BY <2>6, StartCompositeMoves
    <3>2. Local(t, "observe", [NoWin EXCEPT !.kind = k, !.control = c])
      BY ClientAssumption DEF Local, NoWin
    <3> QED
      BY <1>1, <3>1, <3>2 DEF Moves
  <2>7. CASE ObserveTracked(t) \/ ObserveNative(t)
    <3>1. PICK s \in {"learn", "decide"}, i \in RunStates \cup {"unknown"} :
            Moves(t, s, [v EXCEPT !.initial = i])
      BY <2>7, ObserveMoves DEF v
    <3>2. pc[t] = "observe"
      BY <2>7 DEF ObserveTracked, ObserveNative
    <3>3. Local(t, s, [v EXCEPT !.initial = i])
      BY <2>1, <3>2 DEF Local, WinType
    <3> QED
      BY <1>1, <3>1, <3>3 DEF Moves
  <2>8. CASE Learn(t)
    <3>1. pc[t] = "learn"
      BY <2>8 DEF Learn
    <3>2. CASE v.kind = "emulator_status"
      <4>1. Moves(t, "idle", NoWin)
        BY <2>8, <3>2, LearnMoves DEF v
      <4> QED
        BY <1>1, <2>2, <4>1 DEF Moves
    <3>3. CASE v.kind # "emulator_status"
      <4>1. Moves(t, "decide", v)
        BY <2>8, <3>3, LearnMoves DEF v
      <4>2. Local(t, "decide", v)
        <5>1. v.kind \in Window
          BY <2>1, <3>1, <3>3 DEF Local, WinType, Tool
        <5> QED
          BY <2>1, <3>1, <5>1 DEF Local
      <4> QED
        BY <1>1, <4>1, <4>2 DEF Moves
    <3> QED
      BY <3>2, <3>3
  <2>9. CASE Decide(t)
    <3>1. PICK b \in BOOLEAN :
            Moves(t, IF b THEN "admit" ELSE "sample", [v EXCEPT !.paused = b, !.action = "pause"])
      BY <2>9, DecideMoves DEF v
    <3>2. pc[t] = "decide"
      BY <2>9 DEF Decide
    <3>3. Local(t, IF b THEN "admit" ELSE "sample", [v EXCEPT !.paused = b, !.action = "pause"])
      <4>1. CASE b
        BY <2>1, <3>2, <4>1 DEF Local, WinType
      <4>2. CASE ~b
        BY <2>1, <3>2, <4>2 DEF Local, WinType
      <4> QED
        BY <4>1, <4>2
    <3> QED
      BY <1>1, <3>1, <3>3 DEF Moves
  <2>10. ASSUME MutationFails(t), pc[t] \in {"admit", "land"}
         PROVE  LocalOK'
    <3>1. CASE v.kind \notin Window
      <4>1. Moves(t, "idle", NoWin)
        BY <2>10, <3>1, FailMoves DEF v
      <4> QED
        BY <1>1, <2>2, <4>1 DEF Moves
    <3>2. CASE v.kind \in Window
      <4>1. PICK r \in {"failed", "pause_failed"} : Moves(t, "reply", [v EXCEPT !.restore = r])
        BY <2>10, <3>2, FailMoves DEF v
      <4>2. Local(t, "reply", [v EXCEPT !.restore = r])
        BY <2>1, <2>10, <3>2 DEF Local, WinType
      <4> QED
        BY <1>1, <4>1, <4>2 DEF Moves
    <3> QED
      BY <3>1, <3>2
  <2>11. CASE Admit(t)
    <3>1. pc[t] = "admit"
      BY <2>11 DEF Admit
    <3>2. CASE Admitted(t)
      <4>1. win' = [win EXCEPT ![t] = v] /\ pc' = [pc EXCEPT ![t] = "land"] /\ "land" \in PcStep
        BY <2>11, <3>2, Types DEF Admit, Goto, PcStep, v
      <4>2. Moves(t, "land", v)
        BY <2>1, <4>1, Types, Update
      <4>3. Local(t, "land", v)
        BY <2>1, <3>1 DEF Local
      <4> QED
        BY <1>1, <4>2, <4>3 DEF Moves
    <3>3. CASE MutationFails(t)
      BY <2>10, <3>1, <3>3
    <3> QED
      BY <2>11, <3>2, <3>3 DEF Admit
  <2>12. CASE Land(t)
    <3>1. PICK l \in {"no", "stopped", "paused"} :
            /\ Moves(t, "note", [v EXCEPT !.resumed = Closing(t), !.landed = l])
            /\ v.action = "run" => l = v.landed
      BY <2>12, LandMoves DEF v
    <3>2. pc[t] = "land" /\ Closing(t) = (v.action = "run" /\ v.kind \in Window)
      BY <2>12 DEF Land, Closing, v
    <3>3. Local(t, "note", [v EXCEPT !.resumed = Closing(t), !.landed = l])
      BY <2>1, <3>1, <3>2 DEF Local, WinType
    <3> QED
      BY <1>1, <3>1, <3>3 DEF Moves
  <2>13. CASE LandFails(t)
    BY <2>10, <2>13 DEF LandFails
  <2>14. CASE Note(t)
    <3>1. pc[t] = "note"
      BY <2>14 DEF Note
    <3>2. CASE Moves(t, "idle", NoWin)
      BY <1>1, <2>2, <3>2 DEF Moves
    <3>3. CASE v.kind \in Window /\ v.action = "run" /\ Moves(t, "reply", [v EXCEPT !.restore = "restored"])
      <4>1. Local(t, "reply", [v EXCEPT !.restore = "restored"])
        BY <2>1, <3>1, <3>3 DEF Local, WinType
      <4> QED
        BY <1>1, <3>3, <4>1 DEF Moves
    <3>4. CASE v.kind \in Window /\ v.action = "pause" /\ Moves(t, "sample", v)
      <4>1. Local(t, "sample", v)
        BY <2>1, <3>1, <3>4 DEF Local
      <4> QED
        BY <1>1, <3>4, <4>1 DEF Moves
    <3> QED
      BY <2>14, <3>2, <3>3, <3>4, NoteMoves DEF v
  <2>15. CASE Sample(t)
    <3>1. Moves(t, "sample", [v EXCEPT !.moments = v.moments \cup {moment}])
      BY <2>15, SampleMoves DEF v
    <3>2. Local(t, "sample", [v EXCEPT !.moments = v.moments \cup {moment}])
      BY <2>1, <2>15 DEF Local, WinType, Sample
    <3> QED
      BY <1>1, <3>1, <3>2 DEF Moves
  <2>16. CASE SampleEnds(t) \/ SampleUnusable(t)
    <3>1. PICK b \in BOOLEAN :
            \/ Moves(t, "close", [v EXCEPT !.failed = b])
            \/ v.kind = "memory" /\ Moves(t, "reply", [v EXCEPT !.failed = b])
      BY <2>16, SampleEndsMoves DEF v
    <3>2. pc[t] = "sample"
      BY <2>16 DEF SampleEnds, SampleUnusable
    <3>3. /\ Local(t, "close", [v EXCEPT !.failed = b])
          /\ v.kind = "memory" => Local(t, "reply", [v EXCEPT !.failed = b])
      BY <2>1, <3>2 DEF Local, WinType
    <3> QED
      BY <1>1, <3>1, <3>3 DEF Moves
  <2>17. CASE Close(t)
    <3> DEFINE w == Emptied(v)
    <3>1. pc[t] = "close"
      BY <2>17 DEF Close
    <3>2. /\ w \in WinType /\ w.moments = {} /\ w.kind = v.kind /\ w.control = v.control
          /\ w.paused = v.paused /\ w.landed = v.landed /\ w.resumed = v.resumed
      <4>1. {} \in SUBSET (0..MaxMoment)
        OBVIOUS
      <4> QED
        BY <2>1, <4>1 DEF Emptied, WinType
    <3> HIDE DEF w
    <3>3. CASE ~v.paused /\ Moves(t, "reply", [w EXCEPT !.restore = "already_paused"])
      <4>1. Local(t, "reply", [w EXCEPT !.restore = "already_paused"])
        BY <2>1, <3>1, <3>2, <3>3 DEF Local, WinType
      <4> QED
        BY <1>1, <3>3, <4>1 DEF Moves
    <3>4. CASE v.paused /\ Moves(t, "reply", [w EXCEPT !.restore = "skipped_unknown"])
      <4>1. Local(t, "reply", [w EXCEPT !.restore = "skipped_unknown"])
        BY <2>1, <3>1, <3>2 DEF Local, WinType
      <4> QED
        BY <1>1, <3>4, <4>1 DEF Moves
    <3>5. CASE v.paused /\ Moves(t, "admit", [w EXCEPT !.action = "run"])
      <4>1. Local(t, "admit", [w EXCEPT !.action = "run"])
        BY <2>1, <3>1, <3>2, <3>5 DEF Local, WinType
      <4> QED
        BY <1>1, <3>5, <4>1 DEF Moves
    <3> QED
      BY <2>17, <3>3, <3>4, <3>5, CloseMoves DEF v, w
  <2>18. CASE ManifestFails(t)
    <3>1. Moves(t, "reply", [v EXCEPT !.restore = "none"]) /\ v.kind \in Composite
      BY <2>18, ManifestMoves DEF v
    <3>2. pc[t] = "reply"
      BY <2>18 DEF ManifestFails
    <3>3. Local(t, "reply", [v EXCEPT !.restore = "none"])
      BY <2>1, <3>1, <3>2 DEF Local, WinType
    <3> QED
      BY <1>1, <3>1, <3>3 DEF Moves
  <2>19. CASE Reply(t)
    BY <1>1, <2>2, <2>19, ReplyMoves DEF Moves
  <2> QED
    BY <1>2, <2>3, <2>4, <2>5, <2>6, <2>7, <2>8, <2>9, <2>11, <2>12, <2>13, <2>14, <2>15, <2>16,
       <2>17, <2>18, <2>19 DEF Acts, Start, Step
<1>3. ASSUME LockExpires \/ ToggleInUI, NEW t \in Thread
      PROVE  Local(t, pc'[t], win'[t])
  <2>1. Local(t, pc[t], win[t]) /\ win[t] \in WinType /\ pc'[t] = pc[t]
    BY <1>3, Types, WorldMarks DEF LocalOK
  <2>2. CASE win'[t] = win[t]
    BY <2>1, <2>2
  <2>3. CASE win'[t] = [win[t] EXCEPT !.disturbed = TRUE]
    BY <2>1, <2>3 DEF Local, WinType
  <2> QED
    BY <1>3, <2>2, <2>3, WorldMarks
<1>4. CASE UNCHANGED <<pc, win>>
  BY <1>4 DEF LocalOK
<1> QED
  BY <1>2, <1>3, <1>4 DEF Next, NoMoreCalls, Acts, LocalOK, ClientAcquires, ClientReleases, Tick, vars

LEMMA LocalInit == Init => LocalOK
BY NoWinLocal DEF Init, LocalOK

-----------------------------------------------------------------------------
(* The scheduler and the lock.                                              *)

\* Who takes and leaves schedulerMu, and with it the machine.
LEMMA SchedStep ==
  ASSUME TypeOK, NEW t \in Thread, Acts(t), \A u \in Thread : pc[u] = "land" => sched = u
  PROVE  \/ /\ Admit(t) /\ Admitted(t) /\ sched = None /\ sched' = t
            /\ pc' = [pc EXCEPT ![t] = "land"] /\ win' = win
            /\ UNCHANGED <<running, lock, lockLive>>
         \/ (Land(t) \/ LandFails(t)) /\ sched = t /\ sched' = None /\ pc'[t] # "land"
            /\ UNCHANGED <<lock, lockLive>>
         \/ pc'[t] # "land" /\ UNCHANGED <<sched, running>>
<1> USE DEF machineVars, lockVars
<1>1. CASE Admit(t)
  <2>1. CASE Admitted(t)
    BY <1>1, <2>1 DEF Admit, Goto
  <2>2. CASE ~Admitted(t)
    <3>1. pc'[t] # "land"
      BY <1>1, <2>2, FailMoves DEF Admit, Moves
    <3> QED
      BY <1>1, <2>2, <3>1 DEF Admit
  <2> QED
    BY <2>1, <2>2
<1>2. CASE Land(t)
  BY <1>2, LandMoves DEF Land, Moves
<1>3. CASE LandFails(t)
  BY <1>3, FailMoves DEF LandFails, Moves
<1>4. CASE Start(t)
  <2>1. pc'[t] # "land"
    BY <1>4, StartControlMoves, StartStatusMoves, StartGuardMoves, StartCompositeMoves DEF Start, Moves
  <2> QED
    BY <1>4, <2>1 DEF Start, StartControl, StartStatus, StartGuard, StartComposite
<1>5. CASE \/ ObserveTracked(t) \/ ObserveNative(t) \/ Learn(t) \/ Decide(t)
  <2>1. pc'[t] # "land"
    BY <1>5, ObserveMoves, LearnMoves, DecideMoves DEF Moves
  <2> QED
    BY <1>5, <2>1 DEF ObserveTracked, ObserveNative, Learn, Decide
<1>6. CASE \/ Note(t) \/ Sample(t) \/ SampleEnds(t) \/ SampleUnusable(t)
  <2>1. pc'[t] # "land"
    BY <1>6, NoteMoves, SampleMoves, SampleEndsMoves DEF Moves
  <2> QED
    BY <1>6, <2>1 DEF Note, Sample, SampleEnds, SampleUnusable
<1>7. CASE Close(t) \/ Reply(t) \/ ManifestFails(t)
  <2>1. pc'[t] # "land"
    BY <1>7, CloseMoves, ReplyMoves, ManifestMoves DEF Moves
  <2> QED
    BY <1>7, <2>1 DEF Close, Reply, ManifestFails
<1> QED
  BY <1>1, <1>2, <1>3, <1>4, <1>5, <1>6, <1>7 DEF Acts, Step

\* Whose lock is installed.
LEMMA LockStep ==
  ASSUME TypeOK, NEW t \in Thread, Acts(t)
  PROVE  \/ StartComposite(t) /\ ActiveLock = None /\ lock' = t /\ lockLive' = TRUE
         \/ Reply(t) /\ (IF lock = t THEN lock' = None ELSE UNCHANGED <<lock, lockLive>>)
         \/ UNCHANGED <<lock, lockLive>>
<1> USE DEF machineVars, lockVars
<1>1. CASE StartComposite(t)
  BY <1>1, StartCompositeMoves
<1>2. CASE Reply(t)
  <2>1. lockLive \in BOOLEAN
    BY DEF TypeOK
  <2> QED
    BY <1>2, <2>1 DEF Reply
<1>3. CASE StartControl(t) \/ StartStatus(t) \/ StartGuard(t)
  BY <1>3 DEF StartControl, StartStatus, StartGuard
<1>4. CASE ObserveTracked(t) \/ ObserveNative(t) \/ Learn(t) \/ Decide(t)
  BY <1>4 DEF ObserveTracked, ObserveNative, Learn, Decide
<1>5. CASE Admit(t) \/ Land(t) \/ LandFails(t) \/ Note(t)
  BY <1>5 DEF Admit, Land, LandFails, Note
<1>6. CASE Sample(t) \/ SampleEnds(t) \/ SampleUnusable(t) \/ Close(t) \/ ManifestFails(t)
  BY <1>6 DEF Sample, SampleEnds, SampleUnusable, Close, ManifestFails
<1> QED
  BY <1>1, <1>2, <1>3, <1>4, <1>5, <1>6 DEF Acts, Start, Step

\* A call keeps what it presents, and whether its window was disturbed, from its
\* start to its return.
LEMMA ControlStep ==
  ASSUME TypeOK, NEW t \in Thread, Acts(t)
  PROVE  \/ win'[t].control = win[t].control /\ win'[t].disturbed = win[t].disturbed
         \/ win'[t].control \in {None, Client}
         \/ StartComposite(t) /\ (win'[t].control = t => lock' = t /\ lockLive' = TRUE)
<1> DEFINE v == win[t]
<1>1. v \in WinType
  BY Types
<1>2. NoWin.control = None
  BY DEF NoWin
<1> HIDE DEF v
<1>3. CASE StartControl(t)
  <2>1. PICK k \in {"cpu_pause", "cpu_run"}, c \in {None, Client}, a \in {"run", "pause"} :
          win'[t] = [NoWin EXCEPT !.kind = k, !.control = c, !.action = a]
    BY <1>3, StartControlMoves DEF Moves
  <2> QED
    BY <2>1 DEF NoWin
<1>4. CASE StartStatus(t) \/ StartGuard(t)
  <2>1. \/ \E i \in RunStates : win'[t] = [NoWin EXCEPT !.kind = "emulator_status", !.initial = i]
        \/ win'[t] = [NoWin EXCEPT !.kind = "guard"]
    <3>1. CASE StartStatus(t) BY <3>1, StartStatusMoves DEF Moves
    <3>2. CASE StartGuard(t) BY <3>2, StartGuardMoves DEF Moves
    <3> QED BY <1>4, <3>1, <3>2
  <2> QED
    BY <2>1 DEF NoWin
<1>5. CASE StartComposite(t)
  <2>1. PICK k \in Composite, c \in {t, Client} :
          /\ Moves(t, "observe", [NoWin EXCEPT !.kind = k, !.control = c])
          /\ \/ c = t /\ ActiveLock = None /\ lock' = t /\ lockLive' = TRUE
             \/ c = Client /\ UNCHANGED <<lock, lockLive>>
    BY <1>5, StartCompositeMoves
  <2>2. win'[t].control = c
    BY <2>1 DEF NoWin, Moves
  <2> QED
    BY <1>5, <2>1, <2>2
<1>6. CASE ObserveTracked(t) \/ ObserveNative(t) \/ Decide(t)
  <2>1. \/ \E i \in RunStates \cup {"unknown"} : win'[t] = [v EXCEPT !.initial = i]
        \/ \E b \in BOOLEAN : win'[t] = [v EXCEPT !.paused = b, !.action = "pause"]
    BY <1>6, ObserveMoves, DecideMoves DEF Moves, v
  <2> QED
    BY <1>1, <2>1 DEF WinType, v
<1>7. CASE Learn(t) \/ Note(t) \/ Reply(t)
  <2>1. \/ win'[t] = NoWin \/ win'[t] = v \/ win'[t] = [v EXCEPT !.restore = "restored"]
    BY <1>7, LearnMoves, NoteMoves, ReplyMoves DEF Moves, v
  <2> QED
    BY <1>1, <1>2, <2>1 DEF WinType, v
<1>8. CASE Admit(t) \/ LandFails(t)
  <2>1. \/ win'[t] = v \/ win'[t] = NoWin
        \/ \E r \in {"failed", "pause_failed"} : win'[t] = [v EXCEPT !.restore = r]
    BY <1>8, FailMoves DEF Admit, LandFails, Moves, v
  <2> QED
    BY <1>1, <1>2, <2>1 DEF WinType, v
<1>9. CASE Land(t)
  <2>1. PICK l \in {"no", "stopped", "paused"} :
          win'[t] = [v EXCEPT !.resumed = Closing(t), !.landed = l]
    BY <1>9, LandMoves DEF Moves, v
  <2> QED
    BY <1>1, <2>1 DEF WinType, v
<1>10. CASE Sample(t) \/ SampleEnds(t) \/ SampleUnusable(t)
  <2>1. \/ win'[t] = [v EXCEPT !.moments = v.moments \cup {moment}]
        \/ \E b \in BOOLEAN : win'[t] = [v EXCEPT !.failed = b]
    BY <1>10, SampleMoves, SampleEndsMoves DEF Moves, v
  <2> QED
    BY <1>1, <2>1 DEF WinType, v
<1>11. CASE Close(t)
  <2>1. \/ \E r \in {"already_paused", "skipped_unknown"} : win'[t] = [Emptied(v) EXCEPT !.restore = r]
        \/ win'[t] = [Emptied(v) EXCEPT !.action = "run"]
    BY <1>11, CloseMoves DEF Moves, v
  <2> QED
    BY <1>1, <2>1 DEF WinType, v, Emptied
<1>12. CASE ManifestFails(t)
  <2>1. win'[t] = [v EXCEPT !.restore = "none"]
    BY <1>12, ManifestMoves DEF Moves, v
  <2> QED
    BY <1>1, <2>1 DEF WinType, v
<1> QED
  BY <1>3, <1>4, <1>5, <1>6, <1>7, <1>8, <1>9, <1>10, <1>11, <1>12 DEF Acts, Start, Step

LEMMA HoldsStep ==
  ASSUME TypeOK, LocalOK, HoldsOK, [Next]_vars
  PROVE  HoldsOK'
<1>1. ASSUME NEW t \in Thread, Acts(t)
      PROVE  HoldsOK'
  <2>1. \A u \in Thread \ {t} : win'[u] = win[u] /\ pc'[u] = pc[u]
    BY <1>1, ActsMoves DEF Moves
  <2>2. \A u \in Thread : pc[u] = "land" => sched = u
    BY DEF HoldsOK
  <2>3. ASSUME NEW u \in Thread, pc'[u] = "land"
        PROVE  sched' = u
    BY <1>1, <2>1, <2>2, <2>3, SchedStep, ClientAssumption, Types
  <2>4. ASSUME NEW u \in Thread, win'[u].control = u, ~win'[u].disturbed
        PROVE  lock' = u /\ lockLive'
    <3>1. u # None /\ u # Client
      BY ClientAssumption
    <3>2. CASE win[u].control = u /\ ~win[u].disturbed /\ u # t
      <4>1. lock = u /\ lockLive
        BY <3>2 DEF HoldsOK
      <4> QED
        BY <1>1, <3>1, <3>2, <4>1, LockStep DEF ActiveLock
    <3>3. CASE win[u].control = u /\ ~win[u].disturbed /\ u = t
      <4>1. lock = u /\ lockLive
        BY <3>3 DEF HoldsOK
      <4>2. ~Reply(t)
        BY <2>4, <3>1, <3>3, ReplyMoves DEF Moves, NoWin
      <4> QED
        BY <1>1, <3>1, <3>3, <4>1, <4>2, LockStep DEF ActiveLock
    <3>4. CASE ~(win[u].control = u /\ ~win[u].disturbed)
      BY <1>1, <2>1, <2>4, <3>1, <3>4, ControlStep
    <3> QED
      BY <3>2, <3>3, <3>4
  <2> QED
    BY <2>3, <2>4 DEF HoldsOK
<1>2. CASE LockExpires \/ ToggleInUI
  <2>1. pc' = pc /\ sched' = sched
    BY <1>2 DEF LockExpires, ToggleInUI
  <2>2. ASSUME NEW u \in Thread, win'[u].control = u, ~win'[u].disturbed
        PROVE  lock' = u /\ lockLive'
    <3>1. \/ win'[u] = win[u]
          \/ win'[u] = [win[u] EXCEPT !.disturbed = TRUE] /\ win[u] \in WinType
      BY <1>2, Types, WorldMarks
    <3>2. win'[u] = win[u]
      BY <2>2, <3>1 DEF WinType
    <3>3. lock = u /\ lockLive
      BY <2>2, <3>2 DEF HoldsOK
    <3>4. win'[u].disturbed
      <4>1. win[u] \in WinType
        BY Types
      <4>2. CASE LockExpires
        <5>1. win'[u] = [win[u] EXCEPT !.disturbed = TRUE]
          BY <2>2, <3>2, <3>3, <4>2 DEF LockExpires
        <5> QED
          BY <4>1, <5>1 DEF WinType
      <4>3. CASE ToggleInUI
        <5>1. win'[u] = [win[u] EXCEPT !.disturbed = TRUE]
          BY <2>2, <3>2, <4>3 DEF ToggleInUI
        <5> QED
          BY <4>1, <5>1 DEF WinType
      <4> QED
        BY <1>2, <4>2, <4>3
    <3> QED
      BY <2>2, <3>4
  <2> QED
    BY <2>1, <2>2 DEF HoldsOK
<1>3. CASE ClientAcquires \/ ClientReleases
  <2>1. UNCHANGED <<pc, win, sched>>
    BY <1>3 DEF ClientAcquires, ClientReleases
  <2>2. ASSUME NEW u \in Thread, win[u].control = u, ~win[u].disturbed
        PROVE  FALSE
    BY <1>3, <2>2, ClientAssumption DEF HoldsOK, ClientAcquires, ClientReleases, ActiveLock
  <2> QED
    BY <2>1, <2>2 DEF HoldsOK
<1>4. CASE Tick \/ UNCHANGED vars
  BY <1>4 DEF HoldsOK, Tick, vars, lockVars
<1> QED
  BY <1>1, <1>2, <1>3, <1>4 DEF Next, NoMoreCalls, Acts

LEMMA HoldsInit == Init => HoldsOK
<1> SUFFICES ASSUME Init, NEW t \in Thread
             PROVE  pc[t] # "land" /\ win[t].control # t
  BY DEF HoldsOK
<1> QED
  BY NoClash DEF Init, NoWin

-----------------------------------------------------------------------------
(* The machine under a composite's own lock.                                *)

LEMMA MachineStep ==
  ASSUME TypeOK, LocalOK, HoldsOK, MachineOK, [Next]_vars
  PROVE  MachineOK'
<1> USE DEF StoppedStep
<1>1. ASSUME NEW u \in Thread, win[u].control = u, win[u].landed # "no", ~win[u].disturbed
      PROVE  Alone(u) /\ ActiveLock = u
  BY <1>1 DEF MachineOK, HoldsOK, ActiveLock
<1>2. ASSUME NEW t \in Thread, Acts(t), NEW u \in Thread \ {t},
             win'[u].control = u, win'[u].landed # "no", ~win'[u].disturbed
      PROVE  Alone(u)'
  <2>1. win'[u] = win[u] /\ pc'[u] = pc[u] /\ \A o \in Thread \ {t} : pc'[o] = pc[o]
    BY <1>2, ActsMoves DEF Moves
  <2>2. Alone(u) /\ ActiveLock = u
    BY <1>1, <1>2, <2>1
  <2>3. UNCHANGED moment
    BY <1>2, ActsFrame
  <2>4. pc[t] # "land" /\ ~Land(t) /\ ~LandFails(t)
    BY <2>2 DEF Alone, Land, LandFails
  <2>5. ~Admitted(t)
    <3>1. win[t].control \in {t, Client, None}
      BY DEF LocalOK, Local
    <3> QED
      BY <2>2, <3>1, NoClash DEF Admitted
  <2>6. pc'[t] # "land" /\ UNCHANGED running
    BY <1>2, <2>4, <2>5, SchedStep DEF HoldsOK
  <2> QED
    BY <2>1, <2>2, <2>3, <2>6 DEF Alone
<1>3. ASSUME NEW t \in Thread, Acts(t), win'[t].control = t, win'[t].landed # "no", ~win'[t].disturbed
      PROVE  Alone(t)'
  <2> DEFINE v == win[t]
  <2>1. v \in WinType /\ Local(t, pc[t], v) /\ UNCHANGED moment /\ moment \in 0..MaxMoment
    BY <1>3, Types, ActsFrame DEF LocalOK
  <2>2. \A u \in Thread \ {t} : pc'[u] = pc[u]
    BY <1>3, ActsMoves DEF Moves
  <2>3. v.control = t /\ v.landed # "no" /\ ~v.disturbed => Alone(t) /\ v.kind \in Composite
    BY <1>1, <2>1 DEF Local
  <2>4. win'[t] # NoWin
    BY <1>3, NoClash DEF NoWin
  <2>5. ASSUME Alone(t), v.kind \in Composite, UNCHANGED running,
               win'[t].resumed = v.resumed, win'[t].moments \in {v.moments, {}},
               pc'[t] = "sample" /\ pc[t] # "sample" => win'[t].moments = {},
               pc'[t] \in StoppedStep => pc[t] \in StoppedStep
        PROVE  Alone(t)'
    BY <2>1, <2>2, <2>5 DEF Alone
  <2>6. ASSUME Alone(t), MutationFails(t), UNCHANGED running \/ pc[t] = "land"
        PROVE  Alone(t)'
    <3>1. v.kind \in Window /\ \E r \in {"failed", "pause_failed"} :
             pc'[t] = "reply" /\ win'[t] = [v EXCEPT !.restore = r]
      BY <2>4, <2>6, FailMoves DEF Moves
    <3>2. pc'[t] = "reply" /\ win'[t].resumed = v.resumed /\ win'[t].moments = v.moments
      BY <2>1, <3>1 DEF WinType
    <3>3. pc[t] = "land" => ~v.resumed
      BY <2>1, <3>1 DEF Local
    <3> QED
      BY <2>1, <2>2, <2>6, <3>2, <3>3 DEF Alone
  <2> HIDE DEF v
  <2>7. CASE Start(t)
    <3>1. win'[t].landed = "no"
      <4>1. \/ \E k \in {"cpu_pause", "cpu_run"}, c \in {None, Client}, a \in {"run", "pause"} :
                 win'[t] = [NoWin EXCEPT !.kind = k, !.control = c, !.action = a]
            \/ \E i \in RunStates : win'[t] = [NoWin EXCEPT !.kind = "emulator_status", !.initial = i]
            \/ win'[t] = [NoWin EXCEPT !.kind = "guard"]
            \/ \E k \in Composite, c \in {t, Client} : win'[t] = [NoWin EXCEPT !.kind = k, !.control = c]
        <5>1. CASE StartControl(t)
          BY <5>1, StartControlMoves DEF Moves
        <5>2. CASE StartStatus(t)
          BY <5>2, StartStatusMoves DEF Moves
        <5>3. CASE StartGuard(t)
          BY <5>3, StartGuardMoves DEF Moves
        <5>4. CASE StartComposite(t)
          <6>1. \E k \in Composite, c \in {t, Client} :
                  Moves(t, "observe", [NoWin EXCEPT !.kind = k, !.control = c])
            BY <5>4, StartCompositeMoves
          <6> QED
            BY <6>1, ZenonT(60) DEF Moves
        <5> QED
          BY <2>7, <5>1, <5>2, <5>3, <5>4, ZenonT(60) DEF Start
      <4> QED
        BY <4>1, ZenonT(60) DEF NoWin
    <3> QED
      BY <1>3, <3>1
  <2>8. CASE ObserveTracked(t) \/ ObserveNative(t) \/ Learn(t) \/ Decide(t)
    <3>1. pc[t] \in OpeningStep
      BY <2>8 DEF OpeningStep, ObserveTracked, ObserveNative, Learn, Decide
    <3>2. \/ \E i \in RunStates \cup {"unknown"} : win'[t] = [v EXCEPT !.initial = i]
          \/ \E b \in BOOLEAN : win'[t] = [v EXCEPT !.paused = b, !.action = "pause"]
          \/ win'[t] = v
      BY <2>4, <2>8, ObserveMoves, LearnMoves, DecideMoves DEF Moves, v
    <3>3. v.control = t /\ v.landed # "no"
      BY <1>3, <2>1, <3>2 DEF WinType
    <3> QED
      BY <2>1, <3>1, <3>3 DEF Local, Window, Composite
  <2>9. CASE Admit(t)
    <3>1. CASE win' = win /\ pc' = [pc EXCEPT ![t] = "land"] /\ UNCHANGED running
      <4>1. pc'[t] = "land" /\ pc[t] = "admit" /\ win'[t] = v
        BY <2>9, <3>1, Types DEF Admit, v
      <4> QED
        BY <1>3, <2>3, <2>5, <3>1, <4>1
    <3>2. CASE MutationFails(t) /\ UNCHANGED running
      <4>1. \E r \in {"failed", "pause_failed"} : win'[t] = [v EXCEPT !.restore = r]
        BY <2>4, <3>2, FailMoves DEF Moves, v
      <4>2. Alone(t)
        BY <1>3, <2>1, <2>3, <4>1 DEF WinType
      <4> QED
        BY <2>6, <3>2, <4>2
    <3> QED
      BY <2>9, <3>1, <3>2 DEF Admit, Goto, machineVars
  <2>10. CASE Land(t)
    <3>1. PICK l \in {"no", "stopped", "paused"} :
            /\ pc'[t] = "note" /\ win'[t] = [v EXCEPT !.resumed = Closing(t), !.landed = l]
      BY <2>10, LandMoves DEF Moves, v
    <3>2. /\ win'[t].resumed = Closing(t) /\ win'[t].moments = v.moments /\ v.control = t
      BY <1>3, <2>1, <3>1 DEF WinType
    <3>3. pc[t] = "land" /\ running' = (v.action = "run")
      BY <2>10 DEF Land, v
    <3>4. v.kind \in Window /\ v.moments = {}
      BY <2>1, <3>2, <3>3 DEF Local, Window, Composite
    <3>5. Closing(t) = (v.action = "run")
      BY <3>4 DEF Closing, v
    <3>6. \A u \in Thread \ {t} : pc[u] # "land"
      BY <3>3 DEF HoldsOK
    <3> QED
      BY <2>1, <2>2, <3>1, <3>2, <3>3, <3>4, <3>5, <3>6, SMTT(40) DEF Alone
  <2>11. CASE LandFails(t)
    <3>1. pc[t] = "land" /\ MutationFails(t)
      BY <2>11 DEF LandFails
    <3>2. \E r \in {"failed", "pause_failed"} : win'[t] = [v EXCEPT !.restore = r]
      BY <2>4, <3>1, FailMoves DEF Moves, v
    <3>3. Alone(t)
      BY <1>3, <2>1, <2>3, <3>2 DEF WinType
    <3> QED
      BY <2>6, <3>1, <3>3
  <2>12. CASE Note(t)
    <3>1. pc[t] = "note" /\ UNCHANGED running
      BY <2>12 DEF Note, machineVars
    <3>2. \/ win'[t] = [v EXCEPT !.restore = "restored"] /\ pc'[t] = "reply"
          \/ win'[t] = v /\ pc'[t] = "sample"
      BY <2>4, <2>12, NoteMoves DEF Moves, v
    <3>3. /\ win'[t].control = v.control /\ win'[t].landed = v.landed
          /\ win'[t].disturbed = v.disturbed /\ win'[t].resumed = v.resumed
          /\ win'[t].moments = v.moments
      BY <2>1, <3>2 DEF WinType
    <3>4. Alone(t) /\ v.kind \in Composite
      BY <1>3, <2>3, <3>3
    <3>5. v.moments = {}
      BY <2>1, <3>1, <3>4 DEF Local, Window, Composite
    <3> QED
      BY <2>5, <3>1, <3>2, <3>3, <3>4, <3>5
  <2>13. CASE Sample(t)
    <3>1. pc[t] = "sample" /\ UNCHANGED running
      BY <2>13 DEF Sample, machineVars
    <3>2. pc'[t] = "sample" /\ win'[t] = [v EXCEPT !.moments = v.moments \cup {moment}]
      BY <2>13, SampleMoves DEF Moves, v
    <3>3. /\ win'[t].control = v.control /\ win'[t].landed = v.landed
          /\ win'[t].disturbed = v.disturbed /\ win'[t].resumed = v.resumed
          /\ win'[t].moments = v.moments \cup {moment}
      BY <2>1, <3>2 DEF WinType
    <3>4. Alone(t)
      BY <1>3, <2>3, <3>3
    <3>5. win'[t].moments \subseteq {moment}
      BY <3>1, <3>3, <3>4 DEF Alone, v
    <3> QED
      BY <2>1, <2>2, <3>1, <3>2, <3>3, <3>4, <3>5 DEF Alone, v
  <2>14. CASE SampleEnds(t) \/ SampleUnusable(t)
    <3>1. pc[t] = "sample" /\ UNCHANGED running
      BY <2>14 DEF SampleEnds, SampleUnusable, machineVars
    <3>2. pc'[t] \in {"close", "reply"} /\ \E b \in BOOLEAN : win'[t] = [v EXCEPT !.failed = b]
      BY <2>14, SampleEndsMoves DEF Moves, v
    <3>3. /\ win'[t].control = v.control /\ win'[t].landed = v.landed
          /\ win'[t].disturbed = v.disturbed /\ win'[t].resumed = v.resumed
          /\ win'[t].moments = v.moments
      BY <2>1, <3>2 DEF WinType
    <3> QED
      BY <1>3, <2>3, <2>5, <3>1, <3>2, <3>3
  <2>15. CASE Close(t)
    <3>1. pc[t] = "close" /\ UNCHANGED running
      BY <2>15 DEF Close, machineVars
    <3> DEFINE w == Emptied(v)
    <3>2. /\ w.control = v.control /\ w.landed = v.landed /\ w.disturbed = v.disturbed
          /\ w.resumed = v.resumed /\ w.moments = {} /\ w \in WinType
      <4>1. {} \in SUBSET (0..MaxMoment)
        OBVIOUS
      <4> QED
        BY <2>1, <4>1 DEF Emptied, WinType
    <3>3. /\ pc'[t] \in {"admit", "reply"}
          /\ \/ \E r \in {"already_paused", "skipped_unknown"} : win'[t] = [w EXCEPT !.restore = r]
             \/ win'[t] = [w EXCEPT !.action = "run"]
      BY <2>15, CloseMoves DEF Moves, v
    <3> HIDE DEF w
    <3>4. /\ win'[t].control = v.control /\ win'[t].landed = v.landed
          /\ win'[t].disturbed = v.disturbed /\ win'[t].resumed = v.resumed
          /\ win'[t].moments = {}
      BY <3>2, <3>3 DEF WinType
    <3> QED
      BY <1>3, <2>3, <2>5, <3>1, <3>3, <3>4
  <2>16. CASE ManifestFails(t)
    <3>1. pc[t] = "reply" /\ UNCHANGED running
      BY <2>16 DEF ManifestFails, machineVars
    <3>2. pc'[t] = "reply" /\ win'[t] = [v EXCEPT !.restore = "none"]
      BY <2>16, ManifestMoves DEF Moves, v
    <3>3. /\ win'[t].control = v.control /\ win'[t].landed = v.landed
          /\ win'[t].disturbed = v.disturbed /\ win'[t].resumed = v.resumed
          /\ win'[t].moments = v.moments
      BY <2>1, <3>2 DEF WinType
    <3> QED
      BY <1>3, <2>3, <2>5, <3>1, <3>2, <3>3
  <2>17. ~Reply(t)
    BY <2>4, ReplyMoves DEF Moves
  <2> QED
    BY <1>3, <2>7, <2>8, <2>9, <2>10, <2>11, <2>12, <2>13, <2>14, <2>15, <2>16, <2>17 DEF Acts, Step
<1>4. ASSUME LockExpires \/ ToggleInUI, NEW u \in Thread,
             win'[u].control = u, win'[u].landed # "no", ~win'[u].disturbed
      PROVE  Alone(u)'
  <2>1. win[u] \in WinType /\ pc' = pc /\ UNCHANGED moment
    BY <1>4, Types, WorldMarks DEF LockExpires, ToggleInUI, machineVars
  <2>2. win'[u] = win[u]
    BY <1>4, <2>1, WorldMarks DEF WinType
  <2>3. LockExpires
    <3>1. ASSUME ToggleInUI PROVE FALSE
      <4>1. win'[u] = [win[u] EXCEPT !.disturbed = TRUE]
        BY <1>4, <2>2, <3>1 DEF ToggleInUI
      <4> QED
        BY <1>4, <2>1, <4>1 DEF WinType
    <3> QED
      BY <1>4, <3>1
  <2> QED
    BY <1>1, <1>4, <2>1, <2>2, <2>3 DEF Alone, LockExpires, machineVars
<1>5. CASE ClientAcquires \/ ClientReleases \/ UNCHANGED vars
  <2>1. UNCHANGED <<pc, win, running, moment>>
    BY <1>5 DEF ClientAcquires, ClientReleases, vars, machineVars
  <2> QED
    BY <2>1 DEF MachineOK, Alone
<1>6. CASE Tick
  <2>1. UNCHANGED <<pc, win, running>> /\ running
    BY <1>6 DEF Tick
  <2>2. ASSUME NEW u \in Thread, win[u].control = u, win[u].landed # "no", ~win[u].disturbed
        PROVE  pc[u] # "sample"
    <3>1. win[u].kind \in Window /\ Local(u, pc[u], win[u])
      BY <2>2 DEF LocalOK, Local, Window, Composite
    <3>2. pc[u] = "sample" => ~win[u].resumed
      BY <3>1 DEF Local
    <3> QED
      BY <1>1, <2>1, <2>2, <3>2 DEF Alone
  <2> QED
    BY <2>1, <2>2 DEF MachineOK, Alone
<1> QED
  BY <1>2, <1>3, <1>4, <1>5, <1>6 DEF MachineOK, Next, NoMoreCalls, Acts

LEMMA MachineInit == Init => MachineOK
BY DEF Init, NoWin, MachineOK

-----------------------------------------------------------------------------
(* The theorems.                                                            *)

\* Every variable keeps its type, for any number of callers and of calls.
THEOREM CapturesAreTyped == Spec => []TypeOK
BY TypeInit, TypeStep, PTL DEF Spec

LEMMA CaptureInvariant == Spec => []CaptureInv
<1>1. Init => CaptureInv
  BY TypeInit, LocalInit, HoldsInit, MachineInit DEF CaptureInv
<1>2. CaptureInv /\ [Next]_vars => CaptureInv'
  BY TypeStep, LocalStep, HoldsStep, MachineStep DEF CaptureInv
<1> QED
  BY <1>1, <1>2, PTL DEF Spec

\* A composite that has stopped the machine under a lock of its own samples one
\* emulated moment, and the run state it restored is there when it replies, unless
\* the UI or the TTL interferes: whoever else pauses, runs, captures or reads.
THEOREM CapturesAreExclusive == Spec => []ExclusiveWindow
<1>1. CaptureInv => ExclusiveWindow
  <2> SUFFICES ASSUME CaptureInv, NEW t \in Thread,
                      win[t].control = t, win[t].landed # "no", ~win[t].disturbed
               PROVE  /\ Cardinality(win[t].moments) <= 1
                      /\ pc[t] = "reply" /\ win[t].resumed => running
    BY DEF ExclusiveWindow
  <2>1. Alone(t)
    BY DEF CaptureInv, MachineOK
  <2>2. PICK m \in 0..MaxMoment : win[t].moments \subseteq {m}
    BY <2>1 DEF Alone
  <2>3. win[t].moments = {} \/ win[t].moments = {m}
    BY <2>2
  <2>4. Cardinality(win[t].moments) \in {0, 1}
    BY <2>3, FS_EmptySet, FS_Singleton
  <2> QED
    BY <2>1, <2>4 DEF Alone
<1> QED
  BY <1>1, CaptureInvariant, PTL

\* A guarded read whose pause landed never returns in silence with the machine it
\* has stopped: it resumed it, or its answer says that it did not.
THEOREM GuardsNeverLeak == Spec => []GuardNeverLeaks
<1>1. CaptureInv => GuardNeverLeaks
  BY DEF CaptureInv, LocalOK, Local, GuardNeverLeaks, Silent
<1> QED
  BY <1>1, CaptureInvariant, PTL
=============================================================================
